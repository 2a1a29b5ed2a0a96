------------------------- MODULE AddressSpacesProofs -------------------------
(***************************************************************************)
(* Proofs about AddressSpaces, for any number of frames, tables, programs  *)
(* and tasks, when no task with a directory is reaped.                     *)
(***************************************************************************)
EXTENDS AddressSpaces, FiniteSetTheorems, WellFoundedInduction, TLAPS

-----------------------------------------------------------------------------
(* Entries and slots.                                                      *)

(* A page is its entry times the tables' size plus its slot.               *)
LEMMA Halves ==
    ASSUME NEW v \in Nat
    PROVE  /\ Entry(v) \in Nat /\ Slot(v) \in Slots
           /\ v = TableSize * Entry(v) + Slot(v)
<1> USE SizesAssumption
<1>1. Entry(v) \in Nat
  BY SMT DEF Entry
<1>2. Slot(v) \in 0..(TableSize - 1)
  BY SMT DEF Slot
<1>3. v = TableSize * Entry(v) + Slot(v)
  <2>1. PICK q \in Nat : q = v \div TableSize
    BY <1>1 DEF Entry
  <2>2. PICK r \in 0..(TableSize - 1) : r = v % TableSize
    BY <1>2 DEF Slot
  <2>3. v = TableSize * q + r
    BY <2>1, <2>2, SMT
  <2> QED BY <2>1, <2>2, <2>3 DEF Entry, Slot
<1> QED BY <1>1, <1>2, <1>3 DEF Slots

(* Multiplication keeps the order.                                         *)
LEMMA Scales ==
    ASSUME NEW a \in Nat, NEW b \in Nat, a <= b, NEW n \in Nat
    PROVE  a * n <= b * n
BY SMT

(* The entry of a page below the first page of entry a is below a.         *)
LEMMA EntryBelow ==
    ASSUME NEW v \in Nat, NEW a \in Nat, v < a * TableSize
    PROVE  Entry(v) \in 0..(a - 1)
<1> USE SizesAssumption
<1>1. SUFFICES ASSUME a <= Entry(v) PROVE FALSE
  BY Halves
<1>2. a * TableSize <= Entry(v) * TableSize
  BY <1>1, Halves, Scales
<1>3. PICK q \in Nat : q = Entry(v)
  BY Halves
<1>4. PICK r \in 0..(TableSize - 1) : r = Slot(v)
  BY Halves DEF Slots
<1>5. v = TableSize * q + r
  BY <1>3, <1>4, Halves
<1>6. TableSize * q = q * TableSize
  BY SMT
<1> QED BY <1>2, <1>3, <1>5, <1>6

(* The entry of any other page is not.                                     *)
LEMMA EntryAbove ==
    ASSUME NEW v \in Nat, NEW a \in Nat, a * TableSize <= v
    PROVE  a <= Entry(v)
<1> USE SizesAssumption
<1>1. SUFFICES ASSUME Entry(v) + 1 <= a PROVE FALSE
  BY Halves
<1>2. (Entry(v) + 1) * TableSize <= a * TableSize
  BY <1>1, Halves, Scales
<1>3. PICK q \in Nat : q = Entry(v)
  BY Halves
<1>4. PICK r \in 0..(TableSize - 1) : r = Slot(v)
  BY Halves DEF Slots
<1>5. v = TableSize * q + r
  BY <1>3, <1>4, Halves
<1>6. (q + 1) * TableSize = TableSize * q + TableSize
  BY SMT
<1> QED BY <1>2, <1>3, <1>5, <1>6

(* Two pages with the same entry and slot are one.                         *)
LEMMA SamePage ==
    ASSUME NEW v \in Nat, NEW w \in Nat, Entry(v) = Entry(w), Slot(v) = Slot(w)
    PROVE  v = w
BY Halves

(* What the sizes of the machine imply.                                    *)
LEMMA Sizes ==
    /\ NumFrames \in Nat /\ 2 <= NumFrames
    /\ NumFrames <= FirstHigh * TableSize
    /\ FirstHigh * TableSize \in Nat /\ NumEntries * TableSize \in Nat
    /\ FirstHigh * TableSize <= NumEntries * TableSize
    /\ Reserved \subseteq Frames
    /\ Null \in Reserved /\ KernelCode \in Reserved
    /\ None \notin Tables /\ None \notin Frames /\ Frames \subseteq Tables
    /\ Frames \subseteq Nat
<1> USE SizesAssumption
<1>1. NumFrames \in Nat /\ NumFrames <= FirstHigh * TableSize
  BY Scales DEF NumFrames
<1>2. FirstHigh * TableSize \in Nat /\ NumEntries * TableSize \in Nat
  OBVIOUS
<1>3. FirstHigh * TableSize <= NumEntries * TableSize
  BY Scales
<1> HIDE DEF NumFrames
<1> QED BY <1>1, <1>2, <1>3 DEF Reserved, Frames, Null, KernelCode, None,
           Tables, StaticTable

(* The entries of the pages of the image and of the heap.                  *)
LEMMA ImageEntry ==
    ASSUME NEW v \in ImagePages
    PROVE  /\ v \in Nat /\ Slot(v) \in Slots
           /\ Entry(v) \in Entries /\ Entry(v) \in 0..(FirstHigh - 1)
           /\ Entry(v) >= IdentityTables
<1> USE SizesAssumption
<1>1. v \in Nat /\ v < FirstHigh * TableSize /\ NumFrames <= v
  BY Sizes DEF ImagePages
<1>2. Entry(v) \in 0..(FirstHigh - 1)
  BY <1>1, EntryBelow
<1>3. IdentityTables <= Entry(v)
  BY <1>1, EntryAbove DEF NumFrames
<1> QED BY <1>1, <1>2, <1>3, Halves DEF Entries

(* Pages of the lower part have their entries there.                       *)
LEMMA LowEntry ==
    ASSUME NEW v \in 0..(FirstHigh * TableSize - 1)
    PROVE  /\ v \in Nat /\ Slot(v) \in Slots
           /\ Entry(v) \in Entries /\ Entry(v) \in 0..(FirstHigh - 1)
<1> USE SizesAssumption
<1>1. v \in Nat /\ v < FirstHigh * TableSize
  BY Sizes
<1>2. Entry(v) \in 0..(FirstHigh - 1)
  BY <1>1, EntryBelow
<1> QED BY <1>1, <1>2, Halves DEF Entries

(* The pages of the heap are no image pages.                               *)
LEMMA HeapEntry ==
    ASSUME NEW v \in HeapPages
    PROVE  /\ v \in Nat /\ Slot(v) \in Slots
           /\ Entry(v) \in Entries /\ v \notin ImagePages
<1> USE SizesAssumption
<1>1. /\ v \in Nat /\ v < NumEntries * TableSize
      /\ FirstHigh * TableSize <= v
  BY Sizes DEF HeapPages
<1>2. Entry(v) \in 0..(NumEntries - 1)
  BY <1>1, EntryBelow
<1>3. v \notin ImagePages
  BY <1>1, Sizes DEF ImagePages
<1> QED BY <1>1, <1>2, <1>3, Halves DEF Entries

-----------------------------------------------------------------------------
(* The least number of a set, and the one with n members below it.         *)

Under(S, x) == {y \in S : y < x}

(* A set of numbers that is not empty has a least member.                  *)
LEMMA LeastExists ==
    ASSUME NEW S \in SUBSET Nat, S # {}
    PROVE  \E m \in S : \A y \in S : m <= y
<1> DEFINE below == {pair \in Nat \X Nat : pair[1] < pair[2]}
<1>1. IsWellFoundedOn(below, Nat)
  BY NatLessThanWellFounded DEF OpToRel
<1> HIDE DEF below
<1>2. PICK m \in S : \A y \in S : ~(<<y, m>> \in below)
  BY <1>1, WFMin
<1>3. ASSUME NEW y \in S PROVE m <= y
  <2>1. y < m => <<y, m>> \in below
    BY DEF below
  <2> QED BY <1>2, <2>1
<1> QED BY <1>3

(* What lies below a number is counted.                                    *)
LEMMA UnderFinite ==
    ASSUME NEW S, IsFiniteSet(S), NEW x
    PROVE  IsFiniteSet(Under(S, x)) /\ Cardinality(Under(S, x)) \in Nat
<1>1. Under(S, x) \subseteq S
  BY DEF Under
<1> QED BY <1>1, FS_Subset, FS_CardinalityType

(* More members of S lie below the greater of two.                         *)
LEMMA RankGrows ==
    ASSUME NEW S \in SUBSET Nat, IsFiniteSet(S), NEW x \in S, NEW y \in Nat,
           x < y
    PROVE  Cardinality(Under(S, x)) < Cardinality(Under(S, y))
<1>1. x \in Nat /\ ~(x < x)
  OBVIOUS
<1>2. \A z \in S : z < x => z < y
  BY <1>1
<1>3. Under(S, x) \subseteq Under(S, y) /\ x \in Under(S, y)
      /\ x \notin Under(S, x)
  BY <1>1, <1>2 DEF Under
<1>4. Under(S, x) # Under(S, y)
  BY <1>3
<1> QED BY <1>3, <1>4, UnderFinite, FS_Subset

(* Two members with as many members below them are one.                    *)
LEMMA RankUnique ==
    ASSUME NEW S \in SUBSET Nat, IsFiniteSet(S), NEW x \in S, NEW y \in S,
           Cardinality(Under(S, x)) = Cardinality(Under(S, y))
    PROVE  x = y
<1>1. x \in Nat /\ y \in Nat
  OBVIOUS
<1>2. CASE x < y
  BY <1>1, <1>2, RankGrows, UnderFinite
<1>3. CASE y < x
  BY <1>1, <1>3, RankGrows, UnderFinite
<1> QED BY <1>1, <1>2, <1>3

(* Fewer members lie below a member than there are.                        *)
LEMMA RankSmall ==
    ASSUME NEW S \in SUBSET Nat, IsFiniteSet(S), NEW x \in S
    PROVE  Cardinality(Under(S, x)) < Cardinality(S)
<1>1. Under(S, x) \subseteq S /\ x \in S /\ x \notin Under(S, x)
  BY DEF Under
<1>2. Under(S, x) # S
  BY <1>1
<1> QED BY <1>1, <1>2, UnderFinite, FS_Subset, FS_CardinalityType

(* For every n there is a member with n members below it, if there are more*)
(* than n.                                                                 *)
LEMMA RankExists ==
    ASSUME NEW S \in SUBSET Nat, IsFiniteSet(S),
           NEW n \in Nat, n < Cardinality(S)
    PROVE  \E x \in S : Cardinality(Under(S, x)) = n
<1> DEFINE Has(k) == \E x \in S : Cardinality(Under(S, x)) = k
           missing == {k \in Nat : k < Cardinality(S) /\ ~Has(k)}
<1> HIDE DEF Has
<1>1. Cardinality(S) \in Nat
  BY FS_CardinalityType
<1>2. SUFFICES ASSUME missing # {} PROVE FALSE
  BY DEF Has
<1>3. PICK k \in missing : \A j \in missing : k <= j
  BY <1>2, LeastExists
<1>4. k \in Nat /\ k < Cardinality(S) /\ ~Has(k)
  BY <1>3
<1>5. CASE k = 0
  <2>1. S # {}
    BY <1>1, <1>4, <1>5, FS_EmptySet
  <2>2. PICK m \in S : \A y \in S : m <= y
    BY <2>1, LeastExists
  <2>3. Under(S, m) = {}
    <3>1. \A y \in S : y \in Nat /\ m \in Nat /\ ~(y < m)
      BY <2>2
    <3> QED BY <3>1 DEF Under
  <2> QED BY <1>4, <1>5, <2>2, <2>3, FS_EmptySet DEF Has
<1>6. CASE k # 0
  <2>1. k - 1 \in Nat /\ k - 1 < Cardinality(S) /\ ~(k <= k - 1)
    BY <1>1, <1>4, <1>6
  <2>2. Has(k - 1)
    BY <1>3, <2>1
  <2>3. PICK x \in S : Cardinality(Under(S, x)) = k - 1
    BY <2>2 DEF Has
  <2> DEFINE above == {y \in S : x < y}
             upto == Under(S, x) \cup {x}
  <2>4. x \notin Under(S, x)
    BY DEF Under
  <2>5. IsFiniteSet(upto) /\ Cardinality(upto) = Cardinality(Under(S, x)) + 1
    BY <2>4, UnderFinite, FS_AddElement
  <2>6. Cardinality(upto) = k
    BY <1>4, <2>3, <2>5
  <2>7. CASE above = {}
    <3>1. \A y \in S : y \in Nat /\ x \in Nat /\ ~(x < y)
      BY <2>7
    <3>2. \A y \in S : y < x \/ y = x
      BY <3>1
    <3>3. S = upto
      BY <3>2 DEF Under
    <3> QED BY <1>1, <1>4, <2>6, <3>3
  <2>8. CASE above # {}
    <3>1. PICK m \in above : \A y \in above : m <= y
      BY <2>8, LeastExists
    <3>2. m \in S /\ m \in Nat /\ x \in Nat /\ x < m
      BY <3>1
    <3>3. \A y \in S : y \in Nat /\ (x < y => ~(y < m))
      BY <3>1, <3>2
    <3>4. \A y \in S : y < m <=> y < x \/ y = x
      BY <3>2, <3>3
    <3>5. Under(S, m) = upto
      BY <2>3, <3>4 DEF Under
    <3> QED BY <1>4, <2>6, <3>2, <3>5 DEF Has
  <2> QED BY <2>7, <2>8
<1> QED BY <1>5, <1>6

(* Nth yields a member, with n members below it.                           *)
LEMMA NthIs ==
    ASSUME NEW S \in SUBSET Nat, IsFiniteSet(S),
           NEW n \in Nat, n < Cardinality(S)
    PROVE  Nth(S, n) \in S /\ Cardinality(Under(S, Nth(S, n))) = n
BY RankExists DEF Nth, Under

(* pmm_alloc_frame finds a frame if there is one.                          *)
LEMMA FirstIs ==
    ASSUME NEW S \in SUBSET Nat, IsFiniteSet(S), S # {}
    PROVE  First(S) \in S
<1>1. Cardinality(S) \in Nat /\ Cardinality(S) # 0
  BY FS_EmptySet, FS_CardinalityType
<1> QED BY <1>1, NthIs DEF First

(* The free frames are counted.                                            *)
LEMMA FreeIs ==
    /\ Free \in SUBSET Nat /\ IsFiniteSet(Free) /\ Free \subseteq Frames
    /\ \A f : Free \ {f} \in SUBSET Nat /\ IsFiniteSet(Free \ {f})
<1>1. IsFiniteSet(Frames)
  BY Sizes, FS_Interval DEF Frames
<1> QED BY <1>1, Sizes, FS_Subset DEF Free

-----------------------------------------------------------------------------
(* The inductive invariant, when no task with a directory is reaped.       *)

LowEntries == 0..(FirstHigh - 1)

(* The frame of page v in the kernel's directory and in that of task t.    *)
KernelFrame(v) == Lookup(kernel_page_directory, v).frame
TaskFrame(t, v) == Lookup(directory[t], v).frame

(* The kernel's tables: the first are static; frame 0 is taken for one     *)
(* only with the last frame.                                               *)
KernelTables ==
    /\ Reserved \subseteq pmm_bitmap
    /\ \A e \in Entries :
          /\ e < IdentityTables =>
                kernel_page_directory[e].frame = StaticTable(e)
          /\ e >= IdentityTables =>
                kernel_page_directory[e].frame \in Frames \cup {None}
          /\ kernel_page_directory[e].frame = Null => Free = {}

(* The task that is being created.                                         *)
Coming == {t \in Tasks : pc = "stacks" /\ t = new}

(* The tables of the lower part of a task's directory are frames, and a    *)
(* task that is not under way has no directory.                            *)
Directories ==
    /\ \A t \in Tasks, e \in LowEntries :
          directory[t][e].frame \in (Frames \ {Null}) \cup {None}
    /\ \A t \in Tasks : page_directory[t] = Null =>
          \A e \in Entries : directory[t][e] = Absent
    /\ \A t \in Tasks : state[t] # "ready" =>
          page_directory[t] = Null \/ t \in Coming

(* The task that is being created shares the kernel's pages.               *)
Created ==
    /\ pc = "stacks" => Coming # {}
    /\ \A t \in Coming :
          /\ state[t] = "none"
          /\ Free # {} => page_directory[t] # Null
          /\ \A v \in ImagePages :
                TaskFrame(t, v) = None \/ TaskFrame(t, v) = KernelFrame(v)

(* As long as there are free frames, every page of a program the kernel    *)
(* maps has just been loaded or is mapped by a task as well.               *)
Covered ==
    Free # {} => \A v \in ImagePages : KernelFrame(v) # None =>
        \/ v \in image \ todo
        \/ \E t \in Ready \cup Coming : TaskFrame(t, v) = KernelFrame(v)

(* There is an image only while it is loaded, or when the load has stopped *)
(* the machine.                                                            *)
Loading == pc \notin {"load", "copy", "halted"} => image = {}

Backed == pmm_bitmap \subseteq Reserved \cup {u[3] : u \in InFrames}

AddressInv ==
    /\ TypeOK /\ FramesHaveOneOwner
    /\ KernelTables /\ Directories /\ Created /\ Covered /\ Loading
    /\ Backed

(* The parts of the invariant.                                             *)
LEMMA InvFacts ==
    ASSUME AddressInv
    PROVE  /\ TypeOK /\ FramesHaveOneOwner
           /\ KernelTables /\ Directories /\ Created /\ Covered /\ Loading
           /\ Backed
BY DEF AddressInv

-----------------------------------------------------------------------------
(* The uses of frames.                                                     *)

KernelTable(e) == kernel_page_directory[e].frame
TaskTable(t, e) == directory[t][e].frame

HeapUse(u) == \E v \in Mapped : u = <<"heap", v, KernelFrame(v)>>
ImageUse(u) == \E v \in ImagePages : u = <<"image", v, KernelFrame(v)>>
TaskUse(u) ==
    \E t \in Ready : \E v \in ImagePages : u = <<"image", v, TaskFrame(t, v)>>
TableUse(u) == \E e \in Entries : u = <<"table", e, KernelTable(e)>>
CopyUse(u) ==
    \E t \in Tasks : \E e \in LowEntries :
        u = <<"copy", <<t, e>>, TaskTable(t, e)>>
DirectoryUse(u) ==
    \E t \in Tasks : u = <<"directory", t, page_directory[t]>>

Use(u) ==
    \/ HeapUse(u) \/ ImageUse(u) \/ TaskUse(u)
    \/ TableUse(u) \/ CopyUse(u) \/ DirectoryUse(u)

(* The uses of frames by kind.                                             *)
LEMMA UsesAre ==
    ASSUME NEW u
    PROVE  u \in InFrames <=> Use(u) /\ u[3] \in Frames \ {Null}
<1>1. u \in Uses <=> Use(u)
  BY DEF Uses, Use, HeapUse, ImageUse, TaskUse, TableUse, CopyUse,
         DirectoryUse, Spaces, KernelFrame, TaskFrame, KernelTable, TaskTable,
         LowEntries
<1> QED BY <1>1 DEF InFrames

(* The same in the next state.                                             *)
LEMMA UsesWillBe ==
    ASSUME NEW u
    PROVE  u \in InFrames' <=> Use(u)' /\ u[3] \in Frames \ {Null}
<1>1. u \in Uses' <=> Use(u)'
  BY DEF Uses, Use, HeapUse, ImageUse, TaskUse, TableUse, CopyUse,
         DirectoryUse, Spaces, KernelFrame, TaskFrame, KernelTable, TaskTable,
         LowEntries
<1> QED BY <1>1 DEF InFrames

(* Who owns the tables and who may not use them.                           *)
LEMMA Owners ==
    ASSUME AddressInv
    PROVE  /\ \A e \in Entries : KernelTable(e) \notin Free
           /\ \A e1, e2 \in Entries : KernelTable(e1) = KernelTable(e2) =>
                 e1 = e2 \/ KernelTable(e1) = None \/ KernelTable(e1) = Null
           /\ \A t \in Tasks, e \in LowEntries : TaskTable(t, e) \notin Free
           /\ \A t \in Tasks, e \in LowEntries : \A e2 \in Entries :
                 TaskTable(t, e) = KernelTable(e2) => TaskTable(t, e) = None
<1> USE InvFacts
<1>1. \A e \in Entries : KernelTable(e) \in Frames \ {Null} =>
          <<"table", e, KernelTable(e)>> \in InFrames
  BY UsesAre DEF Use, TableUse
<1>2. \A t \in Tasks, e \in LowEntries : TaskTable(t, e) \in Frames \ {Null} =>
          <<"copy", <<t, e>>, TaskTable(t, e)>> \in InFrames
  BY UsesAre DEF Use, CopyUse
<1>3. Null \notin Free /\ None \notin Free
  BY Sizes DEF KernelTables, Free
<1>4. ASSUME NEW e \in Entries PROVE KernelTable(e) \notin Free
  <2>1. CASE KernelTable(e) \in Frames \ {Null}
    BY <1>1, <2>1 DEF FramesHaveOneOwner, Free
  <2>2. CASE KernelTable(e) \notin Frames \ {Null}
    BY <1>3, <2>2 DEF Free
  <2> QED BY <2>1, <2>2
<1>5. ASSUME NEW e1 \in Entries, NEW e2 \in Entries,
             KernelTable(e1) = KernelTable(e2),
             KernelTable(e1) # None, KernelTable(e1) # Null
      PROVE  e1 = e2
  <2>1. CASE KernelTable(e1) \in Frames
    <3>1. <<"table", e1, KernelTable(e1)>> = <<"table", e2, KernelTable(e2)>>
      BY <1>1, <1>5, <2>1 DEF FramesHaveOneOwner
    <3> QED BY <3>1
  <2>2. CASE KernelTable(e1) \notin Frames
    <3>1. e1 < IdentityTables /\ e2 < IdentityTables
      BY <1>5, <2>2, SizesAssumption DEF KernelTables, KernelTable, Entries
    <3>2. KernelTable(e1) = NumFrames + e1 /\ KernelTable(e2) = NumFrames + e2
      BY <3>1 DEF KernelTables, KernelTable, StaticTable
    <3>3. NumFrames + e1 = NumFrames + e2
      BY <1>5, <3>2
    <3>4. NumFrames \in Nat /\ e1 \in Nat /\ e2 \in Nat
      BY Sizes DEF Entries
    <3> HIDE DEF NumFrames
    <3> QED BY <3>3, <3>4
  <2> QED BY <2>1, <2>2
<1>6. ASSUME NEW t \in Tasks, NEW e \in LowEntries
      PROVE  TaskTable(t, e) \notin Free
  <2>1. CASE TaskTable(t, e) \in Frames \ {Null}
    BY <1>2, <2>1 DEF FramesHaveOneOwner, Free
  <2>2. CASE TaskTable(t, e) = None
    BY <1>3, <2>2
  <2> QED BY <2>1, <2>2 DEF Directories, TaskTable
<1>7. ASSUME NEW t \in Tasks, NEW e \in LowEntries, NEW e2 \in Entries,
             TaskTable(t, e) = KernelTable(e2), TaskTable(t, e) # None
      PROVE  FALSE
  <2>1. TaskTable(t, e) \in Frames \ {Null}
    BY <1>7 DEF Directories, TaskTable
  <2>2. <<"table", e2, KernelTable(e2)>>
            = <<"copy", <<t, e>>, TaskTable(t, e)>>
    BY <1>1, <1>2, <1>7, <2>1 DEF FramesHaveOneOwner
  <2> QED BY <2>2
<1> QED BY <1>4, <1>5, <1>6, <1>7

(* Frames that were free when they got their use keep the owners apart.    *)
Taken(New) ==
    /\ \A u \in New : u[3] \in Free /\ u[3] \in pmm_bitmap'
    /\ \A u1, u2 \in New : u1[3] = u2[3] => u1 = u2

(* Frames in use keep one owner if the new uses are of free frames.        *)
LEMMA OwnersGrow ==
    ASSUME FramesHaveOneOwner, Reserved \subseteq pmm_bitmap,
           pmm_bitmap \subseteq pmm_bitmap',
           NEW New, Taken(New),
           \A u \in InFrames' : u \in InFrames \/ u \in New
    PROVE  FramesHaveOneOwner'
<1>1. ASSUME NEW u \in InFrames' PROVE u[3] \in pmm_bitmap' \ Reserved
  BY <1>1 DEF FramesHaveOneOwner, Taken, Free
<1>2. ASSUME NEW u1 \in InFrames', NEW u2 \in InFrames', u1[3] = u2[3]
      PROVE  u1 = u2
  <2>1. \A u \in InFrames : u[3] \notin Free
    BY DEF FramesHaveOneOwner, Free
  <2> QED BY <1>2, <2>1 DEF FramesHaveOneOwner, Taken
<1> QED BY <1>1, <1>2 DEF FramesHaveOneOwner

(* The uses of the next state are those of this one and the new ones.      *)
Grows(New) ==
    /\ \A v \in Mapped' :
          \/ v \in Mapped /\ KernelFrame(v)' = KernelFrame(v)
          \/ <<"heap", v, KernelFrame(v)'>> \in New
    /\ \A v \in ImagePages :
          \/ KernelFrame(v)' = KernelFrame(v)
          \/ <<"image", v, KernelFrame(v)'>> \in New
    /\ \A t \in Ready' : \A v \in ImagePages :
          \/ TaskFrame(t, v)' = None
          \/ TaskFrame(t, v)' = KernelFrame(v)
          \/ t \in Ready /\ TaskFrame(t, v)' = TaskFrame(t, v)
    /\ \A e \in Entries :
          \/ KernelTable(e)' = KernelTable(e)
          \/ KernelTable(e)' = Null
          \/ <<"table", e, KernelTable(e)'>> \in New
    /\ \A t \in Tasks : \A e \in LowEntries :
          \/ TaskTable(t, e)' = TaskTable(t, e)
          \/ TaskTable(t, e)' = None
          \/ <<"copy", <<t, e>>, TaskTable(t, e)'>> \in New
    /\ \A t \in Tasks :
          \/ page_directory'[t] = page_directory[t]
          \/ <<"directory", t, page_directory'[t]>> \in New

(* A use in the next state is one of this state or a new one.              *)
LEMMA UsesGrow ==
    ASSUME NEW New, Grows(New)
    PROVE  \A u \in InFrames' : u \in InFrames \/ u \in New
<1>1. SUFFICES ASSUME NEW u, Use(u)', u[3] \in Frames \ {Null},
                      u \notin New
               PROVE  Use(u)
  BY UsesAre, UsesWillBe
<1>2. u[3] # None /\ u[3] # Null
  BY <1>1, Sizes
<1>3. CASE HeapUse(u)'
  <2>1. PICK v \in Mapped' : u = <<"heap", v, KernelFrame(v)'>>
    BY <1>3 DEF HeapUse
  <2> QED BY <1>1, <2>1 DEF Grows, Use, HeapUse
<1>4. CASE ImageUse(u)'
  <2>1. PICK v \in ImagePages : u = <<"image", v, KernelFrame(v)'>>
    BY <1>4 DEF ImageUse
  <2> QED BY <1>1, <2>1 DEF Grows, Use, ImageUse
<1>5. CASE TaskUse(u)'
  <2>1. PICK t \in Ready' : \E v \in ImagePages :
            u = <<"image", v, TaskFrame(t, v)'>>
    BY <1>5 DEF TaskUse
  <2>2. PICK v \in ImagePages : u = <<"image", v, TaskFrame(t, v)'>>
    BY <2>1
  <2> QED BY <1>2, <2>1, <2>2 DEF Grows, Use, ImageUse, TaskUse
<1>6. CASE TableUse(u)'
  <2>1. PICK e \in Entries : u = <<"table", e, KernelTable(e)'>>
    BY <1>6 DEF TableUse
  <2> QED BY <1>1, <1>2, <2>1 DEF Grows, Use, TableUse
<1>7. CASE CopyUse(u)'
  <2>1. PICK t \in Tasks : \E e \in LowEntries :
            u = <<"copy", <<t, e>>, TaskTable(t, e)'>>
    BY <1>7 DEF CopyUse
  <2>2. PICK e \in LowEntries : u = <<"copy", <<t, e>>, TaskTable(t, e)'>>
    BY <2>1
  <2> QED BY <1>1, <1>2, <2>1, <2>2 DEF Grows, Use, CopyUse
<1>8. CASE DirectoryUse(u)'
  <2>1. PICK t \in Tasks : u = <<"directory", t, page_directory'[t]>>
    BY <1>8 DEF DirectoryUse
  <2> QED BY <1>1, <2>1 DEF Grows, Use, DirectoryUse
<1> QED BY <1>1, <1>3, <1>4, <1>5, <1>6, <1>7, <1>8 DEF Use

(* Every frame in use keeps a use.                                         *)
Keeps ==
    /\ \A v \in Mapped : v \in Mapped' /\ KernelFrame(v)' = KernelFrame(v)
    /\ \A v \in ImagePages :
          \/ KernelFrame(v)' = KernelFrame(v)
          \/ KernelFrame(v) = None
          \/ \E t \in Ready : TaskFrame(t, v) = KernelFrame(v)
    /\ \A t \in Ready : t \in Ready'
    /\ \A t \in Ready : \A v \in ImagePages :
          TaskFrame(t, v)' = TaskFrame(t, v)
    /\ \A e \in Entries :
          KernelTable(e) # None => KernelTable(e)' = KernelTable(e)
    /\ \A t \in Tasks : \A e \in LowEntries :
          TaskTable(t, e) # None => TaskTable(t, e)' = TaskTable(t, e)
    /\ \A t \in Tasks :
          page_directory[t] # Null => page_directory'[t] = page_directory[t]

(* No frame in use is left without one.                                    *)
LEMMA UsesKept ==
    ASSUME Keeps, NEW u \in InFrames
    PROVE  \E w \in InFrames' : w[3] = u[3]
<1>1. Use(u) /\ u[3] \in Frames \ {Null}
  BY UsesAre
<1>2. u[3] # None /\ u[3] # Null
  BY <1>1, Sizes
<1>3. SUFFICES \E w : Use(w)' /\ w[3] = u[3]
  BY <1>1, UsesWillBe
<1>4. CASE HeapUse(u)
  BY <1>4 DEF Keeps, Use, HeapUse
<1>5. CASE TaskUse(u)
  BY <1>5 DEF Keeps, Use, TaskUse
<1>6. CASE ImageUse(u)
  <2>1. PICK v \in ImagePages : u = <<"image", v, KernelFrame(v)>>
    BY <1>6 DEF ImageUse
  <2>2. CASE KernelFrame(v)' = KernelFrame(v)
    BY <2>1, <2>2 DEF Use, ImageUse
  <2>3. CASE \E t \in Ready : TaskFrame(t, v) = KernelFrame(v)
    <3>1. PICK t \in Ready : TaskFrame(t, v) = KernelFrame(v)
      BY <2>3
    <3>2. t \in Ready' /\ TaskFrame(t, v)' = KernelFrame(v)
      BY <2>1, <3>1 DEF Keeps
    <3>3. u = <<"image", v, TaskFrame(t, v)'>>
      BY <2>1, <3>2
    <3> QED BY <2>1, <3>2, <3>3 DEF Use, TaskUse
  <2> QED BY <1>2, <2>1, <2>2, <2>3 DEF Keeps
<1>7. CASE TableUse(u)
  <2>1. PICK e \in Entries : u = <<"table", e, KernelTable(e)>>
    BY <1>7 DEF TableUse
  <2> QED BY <1>2, <2>1 DEF Keeps, Use, TableUse
<1>8. CASE CopyUse(u)
  <2>1. PICK t \in Tasks : \E e \in LowEntries :
            u = <<"copy", <<t, e>>, TaskTable(t, e)>>
    BY <1>8 DEF CopyUse
  <2>2. PICK e \in LowEntries : u = <<"copy", <<t, e>>, TaskTable(t, e)>>
    BY <2>1
  <2> QED BY <1>2, <2>1, <2>2 DEF Keeps, Use, CopyUse
<1>9. CASE DirectoryUse(u)
  <2>1. PICK t \in Tasks : u = <<"directory", t, page_directory[t]>>
    BY <1>9 DEF DirectoryUse
  <2> QED BY <1>2, <2>1 DEF Keeps, Use, DirectoryUse
<1> QED BY <1>1, <1>4, <1>5, <1>6, <1>7, <1>8, <1>9 DEF Use

(* Frames that are marked are used.                                        *)
LEMMA BackedGrows ==
    ASSUME Backed, Keeps, NEW X, pmm_bitmap' \subseteq pmm_bitmap \cup X,
           \A f \in X : \E w \in InFrames' : w[3] = f
    PROVE  Backed'
<1>1. \A f \in pmm_bitmap : f \in Reserved \/ \E u \in InFrames : u[3] = f
  BY DEF Backed
<1>2. \A f \in pmm_bitmap' : f \in Reserved \/ \E w \in InFrames' : w[3] = f
  BY <1>1, UsesKept
<1> QED BY <1>2 DEF Backed

-----------------------------------------------------------------------------
(* vmm_map_page.                                                           *)

(* The types of entries.                                                   *)
LEMMA Types ==
    ASSUME TypeOK
    PROVE  /\ \A e \in Entries : KernelTable(e) \in Tables \cup {None}
           /\ \A e \in Entries : kernel_page_directory[e].user \in BOOLEAN
           /\ \A x \in Tables, s \in Slots : table[x][s] \in PageEntry
           /\ \A v \in Nat : Entry(v) \in Entries =>
                 Lookup(kernel_page_directory, v) \in PageEntry
           /\ Absent \in PageEntry
<1>1. Absent \in PageEntry
  BY DEF Absent, PageEntry
<1>2. \A e \in Entries : KernelTable(e) \in Tables \cup {None}
                         /\ kernel_page_directory[e].user \in BOOLEAN
  BY DEF TypeOK, DirectoryEntry, KernelTable
<1>3. \A x \in Tables, s \in Slots : table[x][s] \in PageEntry
  BY DEF TypeOK
<1>4. \A v \in Nat : Entry(v) \in Entries =>
          Lookup(kernel_page_directory, v) \in PageEntry
  BY <1>1, <1>2, <1>3, Halves DEF Lookup, Present, KernelTable
<1> QED BY <1>1, <1>2, <1>3, <1>4

(* What it does to the tables, x being that of the page's entry.           *)
MapsAt(v, f, x) ==
    /\ x \in Tables
    /\ pmm_bitmap' = pmm_bitmap \cup {f} \cup ({x} \cap Frames)
    /\ KernelTable(Entry(v))' = x
    /\ \A e \in Entries : e # Entry(v) => KernelTable(e)' = KernelTable(e)
    /\ \/ KernelTable(Entry(v)) = x /\ x # Null
       \/ KernelTable(Entry(v)) = None /\ x \in Free \ {f}
       \/ KernelTable(Entry(v)) = None /\ x = Null /\ Free' = {}
    /\ KernelFrame(v)' = f
    /\ \A w \in Nat : Entry(w) \in Entries /\ w # v =>
          KernelFrame(w)' = KernelFrame(w)
    /\ \A y \in Tables : y # x => table'[y] = table[y]
    /\ \A t \in Tasks, e \in LowEntries : TaskTable(t, e) # x

(* vmm_map_page changes one page of the kernel: no other entry leads to the*)
(* table it writes, be it the kernel's or a task's.                        *)
LEMMA MapPageIs ==
    ASSUME AddressInv, NEW v \in Nat, Entry(v) \in Entries,
           NEW f \in Free, NEW user \in BOOLEAN, MapPage(v, f, user)
    PROVE  /\ \E x : MapsAt(v, f, x)
           /\ kernel_page_directory' \in [Entries -> DirectoryEntry]
           /\ table' \in [Tables -> [Slots -> PageEntry]]
           /\ pmm_bitmap' \subseteq Frames
<1> USE InvFacts
<1> DEFINE e == Entry(v)
           s == Slot(v)
           left == Free \ {f}
<1>1. PICK x : x = IF Present(kernel_page_directory[e])
                   THEN kernel_page_directory[e].frame
                   ELSE IF left = {} THEN Null ELSE First(left)
  OBVIOUS
<1>2. PICK old : old = IF Present(kernel_page_directory[e])
                       THEN table[x] ELSE [r \in Slots |-> Absent]
  OBVIOUS
<1>3. /\ pmm_bitmap' = pmm_bitmap \cup {f} \cup ({x} \cap Frames)
      /\ kernel_page_directory' =
            [kernel_page_directory EXCEPT
                ![e] = [frame |-> x, user |-> @.user \/ user]]
      /\ table' = [table EXCEPT
              ![x] = [old EXCEPT ![s] = [frame |-> f, user |-> user]]]
  BY <1>1, <1>2 DEF MapPage
<1>4. s \in Slots /\ e \in Entries
  BY Halves
<1> HIDE DEF e, s
<1>5. f \in Frames /\ f # Null /\ Null \in Frames
  BY Sizes, FreeIs DEF KernelTables, Free
<1>6. left # {} => First(left) \in left
  BY FreeIs, FirstIs
<1>7. Present(kernel_page_directory[e]) <=> KernelTable(e) # None
  BY DEF Present, KernelTable
<1>8. \/ KernelTable(e) = x /\ x # Null /\ KernelTable(e) # None
      \/ KernelTable(e) = None /\ x \in left
      \/ KernelTable(e) = None /\ x = Null /\ left = {}
  BY <1>1, <1>4, <1>6, <1>7 DEF KernelTables, KernelTable
<1>9. x \in Tables
  BY <1>4, <1>5, <1>8, FreeIs, Types, Sizes
<1>10. old \in [Slots -> PageEntry]
  BY <1>2, <1>9, Types DEF TypeOK
<1>11. kernel_page_directory' \in [Entries -> DirectoryEntry]
  <2>1. [frame |-> x, user |-> kernel_page_directory[e].user \/ user]
            \in DirectoryEntry
    BY <1>4, <1>9, Types DEF DirectoryEntry
  <2> QED BY <1>3, <1>4, <2>1 DEF TypeOK
<1>12. table' \in [Tables -> [Slots -> PageEntry]]
  <2>1. [frame |-> f, user |-> user] \in PageEntry
    BY <1>5 DEF PageEntry
  <2>2. [old EXCEPT ![s] = [frame |-> f, user |-> user]]
            \in [Slots -> PageEntry]
    BY <1>4, <1>10, <2>1
  <2> QED BY <1>3, <1>9, <2>2 DEF TypeOK
<1>13. KernelTable(e)' = x
       /\ \A g \in Entries : g # e => KernelTable(g)' = KernelTable(g)
  BY <1>3, <1>4 DEF KernelTable, TypeOK
<1>14. \A y \in Tables : y # x => table'[y] = table[y]
  BY <1>3 DEF TypeOK
<1>15. table'[x][s].frame = f
       /\ \A r \in Slots : r # s => table'[x][r] = old[r]
  BY <1>3, <1>4, <1>9, <1>10 DEF TypeOK
<1>16. x # None
  BY <1>9, Sizes
<1>17. KernelFrame(v)' = f
  BY <1>13, <1>15, <1>16 DEF KernelFrame, Lookup, Present, KernelTable, e, s
<1>18. ASSUME NEW w \in Nat, Entry(w) \in Entries, w # v
       PROVE  KernelFrame(w)' = KernelFrame(w)
  <2>1. Slot(w) \in Slots
    BY Halves
  <2>2. CASE Entry(w) = e
    <3>1. Slot(w) # s
      BY <1>18, <2>2, SamePage DEF e, s
    <3>2. KernelFrame(w)' = old[Slot(w)].frame
      BY <1>13, <1>15, <1>16, <2>1, <2>2, <3>1
         DEF KernelFrame, Lookup, Present, KernelTable
    <3>3. KernelFrame(w) = old[Slot(w)].frame
      BY <1>1, <1>2, <1>7, <2>1, <2>2
         DEF KernelFrame, Lookup, Present, KernelTable
    <3> QED BY <3>2, <3>3
  <2>3. CASE Entry(w) # e
    <3>1. KernelTable(Entry(w))' = KernelTable(Entry(w))
      BY <1>13, <1>18, <2>3
    <3>2. KernelTable(Entry(w)) # x
      <4>1. KernelTable(Entry(w)) # Null
        BY <1>18 DEF KernelTables, KernelTable
      <4>2. KernelTable(Entry(w)) \notin Free
        BY <1>18, Owners
      <4>3. KernelTable(e) = x => KernelTable(Entry(w)) # x
        BY <1>4, <1>16, <1>18, <2>3, <4>1, Owners
      <4> QED BY <1>8, <4>1, <4>2, <4>3
    <3>3. KernelTable(Entry(w)) # None =>
              table'[KernelTable(Entry(w))] = table[KernelTable(Entry(w))]
      BY <1>14, <1>18, <3>2, Types
    <3> QED BY <3>1, <3>3 DEF KernelFrame, Lookup, Present, KernelTable
  <2> QED BY <2>2, <2>3
<1>19. ASSUME NEW t \in Tasks, NEW g \in LowEntries
       PROVE  TaskTable(t, g) # x
  <2>1. TaskTable(t, g) \notin Free /\ TaskTable(t, g) # Null
    BY Owners, Sizes DEF Directories, TaskTable, None, Null
  <2>2. KernelTable(e) = x => TaskTable(t, g) # x
    BY <1>4, <1>16, Owners
  <2> QED BY <1>8, <2>1, <2>2
<1>20. left = {} => Free' = {}
  BY <1>3 DEF Free
<1>21. MapsAt(v, f, x)
  BY <1>3, <1>8, <1>9, <1>13, <1>14, <1>17, <1>18, <1>19, <1>20 DEF MapsAt, e
<1>22. pmm_bitmap' \subseteq Frames
  BY <1>3, <1>5 DEF TypeOK
<1> QED BY <1>11, <1>12, <1>21, <1>22

LowPages == 0..(FirstHigh * TableSize - 1)

(* Images lie in the lower part.                                           *)
LEMMA ImagesAreLow ==
    ImagePages \subseteq LowPages
BY Sizes DEF ImagePages, LowPages

(* The ready tasks follow from two variables.                              *)
LEMMA ReadyAre ==
    ASSUME UNCHANGED <<page_directory, state>>
    PROVE  Ready' = Ready
BY DEF Ready

(* A task's directory shows what it showed: its tables are not written.    *)
LEMMA TasksKeep ==
    ASSUME AddressInv, NEW t \in Tasks, directory'[t] = directory[t], NEW x,
           \A e \in LowEntries : TaskTable(t, e) # x,
           \A y \in Tables : y # x => table'[y] = table[y],
           NEW w \in LowPages
    PROVE  Lookup(directory[t], w)' = Lookup(directory[t], w)
<1>1. Entry(w) \in LowEntries
  BY LowEntry DEF LowPages, LowEntries
<1>2. TaskTable(t, Entry(w)) # x
  BY <1>1
<1>3. TaskTable(t, Entry(w)) \in Tables \cup {None}
  BY <1>1, InvFacts, Sizes DEF Directories, TaskTable
<1>4. TaskTable(t, Entry(w)) # None =>
          table'[TaskTable(t, Entry(w))] = table[TaskTable(t, Entry(w))]
  BY <1>2, <1>3
<1> QED BY <1>4 DEF Lookup, Present, TaskTable

(* A page mapped by the kernel does not show in the tasks' directories.    *)
LEMMA MapsPrivately ==
    ASSUME AddressInv, NEW v, NEW f, NEW x, MapsAt(v, f, x),
           UNCHANGED directory, NEW t \in Tasks, NEW w \in LowPages
    PROVE  Lookup(directory[t], w)' = Lookup(directory[t], w)
BY TasksKeep DEF MapsAt

(* The kernel's tables stay where tables may be.                           *)
LEMMA MapKeepsTables ==
    ASSUME AddressInv, NEW v \in Nat, Entry(v) \in Entries, NEW f \in Free,
           NEW x, MapsAt(v, f, x)
    PROVE  KernelTables'
<1> USE InvFacts
<1>1. Reserved \subseteq pmm_bitmap'
  BY DEF MapsAt, KernelTables
<1>2. ASSUME NEW e \in Entries
      PROVE  /\ e < IdentityTables => KernelTable(e)' = StaticTable(e)
             /\ e >= IdentityTables => KernelTable(e)' \in Frames \cup {None}
             /\ KernelTable(e)' = Null => Free' = {}
  <2>1. /\ e < IdentityTables => KernelTable(e) = StaticTable(e)
        /\ e >= IdentityTables => KernelTable(e) \in Frames \cup {None}
        /\ KernelTable(e) # Null
    BY DEF KernelTables, KernelTable
  <2>2. StaticTable(e) # None
    BY Sizes DEF Entries, StaticTable, None
  <2>3. Null \in Frames /\ Null \notin Free
    BY Sizes DEF KernelTables, Free
  <2>4. e \in Nat /\ IdentityTables \in Nat
    BY SizesAssumption DEF Entries
  <2>5. CASE e = Entry(v)
    <3>1. KernelTable(e)' = x
      BY <2>5 DEF MapsAt
    <3>2. \/ KernelTable(e) = x
          \/ KernelTable(e) = None /\ x \in Free \ {f}
          \/ KernelTable(e) = None /\ x = Null /\ Free' = {}
      BY <2>5 DEF MapsAt
    <3>3. x \in Free => x \in Frames
      BY FreeIs
    <3> QED BY <2>1, <2>2, <2>3, <2>4, <3>1, <3>2, <3>3
  <2>6. CASE e # Entry(v)
    <3>1. KernelTable(e)' = KernelTable(e)
      BY <2>6 DEF MapsAt
    <3> QED BY <2>1, <3>1
  <2> QED BY <2>5, <2>6
<1> QED BY <1>1, <1>2 DEF KernelTables, KernelTable

(* The page becomes one of the heap or one of an image; a frame that is    *)
(* lost to the kernel is a task's.                                         *)
MapsFor(kind, v) ==
    \/ /\ kind = "heap" /\ v \in HeapPages
       /\ Mapped' = Mapped \cup {v} /\ v \notin Mapped
    \/ /\ kind = "image" /\ v \in ImagePages
       /\ Mapped' = Mapped
       /\ \/ KernelFrame(v) = None
          \/ \E t \in Ready : TaskFrame(t, v) = KernelFrame(v)

(* The page and a table that was missing are the only new uses.            *)
LEMMA MapKeepsOwners ==
    ASSUME AddressInv, NEW v \in Nat, Entry(v) \in Entries, NEW f \in Free,
           NEW x, MapsAt(v, f, x), NEW kind, MapsFor(kind, v),
           UNCHANGED <<page_directory, directory, state>>
    PROVE  FramesHaveOneOwner' /\ Backed'
<1> USE InvFacts
<1> DEFINE e == Entry(v)
           page == <<kind, v, f>>
           fresh == KernelTable(e) = None /\ x # Null
           New == {page} \cup IF fresh THEN {<<"table", e, x>>} ELSE {}
<1>1. /\ pmm_bitmap' = pmm_bitmap \cup {f} \cup ({x} \cap Frames)
      /\ KernelTable(e)' = x
      /\ \A g \in Entries : g # e => KernelTable(g)' = KernelTable(g)
      /\ \/ KernelTable(e) = x /\ x # Null
         \/ KernelTable(e) = None /\ x \in Free \ {f}
         \/ KernelTable(e) = None /\ x = Null /\ Free' = {}
      /\ KernelFrame(v)' = f
      /\ \A w \in Nat : Entry(w) \in Entries /\ w # v =>
            KernelFrame(w)' = KernelFrame(w)
  BY DEF MapsAt
<1>2. fresh => x \in Free /\ x # f
  <2>1. x # None
    BY Sizes DEF MapsAt
  <2> QED BY <1>1, <2>1
<1>3. \A y \in Free : y \in Frames /\ y # Null /\ y # None
  BY FreeIs, Sizes DEF KernelTables, Free
<1>4. Ready' = Ready
  BY ReadyAre
<1>5. ASSUME NEW t \in Tasks, NEW w \in ImagePages
      PROVE  TaskFrame(t, w)' = TaskFrame(t, w)
  BY ImagesAreLow, MapsPrivately DEF TaskFrame
<1>6. \A t \in Tasks, g \in LowEntries : TaskTable(t, g)' = TaskTable(t, g)
  BY DEF TaskTable
<1>7. \A w \in ImagePages : w \in Nat /\ Entry(w) \in Entries
  BY ImageEntry
<1>8. \A w \in Mapped : w \in Nat /\ Entry(w) \in Entries
  BY HeapEntry DEF Mapped
<1>9. v \in HeapPages => v \notin ImagePages
  BY HeapEntry
<1>10. v \in ImagePages => v \notin Mapped
  BY HeapEntry DEF Mapped
<1>11. Ready \subseteq Tasks
  BY DEF Ready
<1> HIDE DEF e
<1>12. Taken(New)
  <2>1. x \in pmm_bitmap' \/ ~fresh
    BY <1>1, <1>2, <1>3
  <2>2. f \in pmm_bitmap'
    BY <1>1
  <2> QED BY <1>2, <2>1, <2>2 DEF Taken
<1>13. \A w \in Mapped : w # v /\ KernelFrame(w)' = KernelFrame(w)
  BY <1>1, <1>8, <1>10 DEF MapsFor
<1>14. Grows(New)
  <2>1. ASSUME NEW w \in Mapped'
        PROVE  \/ w \in Mapped /\ KernelFrame(w)' = KernelFrame(w)
               \/ <<"heap", w, KernelFrame(w)'>> \in New
    BY <1>1, <1>13 DEF MapsFor
  <2>2. ASSUME NEW w \in ImagePages
        PROVE  \/ KernelFrame(w)' = KernelFrame(w)
               \/ <<"image", w, KernelFrame(w)'>> \in New
    <3>1. CASE w # v
      BY <1>1, <1>7, <3>1
    <3>2. CASE w = v
      BY <1>1, <1>9, <3>2 DEF MapsFor
    <3> QED BY <3>1, <3>2
  <2>3. \A t \in Ready' : \A w \in ImagePages :
            t \in Ready /\ TaskFrame(t, w)' = TaskFrame(t, w)
    BY <1>4, <1>5, <1>11
  <2>4. ASSUME NEW g \in Entries
        PROVE  \/ KernelTable(g)' = KernelTable(g)
               \/ KernelTable(g)' = Null
               \/ <<"table", g, KernelTable(g)'>> \in New
    <3>1. CASE g # e
      BY <1>1, <3>1
    <3>2. CASE g = e
      BY <1>1, <3>2
    <3> QED BY <3>1, <3>2
  <2> HIDE DEF New
  <2> QED BY <1>6, <2>1, <2>2, <2>3, <2>4 DEF Grows
<1>15. Keeps
  <2>1. \A w \in Mapped : w \in Mapped'
    BY DEF MapsFor
  <2>2. ASSUME NEW w \in ImagePages
        PROVE  \/ KernelFrame(w)' = KernelFrame(w)
               \/ KernelFrame(w) = None
               \/ \E t \in Ready : TaskFrame(t, w) = KernelFrame(w)
    <3>1. CASE w # v
      BY <1>1, <1>7, <3>1
    <3>2. CASE w = v
      BY <1>9, <3>2 DEF MapsFor
    <3> QED BY <3>1, <3>2
  <2>3. \A g \in Entries :
            KernelTable(g) # None => KernelTable(g)' = KernelTable(g)
    BY <1>1
  <2> QED BY <1>4, <1>5, <1>6, <1>11, <1>13, <2>1, <2>2, <2>3 DEF Keeps
<1>16. FramesHaveOneOwner'
  <2>1. \A u \in InFrames' : u \in InFrames \/ u \in New
    BY <1>14, UsesGrow
  <2>2. Reserved \subseteq pmm_bitmap /\ pmm_bitmap \subseteq pmm_bitmap'
    BY <1>1 DEF KernelTables
  <2> HIDE DEF New
  <2> QED BY <1>12, <2>1, <2>2, OwnersGrow
<1>17. Backed'
  <2> DEFINE X == {f} \cup ({x} \cap Frames)
  <2>1. \E u \in InFrames' : u[3] = f
    <3>1. CASE kind = "heap"
      <4>1. HeapUse(<<"heap", v, f>>)'
        BY <1>1, <3>1 DEF MapsFor, HeapUse
      <4> QED BY <1>3, <4>1, UsesWillBe DEF Use
    <3>2. CASE kind = "image"
      <4>1. ImageUse(<<"image", v, f>>)'
        BY <1>1, <3>2 DEF MapsFor, ImageUse
      <4> QED BY <1>3, <4>1, UsesWillBe DEF Use
    <3> QED BY <3>1, <3>2 DEF MapsFor
  <2>2. x \in Frames => x \in pmm_bitmap \cup Reserved
                        \/ \E u \in InFrames' : u[3] = x
    <3>1. CASE KernelTable(e) = None /\ x \in Free \ {f}
      <4>1. TableUse(<<"table", e, x>>)'
        BY <1>1 DEF TableUse, e
      <4> QED BY <1>3, <3>1, <4>1, UsesWillBe DEF Use
    <3>2. CASE x = Null
      BY <3>2, Sizes
    <3>3. CASE KernelTable(e) = x
      BY <3>3, Owners DEF Free, e
    <3> QED BY <1>1, <3>1, <3>2, <3>3
  <2> DEFINE Y == {y \in X : \E u \in InFrames' : u[3] = y}
  <2>3. pmm_bitmap' \subseteq pmm_bitmap \cup Y
    BY <1>1, <2>1, <2>2 DEF KernelTables
  <2>4. \A y \in Y : \E u \in InFrames' : u[3] = y
    OBVIOUS
  <2> HIDE DEF Y
  <2> QED BY <1>15, <2>3, <2>4, BackedGrows
<1> QED BY <1>16, <1>17

-----------------------------------------------------------------------------
(* One lemma per action: it keeps the invariant, and what tasks see.       *)

TasksSeeTheSame ==
    \A t \in Ready : \A v \in LowPages :
        t \in Ready' => Lookup(directory[t], v)' = Lookup(directory[t], v)

(* heap_grow.                                                              *)
LEMMA GrowHeapKeeps ==
    ASSUME AddressInv, GrowHeap
    PROVE  AddressInv' /\ TasksSeeTheSame
<1> USE InvFacts
<1>a. PICK v : v = heap_current_end
  OBVIOUS
<1>b. PICK f : f = First(Free)
  OBVIOUS
<1>1. /\ pc \in {"idle", "stacks"} /\ v \in HeapPages
      /\ MapPage(v, f, FALSE) /\ heap_current_end' = v + 1
      /\ UNCHANGED <<page_directory, directory, cr3, content, state, code,
                     stack, command>>
      /\ Free # {}
  BY <1>a, <1>b DEF GrowHeap
<1>2. f \in Free
  BY <1>1, <1>b, FreeIs, FirstIs
<1>3. v \in Nat /\ Entry(v) \in Entries
  BY <1>1, HeapEntry
<1>4. /\ kernel_page_directory' \in [Entries -> DirectoryEntry]
      /\ table' \in [Tables -> [Slots -> PageEntry]]
      /\ pmm_bitmap' \subseteq Frames
  BY <1>1, <1>2, <1>3, MapPageIs
<1>5. PICK x : MapsAt(v, f, x)
  BY <1>1, <1>2, <1>3, MapPageIs
<1>6. TypeOK'
  <2>1. heap_current_end' - 1 \in HeapPages \cup {FirstHigh * TableSize - 1}
    BY <1>1, <1>3
  <2> QED BY <1>1, <1>4, <2>1 DEF TypeOK, command
<1>7. KernelTables'
  BY <1>2, <1>3, <1>5, MapKeepsTables
<1>8. Mapped' = Mapped \cup {v} /\ v \notin Mapped
  <2>1. \A w \in HeapPages : w \in Nat /\ (w < v + 1 <=> w < v \/ w = v)
    BY <1>3, HeapEntry
  <2>2. ~(v < v)
    BY <1>3
  <2> QED BY <1>1, <1>a, <2>1, <2>2 DEF Mapped
<1>9. FramesHaveOneOwner' /\ Backed'
  <2>1. MapsFor("heap", v)
    BY <1>1, <1>8 DEF MapsFor
  <2> QED BY <1>1, <1>2, <1>3, <1>5, <2>1, MapKeepsOwners
<1>10. Ready' = Ready
  BY <1>1, ReadyAre
<1>11. ASSUME NEW t \in Tasks, NEW w \in LowPages
       PROVE  Lookup(directory[t], w)' = Lookup(directory[t], w)
  BY <1>1, <1>5, MapsPrivately
<1>12. \A t \in Tasks, w \in ImagePages : TaskFrame(t, w)' = TaskFrame(t, w)
  BY <1>11, ImagesAreLow DEF TaskFrame
<1>13. \A w \in ImagePages : KernelFrame(w)' = KernelFrame(w)
  BY <1>1, <1>5, ImageEntry, HeapEntry DEF MapsAt
<1>14. Coming' = Coming
  BY <1>1 DEF Coming, command
<1>15. Directories'
  <2>1. /\ \A t \in Tasks, e \in LowEntries :
              directory[t][e].frame \in (Frames \ {Null}) \cup {None}
        /\ \A t \in Tasks : page_directory[t] = Null =>
              \A e \in Entries : directory[t][e] = Absent
        /\ \A t \in Tasks : state[t] # "ready" =>
              page_directory[t] = Null \/ t \in Coming
    BY DEF Directories
  <2> QED BY <1>1, <1>14, <2>1 DEF Directories
<1>16. Created'
  <2>1. Free # {} /\ pc' = pc /\ state' = state
        /\ page_directory' = page_directory
    BY <1>1 DEF command
  <2>2. ASSUME NEW t \in Coming
        PROVE  /\ state'[t] = "none" /\ page_directory'[t] # Null
               /\ \A w \in ImagePages :
                     TaskFrame(t, w)' = None
                     \/ TaskFrame(t, w)' = KernelFrame(w)'
    BY <1>12, <1>13, <2>1 DEF Created, Coming
  <2> QED BY <1>14, <2>1, <2>2 DEF Created
<1>17. Covered'
  <2>1. pc' = pc /\ image' = image /\ todo' = todo /\ Free # {}
    BY <1>1 DEF command
  <2>2. SUFFICES ASSUME NEW w \in ImagePages, KernelFrame(w)' # None
                 PROVE \/ w \in image \ todo
                       \/ \E t \in Ready' \cup Coming' :
                             TaskFrame(t, w)' = KernelFrame(w)'
    BY <2>1 DEF Covered
  <2>3. \/ w \in image \ todo
        \/ \E t \in Ready \cup Coming : TaskFrame(t, w) = KernelFrame(w)
    BY <1>13, <2>1, <2>2 DEF Covered
  <2>4. \A t \in Ready \cup Coming : TaskFrame(t, w)' = TaskFrame(t, w)
    BY <1>12 DEF Ready, Coming
  <2> QED BY <1>10, <1>13, <1>14, <2>3, <2>4
<1>18. TasksSeeTheSame
  BY <1>11 DEF TasksSeeTheSame, Ready
<1>19. Loading'
  BY <1>1 DEF Loading, command
<1> QED BY <1>6, <1>7, <1>9, <1>15, <1>16, <1>17, <1>18, <1>19 DEF AddressInv

(* The pages to load are counted.                                          *)
LEMMA ImagesAre ==
    ASSUME TypeOK
    PROVE  /\ image \subseteq ImagePages /\ todo \subseteq ImagePages
           /\ todo \in SUBSET Nat /\ IsFiniteSet(todo)
<1>1. image \subseteq ImagePages /\ todo \subseteq image
  BY ProgramsAssumption DEF TypeOK
<1>2. IsFiniteSet(ImagePages)
  BY Sizes, FS_Interval DEF ImagePages
<1>3. ImagePages \subseteq Nat
  BY ImageEntry
<1> QED BY <1>1, <1>2, <1>3, FS_Subset

(* elf_load_from_memory, one page: the frame the page had before is still  *)
(* mapped by a task.                                                       *)
LEMMA LoadPageKeeps ==
    ASSUME AddressInv, LoadPage
    PROVE  AddressInv' /\ TasksSeeTheSame
<1> USE InvFacts
<1>a. PICK v : v = First(todo)
  OBVIOUS
<1>b. PICK f : f = First(Free)
  OBVIOUS
<1>1. /\ pc = "load" /\ todo # {} /\ Free # {}
      /\ MapPage(v, f, TRUE) /\ todo' = todo \ {v}
      /\ content' = [content EXCEPT ![f] = {}]
      /\ segment' = segment \cup {v}
      /\ UNCHANGED <<page_directory, directory, heap_current_end, cr3, state,
                     code, stack, pc, image, new>>
  BY <1>a, <1>b DEF LoadPage
<1>2. f \in Free
  BY <1>1, <1>b, FreeIs, FirstIs
<1>3. v \in todo /\ v \in image /\ v \in ImagePages
  BY <1>1, <1>a, ImagesAre, FirstIs DEF TypeOK
<1>4. v \in Nat /\ Entry(v) \in Entries
  BY <1>3, ImageEntry
<1>5. /\ kernel_page_directory' \in [Entries -> DirectoryEntry]
      /\ table' \in [Tables -> [Slots -> PageEntry]]
      /\ pmm_bitmap' \subseteq Frames
  BY <1>1, <1>2, <1>4, MapPageIs
<1>6. PICK x : MapsAt(v, f, x)
  BY <1>1, <1>2, <1>4, MapPageIs
<1>7. TypeOK'
  <2>1. content' \in [Frames -> Programs \cup {{}}]
    BY <1>1 DEF TypeOK
  <2>2. segment' \subseteq image' \ todo'
    BY <1>1, <1>3 DEF TypeOK
  <2> QED BY <1>1, <1>5, <2>1, <2>2 DEF TypeOK
<1>8. KernelTables'
  BY <1>2, <1>4, <1>6, MapKeepsTables
<1>9. Coming' = {} /\ Coming = {}
  BY <1>1 DEF Coming
<1>10. \/ KernelFrame(v) = None
       \/ \E t \in Ready : TaskFrame(t, v) = KernelFrame(v)
  BY <1>1, <1>3, <1>9 DEF Covered
<1>11. FramesHaveOneOwner' /\ Backed'
  <2>1. MapsFor("image", v)
    BY <1>1, <1>3, <1>10 DEF MapsFor, Mapped
  <2> QED BY <1>1, <1>2, <1>4, <1>6, <2>1, MapKeepsOwners
<1>12. Ready' = Ready
  BY <1>1, ReadyAre
<1>13. ASSUME NEW t \in Tasks, NEW w \in LowPages
       PROVE  Lookup(directory[t], w)' = Lookup(directory[t], w)
  BY <1>1, <1>6, MapsPrivately
<1>14. \A t \in Tasks, w \in ImagePages : TaskFrame(t, w)' = TaskFrame(t, w)
  BY <1>13, ImagesAreLow DEF TaskFrame
<1>15. \A w \in ImagePages : w # v => KernelFrame(w)' = KernelFrame(w)
  BY <1>6, ImageEntry DEF MapsAt
<1>16. Directories'
  <2>1. /\ \A t \in Tasks, e \in LowEntries :
              directory[t][e].frame \in (Frames \ {Null}) \cup {None}
        /\ \A t \in Tasks : page_directory[t] = Null =>
              \A e \in Entries : directory[t][e] = Absent
        /\ \A t \in Tasks : state[t] # "ready" =>
              page_directory[t] = Null \/ t \in Coming
    BY DEF Directories
  <2> QED BY <1>1, <1>9, <2>1 DEF Directories
<1>17. Created'
  BY <1>1, <1>9 DEF Created
<1>18. Covered'
  <2>1. SUFFICES ASSUME NEW w \in ImagePages, KernelFrame(w)' # None
                 PROVE \/ w \in image \ todo'
                       \/ \E t \in Ready' : TaskFrame(t, w)' = KernelFrame(w)'
    BY <1>1 DEF Covered
  <2>2. CASE w = v
    BY <1>1, <1>3, <2>2
  <2>3. CASE w # v
    <3>1. w \in image \ todo
          \/ \E t \in Ready : TaskFrame(t, w) = KernelFrame(w)
      BY <1>1, <1>15, <1>9, <2>1, <2>3 DEF Covered
    <3>2. \A t \in Ready : TaskFrame(t, w)' = TaskFrame(t, w)
      BY <1>14 DEF Ready
    <3> QED BY <1>1, <1>12, <1>15, <2>3, <3>1, <3>2
  <2> QED BY <2>2, <2>3
<1>19. TasksSeeTheSame
  BY <1>13 DEF TasksSeeTheSame, Ready
<1>20. Loading'
  BY <1>1 DEF Loading
<1> QED BY <1>7, <1>8, <1>11, <1>16, <1>17, <1>18, <1>19, <1>20 DEF AddressInv

(* Steps that take no frame and map no page.                               *)
SameFrames ==
    /\ UNCHANGED <<pmm_bitmap, heap_current_end, page_directory, directory>>
    /\ \A e \in Entries : KernelTable(e)' = KernelTable(e)
    /\ \A v \in ImagePages \cup HeapPages : KernelFrame(v)' = KernelFrame(v)
    /\ \A t \in Tasks : \A v \in ImagePages :
          TaskFrame(t, v)' = TaskFrame(t, v)
    /\ Ready \subseteq Ready' /\ Ready' \subseteq Ready \cup Coming

(* They keep owners and tables.                                            *)
LEMMA SameFramesKeep ==
    ASSUME AddressInv, SameFrames
    PROVE  /\ FramesHaveOneOwner' /\ Backed' /\ KernelTables'
           /\ Free' = Free
<1> USE InvFacts
<1>1. Free' = Free
  BY DEF SameFrames, Free
<1>2. KernelTables'
  BY <1>1 DEF SameFrames, KernelTables, KernelTable
<1>3. Mapped' = Mapped /\ Mapped \subseteq HeapPages
  BY DEF SameFrames, Mapped
<1>4. Ready \subseteq Tasks /\ Coming \subseteq Tasks
  BY DEF Ready, Coming
<1>5. \A t \in Tasks : \A e \in LowEntries : TaskTable(t, e)' = TaskTable(t, e)
  BY DEF SameFrames, TaskTable
<1>6. Keeps
  BY <1>3, <1>4, <1>5 DEF SameFrames, Keeps
<1>7. Grows({})
  <2>1. ASSUME NEW t \in Ready', NEW v \in ImagePages
        PROVE  \/ TaskFrame(t, v)' = None
               \/ TaskFrame(t, v)' = KernelFrame(v)
               \/ t \in Ready /\ TaskFrame(t, v)' = TaskFrame(t, v)
    BY <1>4, <2>1 DEF SameFrames, Created
  <2>2. \A v \in Mapped' : v \in Mapped /\ KernelFrame(v)' = KernelFrame(v)
    BY <1>3 DEF SameFrames
  <2>3. \A v \in ImagePages : KernelFrame(v)' = KernelFrame(v)
    BY DEF SameFrames
  <2>4. \A t \in Tasks : page_directory'[t] = page_directory[t]
    BY DEF SameFrames
  <2>5. \A e \in Entries : KernelTable(e)' = KernelTable(e)
    BY DEF SameFrames
  <2> QED BY <1>5, <2>1, <2>2, <2>3, <2>4, <2>5 DEF Grows
<1>8. FramesHaveOneOwner'
  <2>1. \A u \in InFrames' : u \in InFrames \/ u \in {}
    BY <1>7, UsesGrow
  <2>2. Reserved \subseteq pmm_bitmap /\ pmm_bitmap \subseteq pmm_bitmap'
    BY DEF KernelTables, SameFrames
  <2>3. Taken({})
    BY DEF Taken
  <2> QED BY <2>1, <2>2, <2>3, OwnersGrow
<1>9. Backed'
  <2>1. PICK X : X = {}
    OBVIOUS
  <2>2. pmm_bitmap' \subseteq pmm_bitmap \cup X
    BY DEF SameFrames
  <2>3. \A f \in X : \E w \in InFrames' : w[3] = f
    BY <2>1
  <2> QED BY <1>6, <2>2, <2>3, BackedGrows
<1> QED BY <1>1, <1>2, <1>8, <1>9

(* Steps that leave the memory alone are among them.                       *)
LEMMA SameMemory ==
    ASSUME UNCHANGED <<pmm, vmm, heap_current_end>>, Ready' = Ready
    PROVE  /\ SameFrames
           /\ \A t \in Tasks : \A v \in LowPages :
                 Lookup(directory[t], v)' = Lookup(directory[t], v)
BY DEF SameFrames, KernelTable, KernelFrame, TaskFrame, Lookup, pmm, vmm

(* The steps of a command that only change its point, and of one that      *)
(* reaps a task without a directory.                                       *)
LEMMA MemoryKept ==
    ASSUME AddressInv, UNCHANGED <<pmm, vmm, heap_current_end>>,
           Ready' = Ready, Coming = {}, Coming' = {},
           \A t \in Tasks : state'[t] # "ready" =>
               state[t] # "ready" \/ page_directory[t] = Null,
           pc' # "stacks", TypeOK', Loading',
           Free = {} \/ (pc = "idle" /\ pc' = "idle")
                     \/ (pc = "idle" /\ todo' = image')
    PROVE  AddressInv' /\ TasksSeeTheSame
<1> USE InvFacts
<1>1. /\ SameFrames
      /\ \A t \in Tasks : \A v \in LowPages :
            Lookup(directory[t], v)' = Lookup(directory[t], v)
  BY SameMemory
<1>2. FramesHaveOneOwner' /\ Backed' /\ KernelTables' /\ Free' = Free
  BY <1>1, SameFramesKeep
<1>3. Directories'
  <2>1. directory' = directory /\ page_directory' = page_directory
    BY DEF vmm
  <2> QED BY <2>1 DEF Directories
<1>4. Created'
  BY DEF Created
<1>5. Covered'
  <2>1. SUFFICES ASSUME Free # {}, NEW v \in ImagePages, KernelFrame(v)' # None
                 PROVE  \E t \in Ready' \cup Coming' :
                            TaskFrame(t, v)' = KernelFrame(v)'
    BY <1>2 DEF Covered
  <2>2. pc = "idle"
    BY <2>1
  <2>3. KernelFrame(v)' = KernelFrame(v)
    BY <1>1 DEF SameFrames
  <2>4. PICK t \in Ready : TaskFrame(t, v) = KernelFrame(v)
    BY <2>1, <2>2, <2>3 DEF Covered, Loading
  <2>5. TaskFrame(t, v)' = TaskFrame(t, v)
    BY <1>1 DEF SameFrames, Ready
  <2> QED BY <2>3, <2>4, <2>5
<1>6. TasksSeeTheSame
  BY <1>1 DEF TasksSeeTheSame, Ready
<1> QED BY <1>2, <1>3, <1>4, <1>5, <1>6 DEF AddressInv

(* The load begins.                                                        *)
LEMMA LoadElfKeeps ==
    ASSUME AddressInv, NEW program \in Programs, LoadElf(program)
    PROVE  AddressInv' /\ TasksSeeTheSame
<1>1. /\ UNCHANGED <<pmm, vmm, heap_current_end, cr3, content, state, code,
                     stack, segment, new>>
      /\ pc = "idle" /\ pc' = "load" /\ image' = program /\ todo' = program
  BY DEF LoadElf
<1>2. Ready' = Ready
  BY <1>1 DEF Ready, vmm
<1>3. Coming = {} /\ Coming' = {}
  BY <1>1 DEF Coming
<1>4. TypeOK'
  <2>1. segment = {}
    BY <1>1, InvFacts DEF TypeOK, Loading
  <2> QED BY <1>1, <2>1, InvFacts DEF TypeOK, pmm, vmm
<1>5. Loading'
  BY <1>1 DEF Loading
<1> QED BY <1>1, <1>2, <1>3, <1>4, <1>5, MemoryKept

(* The load fails.                                                         *)
LEMMA LoadFailsKeeps ==
    ASSUME AddressInv, LoadFails
    PROVE  AddressInv' /\ TasksSeeTheSame
<1>1. /\ UNCHANGED <<pmm, vmm, heap_current_end, cr3, content, state, code,
                     stack, new>>
      /\ pc = "load" /\ pc' = "idle" /\ image' = {} /\ todo' = {}
      /\ segment' = {} /\ Free = {}
  BY DEF LoadFails
<1>2. Ready' = Ready
  BY <1>1 DEF Ready, vmm
<1>3. Coming = {} /\ Coming' = {}
  BY <1>1 DEF Coming
<1>4. TypeOK'
  BY <1>1, InvFacts DEF TypeOK, pmm, vmm
<1>5. Loading'
  BY <1>1 DEF Loading
<1> QED BY <1>1, <1>2, <1>3, <1>4, <1>5, MemoryKept

(* The reaper of timer_handler, of a task without a directory.             *)
LEMMA ReapKeeps ==
    ASSUME AddressInv, ~Reaping, NEW t \in Tasks, Reap(t)
    PROVE  AddressInv' /\ TasksSeeTheSame
<1> USE InvFacts
<1>1. /\ page_directory[t] = Null /\ pc = "idle" /\ state[t] = "ready"
      /\ state' = [state EXCEPT ![t] = "gone"]
      /\ pmm_bitmap' = pmm_bitmap
      /\ page_directory' = [page_directory EXCEPT ![t] = Null]
      /\ directory' = [directory EXCEPT ![t] = [e \in Entries |-> Absent]]
      /\ UNCHANGED <<kernel_page_directory, table, heap_current_end, cr3,
                     content, code, stack, command>>
  BY DEF Reap
<1>2. page_directory' = page_directory
  BY <1>1 DEF TypeOK
<1>3. directory[t] = [e \in Entries |-> Absent]
  BY <1>1 DEF TypeOK, Directories
<1>4. directory' = directory
  BY <1>1, <1>3 DEF TypeOK
<1>5. UNCHANGED <<pmm, vmm, heap_current_end>>
  BY <1>1, <1>2, <1>4 DEF pmm, vmm
<1>6. /\ state' \in [Tasks -> {"none", "ready", "gone"}]
      /\ state'[t] = "gone" /\ \A r \in Tasks : r # t => state'[r] = state[r]
  BY <1>1 DEF TypeOK
<1>7. Ready' = Ready
  BY <1>1, <1>2, <1>6 DEF Ready
<1>8. TypeOK'
  BY <1>1, <1>2, <1>4, <1>6 DEF TypeOK, command
<1>9. Coming = {} /\ Coming' = {} /\ pc' = "idle"
  BY <1>1 DEF Coming, command
<1>10. \A r \in Tasks : state'[r] # "ready" =>
           state[r] # "ready" \/ page_directory[r] = Null
  BY <1>1, <1>6
<1>11. Loading'
  BY <1>1, InvFacts DEF Loading, command
<1> QED BY <1>1, <1>5, <1>7, <1>8, <1>9, <1>10, <1>11, MemoryKept

(* The end of scheduler_create_task: pages are opened in the kernel's      *)
(* tables, and the task becomes ready.                                     *)
LEMMA MapStacksKeeps ==
    ASSUME AddressInv, NEW b \in HeapPages \cup {None},
           NEW pages \in SUBSET HeapPages, MapStacks(b, pages)
    PROVE  AddressInv' /\ TasksSeeTheSame
<1> USE InvFacts
<1>1. PICK opened : opened = {code[new], b} \ {None}
  OBVIOUS
<1> DEFINE Page(x, s) == {v \in opened :
                             /\ kernel_page_directory[Entry(v)].frame = x
                             /\ Slot(v) = s
                             /\ Present(table[x][s])}
           Opens(e) == \E v \in opened : Entry(v) = e
           IsOpened(x, s) == Page(x, s) # {}
<1>2. /\ pc = "stacks"
      /\ kernel_page_directory' = [e \in Entries |->
            [kernel_page_directory[e] EXCEPT !.user = @ \/ Opens(e)]]
      /\ table' = [x \in Tables |-> [s \in Slots |->
            [table[x][s] EXCEPT !.user = @ \/ IsOpened(x, s)]]]
      /\ stack' = [stack EXCEPT ![new] = pages]
      /\ state' = [state EXCEPT ![new] = "ready"]
      /\ cr3' = IF page_directory[new] = Null THEN cr3 ELSE None
      /\ pc' = "idle" /\ new' = None
      /\ UNCHANGED <<pmm, page_directory, directory, heap_current_end, content,
                     code, image, todo, segment>>
  BY <1>1 DEF MapStacks
<1>3. PICK n \in Coming : n = new
  BY <1>2 DEF Created, Coming
<1>4. n \in Tasks /\ Coming = {n} /\ Coming' = {}
  BY <1>2, <1>3 DEF Coming
<1>5. \A v \in opened : Entry(v) \in Entries
  <2>1. code[new] \in ImagePages \cup {Null, KernelCode}
    BY <1>3, <1>4 DEF TypeOK
  <2>2. Null \in LowPages /\ KernelCode \in LowPages
    BY Sizes DEF LowPages, Null, KernelCode
  <2> QED BY <1>1, <2>1, <2>2, ImageEntry, LowEntry, HeapEntry DEF LowPages
<1>6. /\ \A e : Opens(e) \in BOOLEAN
      /\ \A x, s : IsOpened(x, s) \in BOOLEAN
  OBVIOUS
<1>7. \A x, s : IsOpened(x, s) => \E e \in Entries : KernelTable(e) = x
  BY <1>5 DEF KernelTable
<1> HIDE DEF Opens, IsOpened
<1>8. kernel_page_directory' \in [Entries -> DirectoryEntry]
  <2>1. ASSUME NEW e \in Entries
        PROVE  [kernel_page_directory[e] EXCEPT !.user = @ \/ Opens(e)]
                   \in DirectoryEntry
    <3>1. kernel_page_directory[e] \in DirectoryEntry
      BY DEF TypeOK
    <3>2. Opens(e) \in BOOLEAN
      BY <1>6
    <3> QED BY <3>1, <3>2 DEF DirectoryEntry
  <2> QED BY <1>2, <2>1
<1>9. table' \in [Tables -> [Slots -> PageEntry]]
  <2>1. ASSUME NEW x \in Tables, NEW s \in Slots
        PROVE  [table[x][s] EXCEPT !.user = @ \/ IsOpened(x, s)] \in PageEntry
    <3>1. table[x][s] \in PageEntry
      BY Types
    <3>2. IsOpened(x, s) \in BOOLEAN
      BY <1>6
    <3> QED BY <3>1, <3>2 DEF PageEntry
  <2> QED BY <1>2, <2>1
<1>10. \A e \in Entries : KernelTable(e)' = KernelTable(e)
  <2>1. ASSUME NEW e \in Entries
        PROVE  kernel_page_directory'[e].frame = kernel_page_directory[e].frame
    <3>1. kernel_page_directory'[e] =
              [kernel_page_directory[e] EXCEPT !.user = @ \/ Opens(e)]
      BY <1>2
    <3>2. kernel_page_directory[e] \in DirectoryEntry
      BY DEF TypeOK
    <3> QED BY <3>1, <3>2 DEF DirectoryEntry
  <2> QED BY <2>1 DEF KernelTable
<1>11. ASSUME NEW x \in Tables, NEW s \in Slots
       PROVE  /\ table'[x][s].frame = table[x][s].frame
              /\ ~IsOpened(x, s) => table'[x][s] = table[x][s]
  <2>1. table[x][s] \in PageEntry
    BY Types
  <2>2. table'[x][s] = [table[x][s] EXCEPT !.user = @ \/ IsOpened(x, s)]
    BY <1>2
  <2> QED BY <2>1, <2>2 DEF PageEntry
<1>12. ASSUME NEW v \in ImagePages \cup HeapPages
       PROVE  KernelFrame(v)' = KernelFrame(v)
  <2>1. Entry(v) \in Entries /\ Slot(v) \in Slots
    BY ImageEntry, HeapEntry
  <2>2. KernelTable(Entry(v))' = KernelTable(Entry(v))
    BY <1>10, <2>1
  <2>3. KernelTable(Entry(v)) \in Tables =>
            table'[KernelTable(Entry(v))][Slot(v)].frame
                = table[KernelTable(Entry(v))][Slot(v)].frame
    BY <1>11, <2>1
  <2>4. KernelTable(Entry(v)) \in Tables \cup {None}
    BY <2>1, Types
  <2> QED BY <2>2, <2>3, <2>4 DEF KernelFrame, Lookup, Present, KernelTable
<1>13. ASSUME NEW t \in Tasks, NEW w \in LowPages
       PROVE  Lookup(directory[t], w)' = Lookup(directory[t], w)
  <2>1. Entry(w) \in LowEntries /\ Slot(w) \in Slots
    BY LowEntry DEF LowPages, LowEntries
  <2>2. PICK y : y = TaskTable(t, Entry(w))
    OBVIOUS
  <2>3. y \in Frames \cup {None}
    BY <2>1, <2>2 DEF Directories, TaskTable
  <2>4. y # None => table'[y][Slot(w)] = table[y][Slot(w)]
    <3>1. SUFFICES ASSUME y # None
                   PROVE  ~IsOpened(y, Slot(w))
      BY <1>11, <2>1, <2>3, Sizes
    <3>2. \A e \in Entries : KernelTable(e) # y
      BY <2>1, <2>2, <3>1, Owners
    <3> QED BY <1>7, <3>2
  <2>5. directory' = directory
    BY <1>2
  <2> QED BY <2>2, <2>4, <2>5 DEF Lookup, Present, TaskTable
<1>14. \A t \in Tasks : \A v \in ImagePages :
           TaskFrame(t, v)' = TaskFrame(t, v)
  BY <1>13, ImagesAreLow DEF TaskFrame
<1>15. /\ state' \in [Tasks -> {"none", "ready", "gone"}]
       /\ state'[n] = "ready" /\ state[n] = "none"
       /\ \A t \in Tasks : t # n => state'[t] = state[t]
  BY <1>2, <1>3, <1>4 DEF TypeOK, Created
<1>16. TypeOK'
  <2>1. stack' \in [Tasks -> SUBSET HeapPages]
    BY <1>2 DEF TypeOK
  <2>2. cr3' \in Tasks \cup {None}
    BY <1>2 DEF TypeOK
  <2> QED BY <1>2, <1>8, <1>9, <1>15, <2>1, <2>2 DEF TypeOK, pmm
<1>17. Ready' = Ready \cup {t \in Coming : page_directory[t] # Null}
  BY <1>2, <1>4, <1>15 DEF Ready
<1>18. SameFrames
  BY <1>2, <1>10, <1>12, <1>14, <1>17 DEF SameFrames, pmm
<1>19. FramesHaveOneOwner' /\ Backed' /\ KernelTables' /\ Free' = Free
  BY <1>18, SameFramesKeep
<1>20. Directories'
  <2>1. /\ \A t \in Tasks, e \in LowEntries :
              directory[t][e].frame \in (Frames \ {Null}) \cup {None}
        /\ \A t \in Tasks : page_directory[t] = Null =>
              \A e \in Entries : directory[t][e] = Absent
        /\ \A t \in Tasks : state[t] # "ready" =>
              page_directory[t] = Null \/ t \in Coming
    BY DEF Directories
  <2>2. \A t \in Tasks : state'[t] # "ready" => page_directory[t] = Null
    BY <1>4, <1>15, <2>1
  <2> QED BY <1>2, <2>1, <2>2 DEF Directories
<1>21. Created'
  BY <1>2, <1>4 DEF Created
<1>22. Covered'
  <2>1. SUFFICES ASSUME Free # {}, NEW v \in ImagePages, KernelFrame(v)' # None
                 PROVE  \E t \in Ready' \cup Coming' :
                            TaskFrame(t, v)' = KernelFrame(v)'
    BY <1>19 DEF Covered
  <2>2. KernelFrame(v)' = KernelFrame(v)
    BY <1>12
  <2>3. PICK t \in Ready \cup Coming : TaskFrame(t, v) = KernelFrame(v)
    BY <1>2, <2>1, <2>2 DEF Covered, Loading
  <2>4. t \in Tasks /\ t \in Ready'
    BY <1>4, <1>17, <2>1, <2>3 DEF Ready, Created
  <2> QED BY <1>14, <2>2, <2>3, <2>4
<1>23. TasksSeeTheSame
  BY <1>13 DEF TasksSeeTheSame, Ready
<1>24. Loading'
  BY <1>2 DEF Loading
<1> QED BY <1>16, <1>19, <1>20, <1>21, <1>22, <1>23, <1>24 DEF AddressInv

(* The same for any stack.                                                 *)
LEMMA TakeStacksKeeps ==
    ASSUME AddressInv, TakeStacks
    PROVE  AddressInv' /\ TasksSeeTheSame
<1>1. Mapped \subseteq HeapPages
  BY DEF Mapped
<1>2. PICK b \in HeapPages \cup {None} :
          \E pages \in SUBSET HeapPages : MapStacks(b, pages)
  <2>1. CASE \E b \in Mapped : MapStacks(b, {b})
    BY <1>1, <2>1
  <2>2. CASE \E b \in Mapped : b + 1 \in Mapped /\ MapStacks(b, {b, b + 1})
    BY <1>1, <2>2
  <2>3. CASE MapStacks(None, {})
    BY <2>3
  <2> QED BY <2>1, <2>2, <2>3 DEF TakeStacks
<1> QED BY <1>2, MapStacksKeeps

-----------------------------------------------------------------------------
(* vmm_create_user_page_dir.                                               *)

Left == Free \ {First(Free)}
Rank(e) == Cardinality(Under(LowTables, e))
Copied == {e \in LowTables : Rank(e) < Cardinality(Left)}
Copy(e) == Nth(Left, Rank(e))

(* The tables that are copied are counted.                                 *)
LEMMA LowTablesAre ==
    /\ LowTables \in SUBSET Nat /\ IsFiniteSet(LowTables)
    /\ LowTables \subseteq LowEntries /\ LowEntries \subseteq Entries
    /\ \A e : Rank(e) \in Nat
<1>1. LowEntries \subseteq Entries /\ LowEntries \subseteq Nat
  BY SizesAssumption DEF LowEntries, Entries
<1>2. LowTables \subseteq LowEntries
  BY DEF LowTables, LowEntries
<1>3. IsFiniteSet(LowEntries)
  BY SizesAssumption, FS_Interval DEF LowEntries
<1>4. IsFiniteSet(LowTables)
  BY <1>2, <1>3, FS_Subset
<1> QED BY <1>1, <1>2, <1>4, UnderFinite DEF Rank

(* The copies are different frames, none of them the directory's; if some  *)
(* table is not copied they are all that were left.                        *)
LEMMA CopiesAre ==
    /\ \A e \in Copied : Copy(e) \in Left
    /\ \A e1, e2 \in Copied : Copy(e1) = Copy(e2) => e1 = e2
    /\ Copied # LowTables => \A f \in Left : \E e \in Copied : Copy(e) = f
<1>1. Left \in SUBSET Nat /\ IsFiniteSet(Left) /\ Cardinality(Left) \in Nat
  BY FreeIs, FS_CardinalityType DEF Left
<1>2. LowTables \in SUBSET Nat /\ IsFiniteSet(LowTables)
      /\ \A e : Rank(e) \in Nat
  BY LowTablesAre
<1>3. ASSUME NEW e \in Copied
      PROVE  Copy(e) \in Left /\ Cardinality(Under(Left, Copy(e))) = Rank(e)
  BY <1>1, <1>2, NthIs DEF Copied, Copy
<1>4. ASSUME NEW e1 \in Copied, NEW e2 \in Copied, Copy(e1) = Copy(e2)
      PROVE  e1 = e2
  <2>1. Rank(e1) = Rank(e2)
    BY <1>3, <1>4
  <2> QED BY <1>2, <2>1, RankUnique DEF Copied, Rank
<1>5. ASSUME Copied # LowTables, NEW f \in Left
      PROVE  \E e \in Copied : Copy(e) = f
  <2>1. PICK g \in LowTables : ~(Rank(g) < Cardinality(Left))
    BY <1>5 DEF Copied
  <2>2. PICK k : k = Cardinality(Under(Left, f))
    OBVIOUS
  <2>3. k \in Nat /\ k < Cardinality(Left)
    BY <1>1, <2>2, UnderFinite, RankSmall
  <2>4. Rank(g) < Cardinality(LowTables)
    BY <1>2, RankSmall DEF Rank
  <2>5. k < Cardinality(LowTables)
    BY <1>1, <1>2, <2>1, <2>3, <2>4, FS_CardinalityType
  <2>6. PICK e \in LowTables : Rank(e) = k
    BY <1>2, <2>3, <2>5, RankExists DEF Rank
  <2>7. e \in Copied
    BY <2>3, <2>6 DEF Copied
  <2>8. Copy(e) \in Left /\ Cardinality(Under(Left, Copy(e))) = k
    BY <1>3, <2>6, <2>7
  <2> QED BY <1>1, <2>2, <2>7, <2>8, RankUnique
<1> QED BY <1>3, <1>4, <1>5

(* What it does when there is a frame for the directory.                   *)
MakesDirectory(t) ==
    /\ First(Free) \in Free
    /\ pmm_bitmap' =
          pmm_bitmap \cup {First(Free)} \cup {Copy(e) : e \in Copied}
    /\ kernel_page_directory' = kernel_page_directory
    /\ \A x \in Tables : x \notin Free => table'[x] = table[x]
    /\ \A e \in Copied : table'[Copy(e)] = table[KernelTable(e)]
    /\ page_directory'[t] = First(Free)
    /\ \A r \in Tasks : r # t => page_directory'[r] = page_directory[r]
    /\ \A e \in LowEntries : TaskTable(t, e)' =
          IF e \in Copied THEN Copy(e) ELSE None
    /\ \A r \in Tasks : r # t => directory'[r] = directory[r]

(* vmm_create_user_page_dir does this.                                     *)
LEMMA MakeDirectoryIs ==
    ASSUME AddressInv, NEW t \in Tasks, Free # {}, MakeDirectory(t)
    PROVE  /\ MakesDirectory(t)
           /\ table' \in [Tables -> [Slots -> PageEntry]]
           /\ page_directory' \in [Tasks -> Frames]
           /\ directory' \in [Tasks -> [Entries -> DirectoryEntry]]
           /\ pmm_bitmap' \subseteq Frames
<1> USE InvFacts
<1> DEFINE d == First(Free)
           source(x) == CHOOSE e \in Copied : x = Copy(e)
<1>1. /\ pmm_bitmap' = pmm_bitmap \cup {d} \cup {Copy(e) : e \in Copied}
      /\ table' = [x \in Tables |->
             IF \E e \in Copied : x = Copy(e)
             THEN table[kernel_page_directory[source(x)].frame]
             ELSE table[x]]
      /\ page_directory' = [page_directory EXCEPT ![t] = d]
      /\ directory' = [directory EXCEPT ![t] =
             [e \in Entries |->
                 CASE e >= FirstHigh -> kernel_page_directory[e]
                   [] e \in Copied ->
                         [kernel_page_directory[e] EXCEPT !.frame = Copy(e)]
                   [] OTHER -> Absent]]
      /\ kernel_page_directory' = kernel_page_directory
  BY DEF MakeDirectory, Left, Rank, Copied, Copy, Under
<1>2. d \in Free /\ d \in Frames
  BY FreeIs, FirstIs
<1> HIDE DEF d
<1>3. Left \subseteq Free /\ Free \subseteq Frames /\ Frames \subseteq Tables
  BY FreeIs, Sizes DEF Left
<1>4. Copied \subseteq LowTables /\ LowTables \subseteq LowEntries
      /\ LowEntries \subseteq Entries
  BY LowTablesAre DEF Copied
<1>5. ASSUME NEW e \in LowTables
      PROVE  KernelTable(e) \in Tables
  BY <1>4, <1>5, Types DEF LowTables, Present, KernelTable
<1>6. ASSUME NEW x \in Tables, x \notin Free
      PROVE  table'[x] = table[x]
  BY <1>1, <1>3, <1>6, CopiesAre
<1>7. ASSUME NEW e \in Copied
      PROVE  table'[Copy(e)] = table[KernelTable(e)]
  <2>1. Copy(e) \in Tables
    BY <1>3, CopiesAre
  <2>2. source(Copy(e)) = e
    BY CopiesAre
  <2>3. \E g \in Copied : Copy(e) = Copy(g)
    OBVIOUS
  <2> HIDE DEF source
  <2> QED BY <1>1, <2>1, <2>2, <2>3 DEF KernelTable
<1>8. table' \in [Tables -> [Slots -> PageEntry]]
  <2>1. ASSUME NEW x \in Tables
        PROVE  table'[x] \in [Slots -> PageEntry]
    <3>1. CASE \E e \in Copied : x = Copy(e)
      BY <1>4, <1>5, <1>7, <3>1 DEF TypeOK
    <3>2. CASE ~\E e \in Copied : x = Copy(e)
      BY <1>1, <3>2 DEF TypeOK
    <3> QED BY <3>1, <3>2
  <2> HIDE DEF source
  <2> QED BY <1>1, <2>1
<1>9. PICK dir : dir = directory'[t]
  OBVIOUS
<1>10. \A e \in Entries : dir[e] =
           CASE e >= FirstHigh -> kernel_page_directory[e]
             [] e \in Copied ->
                   [kernel_page_directory[e] EXCEPT !.frame = Copy(e)]
             [] OTHER -> Absent
  BY <1>1, <1>9 DEF TypeOK
<1>11. \A e \in Copied : ~(e >= FirstHigh)
  BY <1>4, SizesAssumption DEF LowEntries
<1>12. \A e \in Entries : e >= FirstHigh => dir[e] = kernel_page_directory[e]
  BY <1>10, <1>11
<1>13. \A e \in Entries : ~(e >= FirstHigh) /\ e \in Copied =>
           dir[e] = [kernel_page_directory[e] EXCEPT !.frame = Copy(e)]
  BY <1>10
<1>14. \A e \in Entries :
           ~(e >= FirstHigh) /\ e \notin Copied => dir[e] = Absent
  BY <1>10
<1>15. Absent \in DirectoryEntry
  BY DEF Absent, DirectoryEntry
<1>16. ASSUME NEW e \in Copied
       PROVE  /\ [kernel_page_directory[e] EXCEPT !.frame = Copy(e)]
                     \in DirectoryEntry
              /\ [kernel_page_directory[e] EXCEPT !.frame = Copy(e)].frame
                     = Copy(e)
  <2>1. kernel_page_directory[e] \in DirectoryEntry
    BY <1>4 DEF TypeOK
  <2>2. Copy(e) \in Tables
    BY <1>3, CopiesAre
  <2> QED BY <2>1, <2>2 DEF DirectoryEntry
<1>17. \A e \in Entries : dir[e] \in DirectoryEntry
  BY <1>12, <1>13, <1>14, <1>15, <1>16 DEF TypeOK
<1>18. directory' \in [Tasks -> [Entries -> DirectoryEntry]]
  <2>1. DOMAIN directory' = Tasks /\ DOMAIN dir = Entries
    BY <1>1, <1>9 DEF TypeOK
  <2>2. dir = [e \in Entries |-> dir[e]]
    BY <1>1, <1>9 DEF TypeOK
  <2>3. dir \in [Entries -> DirectoryEntry]
    BY <1>17, <2>2
  <2>4. directory' = [directory EXCEPT ![t] = dir]
    BY <1>1, <1>9 DEF TypeOK
  <2> QED BY <2>3, <2>4 DEF TypeOK
<1>19. ASSUME NEW e \in LowEntries
       PROVE  TaskTable(t, e)' = IF e \in Copied THEN Copy(e) ELSE None
  <2>1. e \in Entries /\ ~(e >= FirstHigh)
    BY <1>4, SizesAssumption DEF LowEntries
  <2>2. TaskTable(t, e)' = dir[e].frame
    BY <1>9 DEF TaskTable
  <2>3. CASE e \in Copied
    BY <1>13, <1>16, <2>1, <2>2, <2>3
  <2>4. CASE e \notin Copied
    <3>1. dir[e] = Absent
      BY <1>14, <2>1, <2>4
    <3> QED BY <2>2, <2>4, <3>1 DEF Absent
  <2> QED BY <2>3, <2>4
<1>20. page_directory' \in [Tasks -> Frames] /\ page_directory'[t] = d
       /\ \A r \in Tasks : r # t => page_directory'[r] = page_directory[r]
  BY <1>1, <1>2 DEF TypeOK
<1>21. \A r \in Tasks : r # t => directory'[r] = directory[r]
  BY <1>1 DEF TypeOK
<1>22. pmm_bitmap' \subseteq Frames
  BY <1>1, <1>2, <1>3, CopiesAre DEF TypeOK
<1>23. MakesDirectory(t)
  BY <1>1, <1>2, <1>6, <1>7, <1>19, <1>20, <1>21 DEF MakesDirectory, d
<1> QED BY <1>8, <1>18, <1>20, <1>22, <1>23

(* With a directory: its frame and the copies are the task's.              *)
LEMMA DirectoryKeeps ==
    ASSUME AddressInv, NEW t \in Tasks, state[t] = "none", pc # "stacks",
           MakesDirectory(t), TypeOK', Loading', pc' = "stacks", new' = t,
           UNCHANGED <<heap_current_end, state>>
    PROVE  AddressInv' /\ TasksSeeTheSame
<1> USE InvFacts
<1>1. PICK d : d = First(Free)
  OBVIOUS
<1> DEFINE New == {<<"directory", t, d>>}
                      \cup {<<"copy", <<t, e>>, Copy(e)>> : e \in Copied}
<1>2. /\ d \in Free
      /\ pmm_bitmap' = pmm_bitmap \cup {d} \cup {Copy(e) : e \in Copied}
      /\ kernel_page_directory' = kernel_page_directory
      /\ \A x \in Tables : x \notin Free => table'[x] = table[x]
      /\ \A e \in Copied : table'[Copy(e)] = table[KernelTable(e)]
      /\ page_directory'[t] = d
      /\ \A r \in Tasks : r # t => page_directory'[r] = page_directory[r]
      /\ \A e \in LowEntries : TaskTable(t, e)' =
            IF e \in Copied THEN Copy(e) ELSE None
      /\ \A r \in Tasks : r # t => directory'[r] = directory[r]
  BY <1>1 DEF MakesDirectory
<1>3. /\ \A e \in Copied : Copy(e) \in Free /\ Copy(e) # d
      /\ \A e1, e2 \in Copied : Copy(e1) = Copy(e2) => e1 = e2
      /\ Copied # LowTables =>
            \A f \in Free : f = d \/ \E e \in Copied : Copy(e) = f
  BY <1>1, CopiesAre DEF Left
<1>4. \A f \in Free : f \in Frames /\ f # Null /\ f # None
  BY FreeIs, Sizes DEF KernelTables, Free
<1>5. Copied \subseteq LowTables /\ LowTables \subseteq LowEntries
      /\ LowEntries \subseteq Entries
  BY LowTablesAre DEF Copied
<1>6. Coming = {} /\ Coming' = {t} /\ t \notin Ready
  BY DEF Coming, Ready
<1>7. page_directory[t] = Null /\ \A e \in Entries : directory[t][e] = Absent
  BY <1>6 DEF Directories
<1>8. Ready' = Ready /\ Ready \subseteq Tasks
  <2>1. \A r \in Tasks : r \in Ready' <=> r \in Ready
    BY <1>2, <1>7 DEF Ready
  <2> QED BY <2>1 DEF Ready
<1>9. ASSUME NEW v \in Nat, Entry(v) \in Entries
      PROVE  KernelFrame(v)' = KernelFrame(v)
  <2>1. KernelTable(Entry(v)) \notin Free
        /\ KernelTable(Entry(v)) \in Tables \cup {None}
    BY <1>9, Owners, Types
  <2>2. KernelTable(Entry(v)) # None =>
            table'[KernelTable(Entry(v))] = table[KernelTable(Entry(v))]
    BY <1>2, <2>1
  <2> QED BY <1>2, <2>2 DEF KernelFrame, Lookup, Present, KernelTable
<1>10. ASSUME NEW r \in Tasks, r # t, NEW w \in LowPages
      PROVE  Lookup(directory[r], w)' = Lookup(directory[r], w)
  <2>1. Entry(w) \in LowEntries
    BY LowEntry DEF LowPages, LowEntries
  <2>2. PICK y : y = TaskTable(r, Entry(w))
    OBVIOUS
  <2>3. y \in Frames \cup {None} /\ y \notin Free
    BY <2>1, <2>2, Owners DEF Directories, TaskTable
  <2>4. y # None => table'[y] = table[y]
    BY <1>2, <2>3, Sizes
  <2>5. directory'[r] = directory[r]
    BY <1>2, <1>10
  <2> QED BY <2>2, <2>4, <2>5 DEF Lookup, Present, TaskTable
<1>11. \A r \in Tasks : r # t => \A w \in ImagePages :
           TaskFrame(r, w)' = TaskFrame(r, w)
  BY <1>10, ImagesAreLow DEF TaskFrame
<1>12. ASSUME NEW w \in ImagePages
       PROVE  /\ Entry(w) \in Copied => TaskFrame(t, w)' = KernelFrame(w)
              /\ Entry(w) \notin Copied => TaskFrame(t, w)' = None
  <2>1. Entry(w) \in LowEntries
    BY ImageEntry DEF LowEntries
  <2>2. PICK y : y = TaskTable(t, Entry(w))'
    OBVIOUS
  <2>3. y = IF Entry(w) \in Copied THEN Copy(Entry(w)) ELSE None
    BY <1>2, <2>1, <2>2
  <2>4. TaskFrame(t, w)' = IF y # None THEN table'[y][Slot(w)].frame ELSE None
    BY <2>2 DEF TaskFrame, Lookup, Present, TaskTable, Absent
  <2>5. Entry(w) \in Copied =>
            KernelFrame(w) = table[KernelTable(Entry(w))][Slot(w)].frame
    BY <1>5 DEF KernelFrame, Lookup, KernelTable, LowTables
  <2>6. CASE Entry(w) \in Copied
    BY <1>2, <1>3, <1>4, <2>3, <2>4, <2>5, <2>6
  <2>7. CASE Entry(w) \notin Copied
    BY <2>3, <2>4, <2>7
  <2> QED BY <2>6, <2>7
<1>13. Free' # {} => Copied = LowTables
  <2>1. SUFFICES ASSUME Copied # LowTables PROVE Free' = {}
    OBVIOUS
  <2>2. Free \subseteq pmm_bitmap'
    BY <1>2, <1>3, <2>1
  <2> QED BY <2>2, <1>2 DEF Free
<1>14. \A w \in ImagePages : w \in Nat /\ Entry(w) \in Entries
  BY ImageEntry
<1>15. \A w \in Mapped : w \in Nat /\ Entry(w) \in Entries
  BY HeapEntry DEF Mapped
<1>16. Mapped' = Mapped
  BY DEF Mapped
<1>17. \A e \in Entries : KernelTable(e)' = KernelTable(e)
  BY <1>2 DEF KernelTable
<1>18. \A r \in Tasks : r # t => \A e \in LowEntries :
           TaskTable(r, e)' = TaskTable(r, e)
  BY <1>2 DEF TaskTable
<1>19. Taken(New)
  <2>1. \A e \in Copied : Copy(e) \in pmm_bitmap'
    BY <1>2
  <2>2. d \in pmm_bitmap'
    BY <1>2
  <2>3. ASSUME NEW u1 \in New, NEW u2 \in New, u1[3] = u2[3]
        PROVE  u1 = u2
    BY <1>3, <2>3
  <2> QED BY <1>2, <1>3, <2>1, <2>2, <2>3 DEF Taken
<1>20. Grows(New)
  <2>1. \A w \in Mapped' : w \in Mapped /\ KernelFrame(w)' = KernelFrame(w)
    BY <1>9, <1>15, <1>16
  <2>2. \A w \in ImagePages : KernelFrame(w)' = KernelFrame(w)
    BY <1>9, <1>14
  <2>3. \A r \in Ready' : \A w \in ImagePages :
            r \in Ready /\ TaskFrame(r, w)' = TaskFrame(r, w)
    BY <1>6, <1>8, <1>11
  <2>4. ASSUME NEW r \in Tasks, NEW e \in LowEntries
        PROVE  \/ TaskTable(r, e)' = TaskTable(r, e)
               \/ TaskTable(r, e)' = None
               \/ <<"copy", <<r, e>>, TaskTable(r, e)'>> \in New
    <3>1. CASE r # t
      BY <1>18, <3>1
    <3>2. CASE r = t
      BY <1>2, <3>2
    <3> QED BY <3>1, <3>2
  <2>5. \A r \in Tasks : \/ page_directory'[r] = page_directory[r]
                         \/ <<"directory", r, page_directory'[r]>> \in New
    BY <1>2
  <2> HIDE DEF New
  <2> QED BY <1>17, <2>1, <2>2, <2>3, <2>4, <2>5 DEF Grows
<1>21. Keeps
  <2>1. \A w \in Mapped : w \in Mapped' /\ KernelFrame(w)' = KernelFrame(w)
    BY <1>9, <1>15, <1>16
  <2>2. \A w \in ImagePages : KernelFrame(w)' = KernelFrame(w)
    BY <1>9, <1>14
  <2>3. \A r \in Ready : r \in Ready' /\ \A w \in ImagePages :
            TaskFrame(r, w)' = TaskFrame(r, w)
    BY <1>6, <1>8, <1>11
  <2>4. ASSUME NEW r \in Tasks, NEW e \in LowEntries, TaskTable(r, e) # None
        PROVE  TaskTable(r, e)' = TaskTable(r, e)
    <3>1. r # t
      BY <1>5, <1>7, <2>4 DEF TaskTable, Absent
    <3> QED BY <1>18, <3>1
  <2>5. \A r \in Tasks :
            page_directory[r] # Null => page_directory'[r] = page_directory[r]
    BY <1>2, <1>7
  <2> QED BY <1>17, <2>1, <2>2, <2>3, <2>4, <2>5 DEF Keeps
<1>22. FramesHaveOneOwner'
  <2>1. \A u \in InFrames' : u \in InFrames \/ u \in New
    BY <1>20, UsesGrow
  <2>2. Reserved \subseteq pmm_bitmap /\ pmm_bitmap \subseteq pmm_bitmap'
    BY <1>2 DEF KernelTables
  <2> HIDE DEF New
  <2> QED BY <1>19, <2>1, <2>2, OwnersGrow
<1>23. Backed'
  <2> DEFINE X == {d} \cup {Copy(e) : e \in Copied}
  <2>1. \E u \in InFrames' : u[3] = d
    <3>1. DirectoryUse(<<"directory", t, d>>)'
      BY <1>2 DEF DirectoryUse
    <3> QED BY <1>2, <1>4, <3>1, UsesWillBe DEF Use
  <2>2. ASSUME NEW e \in Copied
        PROVE  \E u \in InFrames' : u[3] = Copy(e)
    <3>1. PICK c : c = Copy(e)
      OBVIOUS
    <3>2. TaskTable(t, e)' = c /\ c \in Frames \ {Null}
      BY <1>2, <1>3, <1>4, <1>5, <3>1
    <3>3. CopyUse(<<"copy", <<t, e>>, c>>)'
      BY <1>5, <3>2 DEF CopyUse
    <3> QED BY <3>1, <3>2, <3>3, UsesWillBe DEF Use
  <2>3. pmm_bitmap' \subseteq pmm_bitmap \cup X
    BY <1>2
  <2>4. \A f \in X : \E u \in InFrames' : u[3] = f
    BY <2>1, <2>2
  <2> HIDE DEF X
  <2> QED BY <1>21, <2>3, <2>4, BackedGrows
<1>24. KernelTables'
  <2>1. Reserved \subseteq pmm_bitmap'
    BY <1>2 DEF KernelTables
  <2>2. \A e \in Entries : KernelTable(e) # Null
    BY <1>2 DEF KernelTables, KernelTable
  <2> QED BY <1>2, <2>1, <2>2 DEF KernelTables, KernelTable
<1>25. Directories'
  <2>1. ASSUME NEW r \in Tasks, NEW e \in LowEntries
        PROVE  TaskTable(r, e)' \in (Frames \ {Null}) \cup {None}
    <3>1. CASE r = t
      BY <1>2, <1>3, <1>4, <3>1
    <3>2. CASE r # t
      BY <1>18, <3>2 DEF Directories, TaskTable
    <3> QED BY <3>1, <3>2
  <2>2. ASSUME NEW r \in Tasks, page_directory'[r] = Null, NEW e \in Entries
        PROVE  directory'[r][e] = Absent
    <3>1. r # t
      BY <1>2, <1>4, <2>2
    <3> QED BY <1>2, <2>2, <3>1 DEF Directories
  <2>3. ASSUME NEW r \in Tasks, state'[r] # "ready"
        PROVE  page_directory'[r] = Null \/ r \in Coming'
    BY <1>2, <1>6, <2>3 DEF Directories
  <2> QED BY <2>1, <2>2, <2>3 DEF Directories, TaskTable
<1>26. Created'
  <2>1. \A w \in ImagePages :
            TaskFrame(t, w)' = None \/ TaskFrame(t, w)' = KernelFrame(w)'
    BY <1>9, <1>12, <1>14
  <2>2. page_directory'[t] # Null
    BY <1>2, <1>4
  <2> QED BY <1>6, <2>1, <2>2 DEF Created
<1>27. Covered'
  <2>1. SUFFICES ASSUME Free' # {}, NEW w \in ImagePages,
                        KernelFrame(w)' # None
                 PROVE  TaskFrame(t, w)' = KernelFrame(w)'
    BY <1>6 DEF Covered
  <2>2. KernelFrame(w)' = KernelFrame(w)
    BY <1>9, <1>14
  <2>3. Entry(w) \in LowTables
    <3>1. Entry(w) \in 0..(FirstHigh - 1)
      BY ImageEntry
    <3>2. Present(kernel_page_directory[Entry(w)])
      BY <2>1, <2>2 DEF KernelFrame, Lookup, Absent
    <3> QED BY <3>1, <3>2 DEF LowTables
  <2> QED BY <1>12, <1>13, <2>1, <2>2, <2>3
<1>28. TasksSeeTheSame
  BY <1>6, <1>8, <1>10 DEF TasksSeeTheSame
<1> QED BY <1>22, <1>23, <1>24, <1>25, <1>26, <1>27, <1>28 DEF AddressInv

(* Without a frame the task gets none.                                     *)
LEMMA NoDirectoryKeeps ==
    ASSUME AddressInv, NEW t \in Tasks, state[t] = "none", pc # "stacks",
           Free = {}, UNCHANGED <<pmm, vmm>>, TypeOK', Loading',
           pc' = "stacks", new' = t, UNCHANGED <<heap_current_end, state>>
    PROVE  AddressInv' /\ TasksSeeTheSame
<1> USE InvFacts
<1>1. Ready' = Ready
  BY DEF Ready, vmm
<1>2. /\ SameFrames
      /\ \A r \in Tasks : \A v \in LowPages :
            Lookup(directory[r], v)' = Lookup(directory[r], v)
  BY <1>1, SameMemory
<1>3. FramesHaveOneOwner' /\ Backed' /\ KernelTables' /\ Free' = Free
  BY <1>2, SameFramesKeep
<1>4. Coming = {} /\ Coming' = {t}
  BY DEF Coming
<1>5. page_directory[t] = Null /\ \A e \in Entries : directory[t][e] = Absent
  BY <1>4 DEF Directories
<1>6. directory' = directory /\ page_directory' = page_directory
  BY DEF vmm
<1>7. Directories'
  BY <1>4, <1>6 DEF Directories
<1>8. Created'
  <2>1. ASSUME NEW w \in ImagePages PROVE TaskFrame(t, w)' = None
    BY <1>5, <1>6, ImageEntry DEF TaskFrame, Lookup, Present, Absent
  <2> QED BY <1>3, <1>4, <2>1 DEF Created
<1>9. Covered'
  BY <1>3 DEF Covered
<1>10. TasksSeeTheSame
  BY <1>2 DEF TasksSeeTheSame, Ready
<1> QED BY <1>3, <1>7, <1>8, <1>9, <1>10 DEF AddressInv

(* scheduler_create_task up to the stack.                                  *)
LEMMA CreateTaskKeeps ==
    ASSUME AddressInv, NEW t \in Tasks,
           NEW entry \in ImagePages \cup {KernelCode}, CreateTask(t, entry),
           pc # "stacks", todo = {}, segment = {}
    PROVE  AddressInv' /\ TasksSeeTheSame
<1> USE InvFacts
<1>1. /\ state[t] = "none" /\ MakeDirectory(t)
      /\ code' = [code EXCEPT ![t] = entry]
      /\ pc' = "stacks" /\ image' = {} /\ new' = t
      /\ UNCHANGED <<heap_current_end, cr3, content, state, stack, todo,
                     segment>>
  BY DEF CreateTask
<1>2. Loading'
  BY <1>1 DEF Loading
<1>3. code' \in [Tasks -> ImagePages \cup {Null, KernelCode}]
  BY <1>1 DEF TypeOK
<1>4. CASE Free = {}
  <2>1. UNCHANGED <<pmm, vmm>>
    BY <1>1, <1>4 DEF MakeDirectory
  <2>2. TypeOK'
    BY <1>1, <1>3, <2>1 DEF TypeOK, pmm, vmm
  <2> QED BY <1>1, <1>2, <1>4, <2>1, <2>2, NoDirectoryKeeps
<1>5. CASE Free # {}
  <2>1. /\ MakesDirectory(t)
        /\ table' \in [Tables -> [Slots -> PageEntry]]
        /\ page_directory' \in [Tasks -> Frames]
        /\ directory' \in [Tasks -> [Entries -> DirectoryEntry]]
        /\ pmm_bitmap' \subseteq Frames
    BY <1>1, <1>5, MakeDirectoryIs
  <2>2. kernel_page_directory' = kernel_page_directory
    BY <2>1 DEF MakesDirectory
  <2>3. TypeOK'
    BY <1>1, <1>3, <2>1, <2>2 DEF TypeOK
  <2> QED BY <1>1, <1>2, <2>1, <2>3, DirectoryKeeps
<1> QED BY <1>4, <1>5

(* run and exec.                                                           *)
LEMMA RunProgramKeeps ==
    ASSUME AddressInv, NEW t \in Tasks, RunProgram(t)
    PROVE  AddressInv' /\ TasksSeeTheSame
<1>1. PICK entry \in image : CreateTask(t, entry)
  BY DEF RunProgram
<1>2. entry \in ImagePages
  BY InvFacts, ImagesAre
<1>3. pc # "stacks" /\ todo = {} /\ segment = {}
  BY DEF RunProgram
<1> QED BY <1>1, <1>2, <1>3, CreateTaskKeeps

(* usertest.                                                               *)
LEMMA UserTestKeeps ==
    ASSUME AddressInv, NEW t \in Tasks, UserTest(t)
    PROVE  AddressInv' /\ TasksSeeTheSame
<1>1. pc = "idle" /\ CreateTask(t, KernelCode)
  BY DEF UserTest
<1>2. todo = {} /\ segment = {}
  BY <1>1, InvFacts DEF Loading, TypeOK
<1>3. pc # "stacks"
  BY <1>1
<1> QED BY <1>1, <1>2, <1>3, CreateTaskKeeps

(* Steps that leave the tables, the tasks and what is to be mapped alone:  *)
(* switches, the copying of the loader, and those that change nothing.     *)
LEMMA TablesKept ==
    ASSUME AddressInv,
           UNCHANGED <<pmm, vmm, heap_current_end, state, image, todo>>,
           Coming' = Coming, pc' = "stacks" <=> pc = "stacks",
           TypeOK', Loading'
    PROVE  AddressInv' /\ TasksSeeTheSame
<1> USE InvFacts
<1>1. Ready' = Ready
  BY DEF Ready, vmm
<1>2. /\ SameFrames
      /\ \A r \in Tasks : \A v \in LowPages :
            Lookup(directory[r], v)' = Lookup(directory[r], v)
  BY <1>1, SameMemory
<1>3. FramesHaveOneOwner' /\ Backed' /\ KernelTables' /\ Free' = Free
  BY <1>2, SameFramesKeep
<1>4. state' = state /\ page_directory' = page_directory
      /\ directory' = directory /\ image' = image /\ todo' = todo
  BY DEF vmm
<1>5. Directories'
  BY <1>4 DEF Directories
<1>6. /\ \A t \in Tasks : \A v \in ImagePages :
            TaskFrame(t, v)' = TaskFrame(t, v)
      /\ \A v \in ImagePages : KernelFrame(v)' = KernelFrame(v)
  BY <1>2 DEF SameFrames
<1>7. Coming \subseteq Tasks /\ Ready \subseteq Tasks
  BY DEF Coming, Ready
<1>8. Created'
  BY <1>3, <1>4, <1>6, <1>7 DEF Created
<1>9. Covered'
  BY <1>1, <1>3, <1>4, <1>6, <1>7 DEF Covered
<1>10. TasksSeeTheSame
  BY <1>2 DEF TasksSeeTheSame, Ready
<1> QED BY <1>3, <1>5, <1>8, <1>9, <1>10 DEF AddressInv

(* Steps that change nothing.                                              *)
LEMMA StutterKeeps ==
    ASSUME AddressInv, UNCHANGED vars
    PROVE  AddressInv' /\ TasksSeeTheSame
<1>1. UNCHANGED <<pmm, vmm, heap_current_end, cr3, content, state, code, stack,
                  command>>
  BY DEF vars
<1>2. Coming' = Coming /\ pc' = pc
  BY <1>1 DEF Coming, command
<1>3. TypeOK' /\ Loading'
  BY <1>1, InvFacts DEF TypeOK, Loading, pmm, vmm, command
<1>4. UNCHANGED <<pmm, vmm, heap_current_end, state, image, todo>>
  BY <1>1 DEF command
<1> QED BY <1>2, <1>3, <1>4, TablesKept

(* timer_handler loads another directory.                                  *)
LEMMA SwitchKeeps ==
    ASSUME AddressInv, NEW t \in Ready \cup {None}, Switch(t)
    PROVE  AddressInv' /\ TasksSeeTheSame
<1>1. /\ UNCHANGED <<pmm, vmm, heap_current_end, content, state, code, stack,
                     command>>
      /\ cr3' = t
  BY DEF Switch
<1>2. Coming' = Coming /\ pc' = pc
  BY <1>1 DEF Coming, command
<1>3. TypeOK' /\ Loading'
  <2>1. cr3' \in Tasks \cup {None}
    BY <1>1 DEF Ready
  <2> QED BY <1>1, <2>1, InvFacts DEF TypeOK, Loading, pmm, vmm, command
<1>4. UNCHANGED <<pmm, vmm, heap_current_end, state, image, todo>>
  BY <1>1 DEF command
<1> QED BY <1>2, <1>3, <1>4, TablesKept

(* The loader copies the bytes of a page.                                  *)
LEMMA CopyPageKeeps ==
    ASSUME AddressInv, CopyPage
    PROVE  AddressInv' /\ TasksSeeTheSame
<1>1. /\ UNCHANGED <<pmm, vmm, heap_current_end, cr3, state, code, stack, image,
                     todo, new>>
      /\ pc \in {"load", "copy"} /\ pc' \in {"load", "copy"}
      /\ content' = [content EXCEPT ![Target(First(segment)).frame] = image]
      /\ segment' \subseteq segment
  BY DEF CopyPage
<1>2. Coming' = Coming
  BY <1>1 DEF Coming
<1>3. TypeOK'
  <2>1. image \in Programs \cup {{}}
    BY InvFacts DEF TypeOK
  <2>2. content' \in [Frames -> Programs \cup {{}}]
    BY <1>1, <2>1, InvFacts DEF TypeOK
  <2>3. segment' \subseteq image' \ todo'
    BY <1>1, InvFacts DEF TypeOK
  <2> QED BY <1>1, <2>2, <2>3, InvFacts DEF TypeOK, pmm, vmm
<1>4. Loading'
  BY <1>1 DEF Loading
<1> QED BY <1>1, <1>2, <1>3, <1>4, TablesKept

(* The copy faults.                                                        *)
LEMMA PageFaultKeeps ==
    ASSUME AddressInv, PageFault
    PROVE  AddressInv' /\ TasksSeeTheSame
<1>1. /\ UNCHANGED <<pmm, vmm, heap_current_end, cr3, content, state, code,
                     stack, image, todo, segment, new>>
      /\ pc \in {"load", "copy"} /\ pc' = "halted"
  BY DEF PageFault
<1>2. Coming' = Coming
  BY <1>1 DEF Coming
<1>3. TypeOK' /\ Loading'
  BY <1>1, InvFacts DEF TypeOK, Loading, pmm, vmm
<1> QED BY <1>1, <1>2, <1>3, TablesKept

-----------------------------------------------------------------------------
(* The theorems.                                                           *)

(* pmm_init and vmm_init establish the invariant.                          *)
LEMMA InitHolds ==
    ASSUME Init
    PROVE  AddressInv
<1> USE SizesAssumption
<1>1. /\ pmm_bitmap = Reserved
      /\ kernel_page_directory =
            [e \in Entries |-> IF e < IdentityTables
                               THEN [frame |-> StaticTable(e), user |-> FALSE]
                               ELSE Absent]
      /\ table = [x \in Tables |-> [s \in Slots |->
                      IF x \in Frames THEN Absent
                      ELSE [frame |-> (x - NumFrames) * TableSize + s,
                            user |-> FALSE]]]
      /\ page_directory = [t \in Tasks |-> Null]
      /\ directory = [t \in Tasks |-> [e \in Entries |-> Absent]]
      /\ heap_current_end = FirstHigh * TableSize
      /\ state = [t \in Tasks |-> "none"]
      /\ code = [t \in Tasks |-> Null]
      /\ stack = [t \in Tasks |-> {}]
      /\ cr3 = None /\ content = [f \in Frames |-> {}]
      /\ pc = "idle" /\ image = {} /\ todo = {} /\ segment = {} /\ new = None
  BY DEF Init
<1>2. \A e \in Entries : kernel_page_directory[e].frame =
          IF e < IdentityTables THEN StaticTable(e) ELSE None
  BY <1>1 DEF Absent
<1>3. \A e \in Entries : e \in Nat /\ StaticTable(e) \notin Frames
  BY Sizes DEF Entries, StaticTable, Frames
<1>4. Null \in Frames /\ None \notin Frames /\ Null # None
  BY Sizes
<1>5. TypeOK
  <2>1. kernel_page_directory \in [Entries -> DirectoryEntry]
    <3>1. ASSUME NEW e \in Entries, e < IdentityTables
          PROVE  StaticTable(e) \in Tables
      BY <3>1 DEF Tables, Entries
    <3>2. \A e \in Entries : e < IdentityTables =>
              [frame |-> StaticTable(e), user |-> FALSE] \in DirectoryEntry
      BY <3>1 DEF DirectoryEntry
    <3>3. Absent \in DirectoryEntry
      BY DEF Absent, DirectoryEntry
    <3> QED BY <1>1, <3>2, <3>3
  <2>2. table \in [Tables -> [Slots -> PageEntry]]
    <3>1. ASSUME NEW x \in Tables, x \notin Frames, NEW s \in Slots
          PROVE  (x - NumFrames) * TableSize + s \in Frames
      <4>1. PICK e \in 0..(IdentityTables - 1) : x = NumFrames + e
        BY <3>1 DEF Tables, StaticTable
      <4>2. PICK n \in Nat : n = NumFrames
        BY Sizes
      <4>3. x - NumFrames = e
        BY <4>1, <4>2
      <4>4. (e + 1) * TableSize <= IdentityTables * TableSize
        BY Scales
      <4>5. (e + 1) * TableSize = e * TableSize + TableSize
        OBVIOUS
      <4>6. e * TableSize \in Nat /\ IdentityTables * TableSize \in Nat
        OBVIOUS
      <4>7. s \in Nat /\ s < TableSize
        BY DEF Slots
      <4>8. e * TableSize + s \in 0..(IdentityTables * TableSize - 1)
        BY <4>4, <4>5, <4>6, <4>7
      <4> QED BY <4>3, <4>8 DEF Frames, NumFrames
    <3>2. \A x \in Tables : \A s \in Slots : x \notin Frames =>
              [frame |-> (x - NumFrames) * TableSize + s, user |-> FALSE]
                  \in PageEntry
      BY <3>1 DEF PageEntry
    <3>3. Absent \in PageEntry
      BY DEF Absent, PageEntry
    <3> QED BY <1>1, <3>2, <3>3
  <2>3. heap_current_end - 1 = FirstHigh * TableSize - 1
    BY <1>1
  <2>4. directory \in [Tasks -> [Entries -> DirectoryEntry]]
    <3>1. Absent \in DirectoryEntry
      BY DEF Absent, DirectoryEntry
    <3> QED BY <1>1, <3>1
  <2> QED BY <1>1, <1>4, <2>1, <2>2, <2>3, <2>4, Sizes DEF TypeOK
<1>6. KernelTables
  <2>1. \A e \in Entries : StaticTable(e) # Null
    BY <1>3, <1>4
  <2> QED BY <1>1, <1>2, <1>3, <1>4, <2>1 DEF KernelTables
<1>7. \A t \in Tasks : \A e \in Entries : directory[t][e] = Absent
  BY <1>1
<1>8. Coming = {} /\ Ready = {}
  BY <1>1 DEF Coming, Ready
<1>9. Directories
  BY <1>1, <1>7, LowTablesAre DEF Directories, Absent
<1>10. Created
  BY <1>1, <1>8 DEF Created
<1>11. \A v \in ImagePages : KernelFrame(v) = None
  <2>1. \A v \in ImagePages :
            Entry(v) \in Entries /\ ~(Entry(v) < IdentityTables)
    BY ImageEntry DEF Entries
  <2>2. \A v \in ImagePages : kernel_page_directory[Entry(v)].frame = None
    BY <1>2, <2>1
  <2> QED BY <2>2 DEF KernelFrame, Lookup, Present, Absent
<1>12. Covered
  BY <1>11 DEF Covered
<1>13. Loading
  BY <1>1 DEF Loading
<1>14. InFrames = {}
  <2>1. SUFFICES ASSUME NEW u, Use(u), u[3] \in Frames \ {Null} PROVE FALSE
    BY UsesAre
  <2>2. Mapped = {}
    BY <1>1, Sizes DEF Mapped, HeapPages
  <2>3. \A e \in Entries : KernelTable(e) \notin Frames
    BY <1>2, <1>3, <1>4 DEF KernelTable
  <2>4. \A t \in Tasks : \A e \in LowEntries : TaskTable(t, e) = None
    BY <1>7, LowTablesAre DEF TaskTable, Absent
  <2>5. ~HeapUse(u) /\ ~TaskUse(u)
    BY <1>8, <2>2 DEF HeapUse, TaskUse
  <2>6. ~ImageUse(u)
    BY <1>4, <1>11, <2>1 DEF ImageUse
  <2>7. ~TableUse(u)
    BY <2>1, <2>3 DEF TableUse
  <2>8. ~CopyUse(u)
    BY <1>4, <2>1, <2>4 DEF CopyUse
  <2>9. ~DirectoryUse(u)
    BY <1>1, <2>1 DEF DirectoryUse
  <2> QED BY <2>1, <2>5, <2>6, <2>7, <2>8, <2>9 DEF Use
<1>15. FramesHaveOneOwner
  BY <1>14 DEF FramesHaveOneOwner
<1>16. Backed
  BY <1>1 DEF Backed
<1> QED BY <1>5, <1>6, <1>9, <1>10, <1>12, <1>13, <1>15, <1>16 DEF AddressInv

(* Every step keeps it, and what the tasks see.                            *)
LEMMA NextKeeps ==
    ASSUME AddressInv, ~Reaping, [Next]_vars
    PROVE  AddressInv' /\ TasksSeeTheSame
<1>1. CASE GrowHeap
  BY <1>1, GrowHeapKeeps
<1>2. CASE \E program \in Programs : LoadElf(program)
  BY <1>2, LoadElfKeeps
<1>3. CASE RefuseElf
  BY <1>3, StutterKeeps DEF RefuseElf
<1>4. CASE LoadPage
  BY <1>4, LoadPageKeeps
<1>5. CASE LoadFails
  BY <1>5, LoadFailsKeeps
<1>6. CASE \E t \in Tasks : RunProgram(t) \/ UserTest(t)
  BY <1>6, RunProgramKeeps, UserTestKeeps
<1>7. CASE TakeStacks
  BY <1>7, TakeStacksKeeps
<1>8. CASE \E t \in Tasks : Reap(t)
  BY <1>8, ReapKeeps
<1>9. CASE UNCHANGED vars
  BY <1>9, StutterKeeps
<1>10. CASE \E t \in Ready \cup {None} : Switch(t)
  BY <1>10, SwitchKeeps
<1>11. CASE CopyPage
  BY <1>11, CopyPageKeeps
<1>12. CASE PageFault
  BY <1>12, PageFaultKeeps
<1>13. CASE Halted
  BY <1>13, StutterKeeps DEF Halted
<1> QED BY <1>1, <1>2, <1>3, <1>4, <1>5, <1>6, <1>7, <1>8, <1>9, <1>10, <1>11,
           <1>12, <1>13 DEF Next

(* As long as no task with a directory is reaped, the frames, tables and   *)
(* directories keep the invariant.                                         *)
THEOREM AddressInvariant ==
    ASSUME ~Reaping
    PROVE  Spec => []AddressInv
<1>1. Init => AddressInv
  BY InitHolds
<1>2. AddressInv /\ [Next]_vars => AddressInv'
  BY NextKeeps
<1> QED BY <1>1, <1>2, PTL DEF Spec

(* The state always has its type.                                          *)
THEOREM AddressTypeOK ==
    ASSUME ~Reaping
    PROVE  Spec => []TypeOK
<1>1. AddressInv => TypeOK
  BY InvFacts
<1> QED BY <1>1, AddressInvariant, PTL

(* pmm_alloc_frame never gives out a frame that the heap, a program, a     *)
(* table or a directory uses, and nothing gets a second use.               *)
THEOREM AddressOneOwner ==
    ASSUME ~Reaping
    PROVE  Spec => []FramesHaveOneOwner
<1>1. AddressInv => FramesHaveOneOwner
  BY InvFacts
<1> QED BY <1>1, AddressInvariant, PTL

(* Between commands every frame that is not free is reserved or in use.    *)
THEOREM AddressNoLeak ==
    ASSUME ~Reaping
    PROVE  Spec => []NoFrameLeaked
<1>1. AddressInv => NoFrameLeaked
  BY InvFacts DEF Backed, NoFrameLeaked
<1> QED BY <1>1, AddressInvariant, PTL

-----------------------------------------------------------------------------
(* What the loader writes.                                                 *)

(* A page that waits for its bytes has a frame of its own: no task maps it.*)
SegmentIsFresh ==
    \A v \in segment :
        /\ KernelFrame(v) \in Frames \ {Null}
        /\ \A t \in Ready : TaskFrame(t, v) # KernelFrame(v)

(* The pages of a task's program keep their bytes, as far as they may.     *)
ProgramsKept ==
    \A t \in Ready : \A v \in ImagePages :
        TaskFrame(t, v) \notin Overwritten \cup {None} =>
            content'[TaskFrame(t, v)] = content[TaskFrame(t, v)]

(* The frame of a task's page is not free; the page is its use.            *)
LEMMA TaskFramesTaken ==
    ASSUME AddressInv, NEW t \in Ready, NEW v \in ImagePages,
           TaskFrame(t, v) # None
    PROVE  /\ TaskFrame(t, v) \in Frames \ Free
           /\ TaskFrame(t, v) # Null =>
                 <<"image", v, TaskFrame(t, v)>> \in InFrames
<1> USE InvFacts
<1>1. TaskFrame(t, v) \in Frames
  <2>1. t \in Tasks /\ Entry(v) \in Entries /\ Slot(v) \in Slots
    BY ImageEntry DEF Ready
  <2>2. directory[t][Entry(v)].frame \in Tables \cup {None}
    BY <2>1 DEF TypeOK, DirectoryEntry
  <2>3. PICK x : x = directory[t][Entry(v)].frame
    OBVIOUS
  <2>4. TaskFrame(t, v) = IF x # None THEN table[x][Slot(v)].frame ELSE None
    BY <2>3 DEF TaskFrame, Lookup, Present, Absent
  <2>5. x \in Tables => table[x][Slot(v)] \in PageEntry
    BY <2>1, Types
  <2> QED BY <2>2, <2>3, <2>4, <2>5 DEF PageEntry
<1>2. TaskFrame(t, v) # Null => <<"image", v, TaskFrame(t, v)>> \in InFrames
  <2>1. TaskUse(<<"image", v, TaskFrame(t, v)>>)
    BY DEF TaskUse
  <2> QED BY <1>1, <2>1, UsesAre DEF Use
<1>3. TaskFrame(t, v) \notin Free
  BY <1>2, Sizes DEF FramesHaveOneOwner, KernelTables, Free
<1> QED BY <1>1, <1>2, <1>3

(* Nothing waits outside a load.                                           *)
LEMMA NothingWaits ==
    ASSUME AddressInv, pc \notin {"load", "copy", "halted"}
    PROVE  segment = {}
BY InvFacts DEF TypeOK, Loading

(* Steps that begin or end no part of a load, or drop it.                  *)
LEMMA NothingWritten ==
    ASSUME content' = content, segment' = {}
    PROVE  SegmentIsFresh' /\ ProgramsKept
BY DEF SegmentIsFresh, ProgramsKept

(* Steps that leave it as it is.                                           *)
LEMMA SegmentKept ==
    ASSUME AddressInv, SegmentIsFresh, content' = content,
           UNCHANGED <<pmm, vmm, state>>, segment' \subseteq segment
    PROVE  SegmentIsFresh'
<1>1. Ready' = Ready
  BY DEF Ready, vmm
<1>2. \A v : KernelFrame(v)' = KernelFrame(v)
  BY DEF KernelFrame, Lookup, vmm
<1>3. \A t, v : TaskFrame(t, v)' = TaskFrame(t, v)
  BY DEF TaskFrame, Lookup, vmm
<1> QED BY <1>1, <1>2, <1>3 DEF SegmentIsFresh

(* The loader's zeroing: the frame was free, so no task has it.            *)
LEMMA LoadPageWrites ==
    ASSUME AddressInv, SegmentIsFresh, LoadPage
    PROVE  SegmentIsFresh' /\ ProgramsKept
<1> USE InvFacts
<1>a. PICK v : v = First(todo)
  OBVIOUS
<1>b. PICK f : f = First(Free)
  OBVIOUS
<1>1. /\ todo # {} /\ Free # {}
      /\ MapPage(v, f, TRUE)
      /\ content' = [content EXCEPT ![f] = {}]
      /\ segment' = segment \cup {v}
      /\ UNCHANGED <<page_directory, directory, state>>
  BY <1>a, <1>b DEF LoadPage
<1>2. f \in Free /\ f \in Frames \ {Null}
  BY <1>1, <1>b, FreeIs, FirstIs, Sizes DEF KernelTables, Free
<1>3. v \in todo /\ v \in ImagePages
  BY <1>1, <1>a, ImagesAre, FirstIs
<1>4. v \in Nat /\ Entry(v) \in Entries
  BY <1>3, ImageEntry
<1>5. PICK x : MapsAt(v, f, x)
  BY <1>1, <1>2, <1>4, MapPageIs
<1>6. Ready' = Ready /\ Ready \subseteq Tasks
  BY <1>1, ReadyAre DEF Ready
<1>7. ASSUME NEW t \in Ready, NEW w \in ImagePages
      PROVE  TaskFrame(t, w)' = TaskFrame(t, w)
  BY <1>1, <1>5, <1>6, MapsPrivately, ImagesAreLow DEF TaskFrame
<1>8. ASSUME NEW t \in Ready, NEW w \in ImagePages
      PROVE  TaskFrame(t, w) # f
  <2>1. f # None
    BY <1>2, Sizes
  <2> QED BY <1>2, <2>1, TaskFramesTaken
<1>9. SegmentIsFresh'
  <2>1. ASSUME NEW w \in segment'
        PROVE  /\ KernelFrame(w)' \in Frames \ {Null}
               /\ \A t \in Ready : TaskFrame(t, w)' # KernelFrame(w)'
    <3>1. CASE w = v
      BY <1>2, <1>3, <1>5, <1>7, <1>8, <3>1 DEF MapsAt
    <3>2. CASE w # v
      <4>1. w \in segment /\ w \in ImagePages
        BY <1>1, <3>2, ImagesAre DEF TypeOK
      <4>2. KernelFrame(w)' = KernelFrame(w)
        BY <1>5, <3>2, <4>1, ImageEntry DEF MapsAt
      <4> QED BY <1>7, <4>1, <4>2 DEF SegmentIsFresh
    <3> QED BY <3>1, <3>2
  <2> QED BY <1>6, <2>1 DEF SegmentIsFresh
<1>10. ProgramsKept
  BY <1>1, <1>8, TaskFramesTaken DEF ProgramsKept, TypeOK
<1> QED BY <1>9, <1>10

(* The loader's copying: through the kernel's directory it reaches the     *)
(* frames it has just mapped, through a task's the ones that are excepted. *)
LEMMA CopyPageWrites ==
    ASSUME AddressInv, SegmentIsFresh, CopyPage
    PROVE  SegmentIsFresh' /\ ProgramsKept
<1> USE InvFacts
<1>a. PICK v : v = First(segment)
  OBVIOUS
<1>b. PICK g : g = Target(v).frame
  OBVIOUS
<1>1. /\ UNCHANGED <<pmm, vmm, state>>
      /\ segment # {} /\ segment' = segment \ {v}
      /\ content' = [content EXCEPT ![g] = image]
  BY <1>a, <1>b DEF CopyPage
<1>2. segment \subseteq ImagePages /\ segment \in SUBSET Nat
      /\ IsFiniteSet(segment)
  <2>1. segment \subseteq ImagePages
    BY ImagesAre DEF TypeOK
  <2>2. IsFiniteSet(ImagePages)
    BY Sizes, FS_Interval DEF ImagePages
  <2> QED BY <2>1, <2>2, FS_Subset, ImageEntry
<1>3. v \in segment
  BY <1>1, <1>2, <1>a, FirstIs
<1>4. g = IF cr3 = None THEN KernelFrame(v) ELSE TaskFrame(cr3, v)
  BY <1>b DEF Target, KernelFrame, TaskFrame
<1>5. SegmentIsFresh'
  <2>1. Ready' = Ready
    BY <1>1 DEF Ready, vmm
  <2>2. \A w : KernelFrame(w)' = KernelFrame(w)
    BY <1>1 DEF KernelFrame, Lookup, vmm
  <2>3. \A t, w : TaskFrame(t, w)' = TaskFrame(t, w)
    BY <1>1 DEF TaskFrame, Lookup, vmm
  <2> QED BY <1>1, <2>1, <2>2, <2>3 DEF SegmentIsFresh
<1>6. ASSUME NEW t \in Ready, NEW w \in ImagePages,
             TaskFrame(t, w) \notin Overwritten \cup {None}
      PROVE  TaskFrame(t, w) # g
  <2>1. CASE cr3 = None
    <3>1. SUFFICES ASSUME TaskFrame(t, w) = KernelFrame(v) PROVE FALSE
      BY <1>4, <2>1
    <3>2. KernelFrame(v) \in Frames \ {Null} /\ TaskFrame(t, v) # KernelFrame(v)
      BY <1>3 DEF SegmentIsFresh
    <3>3. <<"image", w, KernelFrame(v)>> \in InFrames
      BY <1>6, <3>1, <3>2, TaskFramesTaken
    <3>4. <<"image", v, KernelFrame(v)>> \in InFrames
      <4>1. ImageUse(<<"image", v, KernelFrame(v)>>)
        BY <1>2, <1>3 DEF ImageUse
      <4> QED BY <3>2, <4>1, UsesAre DEF Use
    <3>5. w = v
      BY <3>3, <3>4 DEF FramesHaveOneOwner
    <3> QED BY <3>1, <3>2, <3>5
  <2>2. CASE cr3 # None
    BY <1>3, <1>4, <1>6, <2>2 DEF Overwritten, TaskFrame
  <2> QED BY <2>1, <2>2
<1>7. ProgramsKept
  BY <1>1, <1>6, TaskFramesTaken DEF ProgramsKept, TypeOK
<1> QED BY <1>5, <1>7

(* Every step.                                                             *)
LEMMA NextWrites ==
    ASSUME AddressInv, SegmentIsFresh, [Next]_vars
    PROVE  SegmentIsFresh' /\ ProgramsKept
<1>1. CASE LoadPage
  BY <1>1, LoadPageWrites
<1>2. CASE CopyPage
  BY <1>2, CopyPageWrites
<1>3. CASE PageFault
  <2>1. content' = content /\ UNCHANGED <<pmm, vmm, state>>
        /\ segment' = segment
    BY <1>3 DEF PageFault
  <2> QED BY <2>1, SegmentKept DEF ProgramsKept
<1>4. CASE RefuseElf \/ Halted \/ UNCHANGED vars
  <2>1. content' = content /\ UNCHANGED <<pmm, vmm, state>>
        /\ segment' = segment
    BY <1>4 DEF RefuseElf, Halted, vars, command
  <2> QED BY <2>1, SegmentKept DEF ProgramsKept
<1>5. CASE LoadFails
  BY <1>5, NothingWritten DEF LoadFails
<1>6. CASE \E t \in Ready \cup {None} : Switch(t)
  BY <1>6, NothingWaits, NothingWritten DEF Switch, command
<1>7. CASE GrowHeap
  BY <1>7, NothingWaits, NothingWritten DEF GrowHeap, command
<1>8. CASE \E program \in Programs : LoadElf(program)
  BY <1>8, NothingWaits, NothingWritten DEF LoadElf
<1>9. CASE \E t \in Tasks : RunProgram(t) \/ UserTest(t)
  BY <1>9, NothingWaits, NothingWritten DEF RunProgram, UserTest, CreateTask
<1>10. CASE TakeStacks
  <2>1. PICK b, pages : MapStacks(b, pages)
    BY <1>10 DEF TakeStacks
  <2>2. pc = "stacks" /\ content' = content /\ segment' = segment
    BY <2>1 DEF MapStacks
  <2> QED BY <2>2, NothingWaits, NothingWritten
<1>11. CASE \E t \in Tasks : Reap(t)
  BY <1>11, NothingWaits, NothingWritten DEF Reap, command
<1> QED BY <1>1, <1>2, <1>3, <1>4, <1>5, <1>6, <1>7, <1>8, <1>9, <1>10, <1>11
        DEF Next

(* No load, task creation or growth of the heap changes what a running     *)
(* task finds in the lower part of its address space, nor whose bytes are  *)
(* in the pages of its program, except that a load which interrupts a user *)
(* task writes to the pages of that task at the addresses it loads to.     *)
THEOREM AddressPrivate ==
    ASSUME ~Reaping
    PROVE  Spec => AddressSpacesArePrivate
<1> DEFINE Private ==
        \A t \in Ready : t \in Ready' =>
            /\ \A v \in 0..(FirstHigh * TableSize - 1) :
                  Lookup(directory[t], v)' = Lookup(directory[t], v)
            /\ \A f \in {Lookup(directory[t], v).frame : v \in ImagePages} :
                  f \notin Overwritten \cup {None} => content'[f] = content[f]
<1>1. Init => SegmentIsFresh
  BY DEF Init, SegmentIsFresh
<1>2. AddressInv /\ SegmentIsFresh /\ [Next]_vars => SegmentIsFresh'
  BY NextWrites
<1>3. AddressInv /\ SegmentIsFresh /\ [Next]_vars => [Private]_vars
  <2>1. SUFFICES ASSUME AddressInv, SegmentIsFresh, [Next]_vars
                 PROVE  Private
    OBVIOUS
  <2>2. TasksSeeTheSame
    BY <2>1, NextKeeps
  <2>3. ProgramsKept
    BY <2>1, NextWrites
  <2> QED BY <2>2, <2>3 DEF TasksSeeTheSame, ProgramsKept, LowPages, TaskFrame
<1> QED BY <1>1, <1>2, <1>3, AddressInvariant, PTL
        DEF Spec, AddressSpacesArePrivate
=============================================================================
