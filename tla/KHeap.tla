------------------------------- MODULE KHeap -------------------------------
(***************************************************************************)
(* The kernel heap of src/kernel/kheap.cpp: a doubly linked list of blocks *)
(* in address order, best fit with splitting, growth by mapped pages, and  *)
(* coalescing on kfree.                                                    *)
(*                                                                         *)
(* A call runs to its end before the next one begins; it is cut into the   *)
(* search, the pages that heap_grow maps one by one, and the retry.  The   *)
(* constants scale the numbers of the code (in brackets).  Callers free    *)
(* what they own, once, and stay inside the bytes they asked for; sizes    *)
(* are small enough that size + sizeof(HeapBlock) does not wrap 32 bits.   *)
(***************************************************************************)
EXTENDS Integers

CONSTANTS
    HeapStart,      \* HEAP_START (0xC0000000)
    HeapMax,        \* HEAP_MAX (0xD0000000)
    PageSize,       \* PAGE_SIZE (4096)
    TableSpan,      \* the bytes one page table maps (4 MB)
    Header,         \* sizeof(HeapBlock) (16)
    Align,          \* sizes are rounded up to this (4)
    MinPayload,     \* the least payload a split leaves (4)
    Requests,       \* the sizes callers ask for
    MaxFrames       \* bound: the most page frames that are ever free

Null == 0

ASSUME RegionAssumption ==
    /\ HeapStart \in Nat /\ HeapMax \in Nat /\ HeapStart < HeapMax
    /\ PageSize \in Nat \ {0} /\ TableSpan \in Nat \ {0}
    /\ Header \in Nat \ {0} /\ Align \in Nat \ {0} /\ MinPayload \in Nat \ {0}
    /\ Header < HeapStart
    /\ (HeapMax - HeapStart) % PageSize = 0
ASSUME RequestsAssumption == Requests \subseteq Nat \ {0}
ASSUME FramesAssumption == MaxFrames \in Nat

Addresses == HeapStart..HeapMax

VARIABLES
    heap_start_block,
    heap_current_end,
    blocks,             \* the addresses that hold the header of a block
    size, next, prev,   \* the fields of the header at each address, 0 and
                        \* Null where there is no header
    is_free,            \* the blocks whose is_free is set
    frames,             \* the free frames of the physical memory manager
    owned,              \* what callers asked for, at each pointer they hold
    pc, asked,          \* the point of the call in progress and its size
    old_end, pages      \* kmalloc's old_end and the pages still to map,
                        \* HeapStart and 0 outside heap_grow

heap == <<heap_start_block, blocks, size, next, prev, is_free, owned>>
vars == <<heap, heap_current_end, frames, pc, asked, old_end, pages>>

RoundUp(n) == ((n + Align - 1) \div Align) * Align

TypeOK ==
    /\ heap_start_block \in Addresses \cup {Null}
    /\ heap_current_end \in Addresses
    /\ blocks \subseteq Addresses
    /\ size \in [Addresses -> Nat]
    /\ next \in [Addresses -> Addresses \cup {Null}]
    /\ prev \in [Addresses -> Addresses \cup {Null}]
    /\ is_free \subseteq blocks
    /\ frames \in 0..MaxFrames
    /\ owned \in [Addresses -> Requests \cup {0}]
    /\ pc \in {"idle", "search", "grow", "retry"}
    /\ asked \in Requests \cup {0}
    /\ old_end \in Addresses
    /\ pages \in Nat

(* kheap_init.                                                             *)
Init ==
    /\ heap_start_block = Null
    /\ heap_current_end = HeapStart
    /\ blocks = {}
    /\ size = [a \in Addresses |-> 0]
    /\ next = [a \in Addresses |-> Null]
    /\ prev = [a \in Addresses |-> Null]
    /\ is_free = {}
    /\ frames \in 0..MaxFrames
    /\ owned = [a \in Addresses |-> 0]
    /\ pc = "idle"
    /\ asked = 0
    /\ old_end = HeapStart
    /\ pages = 0

-----------------------------------------------------------------------------
(* kmalloc.                                                                *)

Kmalloc(n) ==
    /\ pc = "idle"
    /\ pc' = "search"
    /\ asked' = n
    /\ UNCHANGED <<heap, heap_current_end, frames, old_end, pages>>

Wanted == RoundUp(asked)

Fit == {b \in is_free : size[b] >= Wanted}

(* The first of the smallest blocks that fit, in the order of the list.    *)
BestFit == CHOOSE b \in Fit : \A c \in Fit :
               size[b] < size[c] \/ (size[b] = size[c] /\ b <= c)

Splits(b) == size[b] >= Wanted + Header + MinPayload

(* The block that is found is split if the rest can be a block.            *)
TakeWithoutBackLink(b) ==
    LET rest == b + Header + Wanted
    IN  IF Splits(b)
        THEN /\ blocks' = blocks \cup {rest}
             /\ is_free' = (is_free \ {b}) \cup {rest}
             /\ size' = [size EXCEPT ![b] = Wanted,
                                     ![rest] = size[b] - Wanted - Header]
             /\ next' = [next EXCEPT ![b] = rest, ![rest] = next[b]]
             /\ prev' = [prev EXCEPT ![rest] = b]
        ELSE /\ is_free' = is_free \ {b}
             /\ UNCHANGED <<blocks, size, next, prev>>

Take(b) ==
    LET rest == b + Header + Wanted
    IN  IF Splits(b)
        THEN /\ blocks' = blocks \cup {rest}
             /\ is_free' = (is_free \ {b}) \cup {rest}
             /\ size' = [size EXCEPT ![b] = Wanted,
                                     ![rest] = size[b] - Wanted - Header]
             /\ next' = [next EXCEPT ![b] = rest, ![rest] = next[b]]
             /\ prev' = [a \in Addresses |->
                            CASE a = rest -> b
                              [] a = next[b] -> rest
                              [] OTHER -> prev[a]]
        ELSE /\ is_free' = is_free \ {b}
             /\ UNCHANGED <<blocks, size, next, prev>>

Found ==
    /\ pc \in {"search", "retry"}
    /\ Fit # {}
    /\ Take(BestFit)
    /\ owned' = [owned EXCEPT ![BestFit + Header] = asked]
    /\ pc' = "idle"
    /\ asked' = 0
    /\ UNCHANGED <<heap_start_block, heap_current_end, frames, old_end, pages>>

-----------------------------------------------------------------------------
(* heap_grow.                                                              *)

PagesWithoutHeader(n) == (n + PageSize - 1) \div PageSize

PagesNeeded(n) == (n + Header + PageSize - 1) \div PageSize

NotFound ==
    /\ pc \in {"search", "retry"}
    /\ Fit = {}
    /\ pc' = "grow"
    /\ old_end' = heap_current_end
    /\ pages' = PagesNeeded(Wanted)
    /\ UNCHANGED <<heap, heap_current_end, frames, asked>>

(* vmm_map_page takes a frame for the page table when the page is the      *)
(* first of its table; it does not notice when there is none, and uses     *)
(* frame 0.                                                                *)
FramesForPage ==
    IF (heap_current_end - HeapStart) % TableSpan = 0 /\ frames > 1
    THEN 2 ELSE 1

GrowPage ==
    /\ pc = "grow" /\ pages > 0
    /\ heap_current_end < HeapMax
    /\ frames > 0
    /\ frames' = frames - FramesForPage
    /\ heap_current_end' = heap_current_end + PageSize
    /\ pages' = pages - 1
    /\ UNCHANGED <<heap, pc, asked, old_end>>

(* heap_grow fails, and kmalloc with it; the pages it has mapped stay.     *)
GrowFails ==
    /\ pc = "grow" /\ pages > 0
    /\ heap_current_end >= HeapMax \/ frames = 0
    /\ pc' = "idle"
    /\ asked' = 0
    /\ pages' = 0
    /\ old_end' = HeapStart
    /\ UNCHANGED <<heap, heap_current_end, frames>>

(* The new pages become a free block behind the last one, and kmalloc      *)
(* calls itself again.                                                     *)
LastBlock == CHOOSE b \in blocks : next[b] = Null

AppendBlock ==
    /\ pc = "grow" /\ pages = 0
    /\ blocks' = blocks \cup {old_end}
    /\ is_free' = is_free \cup {old_end}
    /\ size' = [size EXCEPT ![old_end] = heap_current_end - old_end - Header]
    /\ IF heap_start_block = Null
       THEN /\ heap_start_block' = old_end
            /\ UNCHANGED <<next, prev>>
       ELSE /\ next' = [next EXCEPT ![LastBlock] = old_end]
            /\ prev' = [prev EXCEPT ![old_end] = LastBlock]
            /\ UNCHANGED heap_start_block
    /\ pc' = "retry"
    /\ old_end' = HeapStart
    /\ UNCHANGED <<owned, heap_current_end, frames, asked, pages>>

-----------------------------------------------------------------------------
(* kfree: the block takes in the block behind it if that is free, and is   *)
(* taken in by the block before it if that is free.                        *)
AbsorbsUsedNext(b) == next[b] # Null

AbsorbsNext(b) == next[b] # Null /\ next[b] \in is_free

NeverAbsorbed(b) == FALSE

AbsorbedByPrev(b) == prev[b] # Null /\ prev[b] \in is_free

Kfree(p) ==
    LET b == p - Header
        n == next[b]
        keep == IF AbsorbedByPrev(b) THEN prev[b] ELSE b
        gone == (IF AbsorbedByPrev(b) THEN {b} ELSE {})
                    \cup (IF AbsorbsNext(b) THEN {n} ELSE {})
        behind == IF AbsorbsNext(b) THEN next[n] ELSE n
        total == size[b]
                    + (IF AbsorbsNext(b) THEN Header + size[n] ELSE 0)
                    + (IF AbsorbedByPrev(b) THEN Header + size[keep] ELSE 0)
    IN  /\ pc = "idle"
        /\ owned[p] > 0
        /\ owned' = [owned EXCEPT ![p] = 0]
        /\ blocks' = blocks \ gone
        /\ is_free' = (is_free \cup {b}) \ gone
        /\ size' = [a \in Addresses |-> CASE a = keep -> total
                                          [] a \in gone -> 0
                                          [] OTHER -> size[a]]
        /\ next' = [a \in Addresses |-> CASE a = keep -> behind
                                          [] a \in gone -> Null
                                          [] OTHER -> next[a]]
        /\ prev' = [a \in Addresses |-> CASE a = behind -> keep
                                          [] a \in gone -> Null
                                          [] OTHER -> prev[a]]
        /\ UNCHANGED <<heap_start_block, heap_current_end, frames, pc, asked,
                       old_end, pages>>

(* Between the calls the rest of the kernel takes and returns frames.      *)
OthersUseFrames ==
    /\ pc = "idle"
    /\ frames' \in {frames - 1, frames + 1} \cap 0..MaxFrames
    /\ UNCHANGED <<heap, heap_current_end, pc, asked, old_end, pages>>

Next ==
    \/ \E n \in Requests : Kmalloc(n)
    \/ Found
    \/ NotFound
    \/ GrowPage
    \/ GrowFails
    \/ AppendBlock
    \/ \E p \in Addresses : Kfree(p)
    \/ OthersUseFrames

Spec == Init /\ [][Next]_vars

-----------------------------------------------------------------------------
(* Properties.                                                             *)

End(b) == b + Header + size[b]

(* The list is the blocks in the order of their addresses, whatever was    *)
(* split off and merged: next is the block behind, prev its inverse, and   *)
(* the list begins at heap_start_block.  No block reaches into another one *)
(* or beyond the mapped pages, though pages mapped by a heap_grow that     *)
(* failed lie between blocks that are merged later.                        *)
ListOK ==
    /\ heap_start_block = Null <=> blocks = {}
    /\ blocks # {} => heap_start_block \in blocks
    /\ \A b \in blocks :
          /\ heap_start_block <= b
          /\ End(b) <= heap_current_end
          /\ prev[b] = Null <=> b = heap_start_block
          /\ prev[b] # Null => prev[b] \in blocks /\ next[prev[b]] = b
          /\ next[b] # Null => /\ next[b] \in blocks
                               /\ b < next[b]
                               /\ prev[next[b]] = b
          /\ \A c \in blocks : b < c => /\ next[b] # Null /\ next[b] <= c
                                       /\ End(b) <= c

(* Merging only with the two neighbours is enough: between calls there are *)
(* never two free blocks next to each other.                               *)
Coalesced ==
    pc = "idle" =>
        \A b \in is_free : next[b] # Null => next[b] \notin is_free

(* kmalloc's call to itself finds the block that it has just appended:     *)
(* heap_grow mapped enough, the recursion is one deep.                     *)
GrowsOnce == pc = "retry" => Fit # {}

(* The heap keeps the promise of Allocator.                                *)
Alloc == INSTANCE Allocator WITH First <- HeapStart, Last <- HeapMax

ImplementsAllocator == Alloc!Spec
=============================================================================
