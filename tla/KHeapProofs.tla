---------------------------- MODULE KHeapProofs ----------------------------
(***************************************************************************)
(* Theorems about KHeap for every region, page size, header, rounding and  *)
(* set of requests.                                                        *)
(***************************************************************************)
EXTENDS KHeap, WellFoundedInduction, TLAPS

-----------------------------------------------------------------------------
(* The inductive invariant.                                                *)

(* An address without a header has no fields.                              *)
FieldsOnlyInHeaders ==
    \A a \in Addresses \ blocks : next[a] = Null /\ prev[a] = Null

(* What a caller holds is the payload of a used block, and fits in it.     *)
OwnedIsUsed ==
    \A p \in Addresses : owned[p] > 0 =>
        /\ p - Header \in blocks \ is_free
        /\ owned[p] <= size[p - Header]

(* The region that is mapped is a number of pages away from its limit.     *)
WholePages == \E k \in Nat : heap_current_end + k * PageSize = HeapMax

(* While kmalloc runs it has a size, and while heap_grow runs no block     *)
(* fits, the blocks lie in front of old_end, and the pages mapped and to   *)
(* be mapped are enough.                                                   *)
Growing ==
    /\ pc # "idle" => asked \in Requests
    /\ pc = "grow" =>
          /\ Fit = {}
          /\ \A b \in blocks : End(b) <= old_end
          /\ old_end + Header + Wanted <= heap_current_end + pages * PageSize

(* Only the block that heap_grow appended can follow a free one, and the   *)
(* retry takes it: no other fits.                                          *)
OnlyAppendedFollows ==
    /\ pc # "retry" =>
          \A b \in is_free : next[b] # Null => next[b] \notin is_free
    /\ pc = "retry" =>
          \E f \in is_free :
             /\ Fit = {f}
             /\ next[f] = Null
             /\ \A b \in is_free : next[b] \in is_free => next[b] = f

HeapInv ==
    /\ TypeOK
    /\ ListOK
    /\ FieldsOnlyInHeaders
    /\ OwnedIsUsed
    /\ WholePages
    /\ Growing
    /\ OnlyAppendedFollows

-----------------------------------------------------------------------------
(* Facts about the operators.                                              *)

(* No block is at Null, and the header in front of any address is above 0. *)
LEMMA AddressesAreNat ==
    /\ Addresses \subseteq Nat
    /\ Null \notin Addresses
    /\ HeapStart \in Addresses
    /\ \A a \in Addresses : Header < a
BY RegionAssumption DEF Addresses, Null

(* Division that rounds up is enough.                                      *)
LEMMA DivBounds ==
    ASSUME NEW m \in Nat, NEW d \in Nat \ {0}
    PROVE  /\ (m + d - 1) \div d \in Nat
           /\ m <= ((m + d - 1) \div d) * d
OBVIOUS

(* kmalloc never takes less than it was asked for.                         *)
LEMMA RoundUpBounds ==
    ASSUME NEW n \in Nat
    PROVE  RoundUp(n) \in Nat /\ n <= RoundUp(n)
BY DivBounds, RegionAssumption DEF RoundUp

(* heap_grow maps enough for the block and its header.                     *)
LEMMA PagesEnough ==
    ASSUME NEW n \in Nat
    PROVE  /\ PagesNeeded(n) \in Nat
           /\ n + Header <= PagesNeeded(n) * PageSize
BY DivBounds, RegionAssumption DEF PagesNeeded

(* A page more at the end is a page less to map.                           *)
LEMMA PageLess ==
    ASSUME NEW k \in Nat, k > 0
    PROVE  PageSize + (k - 1) * PageSize = k * PageSize
BY RegionAssumption

(* Below HEAP_MAX there is room for a whole page.                          *)
LEMMA RoomForPage ==
    ASSUME NEW k \in Nat, NEW e \in Nat, e < HeapMax,
           e + k * PageSize = HeapMax
    PROVE  /\ k > 0
           /\ e + PageSize + (k - 1) * PageSize = HeapMax
           /\ e + PageSize <= HeapMax
BY RegionAssumption

(* The region is a whole number of pages.                                  *)
LEMMA RegionIsPages ==
    \E k \in Nat : HeapStart + k * PageSize = HeapMax
BY RegionAssumption

(* Every set of numbers that is not empty has a least one.                 *)
LEMMA LeastExists ==
    ASSUME NEW S \in SUBSET Nat, S # {}
    PROVE  \E x \in S : \A y \in S : x <= y
<1> DEFINE less == {p \in Nat \X Nat : p[1] < p[2]}
<1>1. IsWellFoundedOn(less, Nat)
  BY NatLessThanWellFounded DEF OpToRel
<1> HIDE DEF less
<1>2. PICK x \in S : \A y \in S : ~(<<y, x>> \in less)
  BY <1>1, WFMin
<1>3. ASSUME NEW y \in S PROVE x <= y
  <2>1. y < x => <<y, x>> \in less
    BY DEF less
  <2>2. QED
    BY <1>2, <2>1
<1>4. QED
  BY <1>3

(* What kmalloc wants is a number, and not less than it was asked for.     *)
LEMMA WantedBounds ==
    ASSUME asked \in Requests \cup {0}
    PROVE  Wanted \in Nat /\ asked \in Nat /\ asked <= Wanted
BY RequestsAssumption, RoundUpBounds DEF Wanted

(* The search ends at a free block that is large enough.                   *)
LEMMA BestFitFits ==
    ASSUME TypeOK, Fit # {}
    PROVE  BestFit \in Fit
<1>1. Fit \subseteq Addresses /\ \A b \in Fit : size[b] \in Nat
  BY DEF TypeOK, Fit
<1> DEFINE sizes == {size[b] : b \in Fit}
<1>2. PICK s \in sizes : \A t \in sizes : s <= t
  BY <1>1, LeastExists
<1> DEFINE small == {b \in Fit : size[b] = s}
<1>3. small \in SUBSET Nat /\ small # {}
  BY <1>1, <1>2, AddressesAreNat
<1> HIDE DEF small
<1>4. PICK b \in small : \A c \in small : b <= c
  BY <1>3, LeastExists
<1>5. b \in Fit /\ size[b] = s
  BY <1>4 DEF small
<1>6. ASSUME NEW c \in Fit
      PROVE  size[b] < size[c] \/ (size[b] = size[c] /\ b <= c)
  <2>1. size[b] <= size[c]
    BY <1>2, <1>5, <1>6
  <2>2. size[c] = s => b <= c
    BY <1>4, <1>6 DEF small
  <2>3. QED
    BY <1>1, <1>5, <2>1, <2>2
<1>7. \E x \in Fit : \A c \in Fit :
          size[x] < size[c] \/ (size[x] = size[c] /\ x <= c)
  BY <1>5, <1>6
<1>8. QED
  BY <1>7, Zenon DEF BestFit

(* The block heap_grow appends behind is behind all the others.            *)
LEMMA LastBlockIsLast ==
    ASSUME TypeOK, ListOK, blocks # {}
    PROVE  /\ LastBlock \in blocks
           /\ next[LastBlock] = Null
           /\ \A c \in blocks : c <= LastBlock
<1>1. blocks \subseteq Addresses /\ blocks \subseteq Nat
  BY AddressesAreNat DEF TypeOK
<1> DEFINE room == {k \in Nat : \E b \in blocks : b + k = HeapMax}
<1>2. room \in SUBSET Nat /\ room # {}
  <2>1. PICK b \in blocks : TRUE
    OBVIOUS
  <2>2. HeapMax - b \in Nat /\ b + (HeapMax - b) = HeapMax
    BY <1>1, RegionAssumption DEF Addresses
  <2>3. QED
    BY <2>2
<1>3. PICK r \in room : \A t \in room : r <= t
  BY <1>2, LeastExists
<1>4. PICK b \in blocks : b + r = HeapMax
  BY <1>3
<1>5. ASSUME NEW c \in blocks PROVE c <= b
  <2>1. HeapMax - c \in Nat /\ c + (HeapMax - c) = HeapMax
    BY <1>1, RegionAssumption DEF Addresses
  <2>2. r <= HeapMax - c
    BY <1>3, <2>1
  <2>3. QED
    BY <1>1, <1>4, <2>1, <2>2, RegionAssumption
<1>6. next[b] = Null
  <2>1. next[b] # Null => next[b] \in blocks /\ b < next[b]
    BY <1>4 DEF ListOK
  <2>2. ASSUME next[b] # Null PROVE FALSE
    <3>1. next[b] \in Nat /\ b \in Nat /\ b < next[b] /\ next[b] <= b
      BY <1>1, <1>4, <1>5, <2>1, <2>2
    <3>2. QED
      BY <3>1
  <2>3. QED
    BY <2>2
<1>7. LastBlock \in blocks /\ next[LastBlock] = Null
  BY <1>6, Zenon DEF LastBlock
<1>8. \A c \in blocks : c <= LastBlock
  BY <1>1, <1>7 DEF ListOK
<1>9. QED
  BY <1>7, <1>8

-----------------------------------------------------------------------------
(* kmalloc takes the block that was found.                                 *)

(* A free block that kmalloc may take: it fits, and is not the one before a *)
(* free block.                                                             *)
CanTake(b) ==
    /\ b \in is_free
    /\ Wanted \in Nat
    /\ Wanted <= size[b]
    /\ next[b] \notin is_free

(* What the list says of one block of it, in numbers.                      *)
LEMMA BlockFacts ==
    ASSUME TypeOK, ListOK, NEW b \in blocks
    PROVE  /\ b \in Addresses /\ b \in Nat /\ b # Null
           /\ size[b] \in Nat
           /\ heap_start_block \in Nat /\ heap_start_block <= b
           /\ heap_current_end \in Nat
           /\ End(b) \in Nat /\ b + Header <= End(b)
           /\ End(b) <= heap_current_end
           /\ b + Header \in Addresses
           /\ next[b] # Null => /\ next[b] \in blocks /\ next[b] \in Nat
                                /\ b < next[b] /\ End(b) <= next[b]
                                /\ prev[next[b]] = b
           /\ prev[b] # Null => /\ prev[b] \in blocks /\ prev[b] \in Nat
                                /\ prev[b] < b
                                /\ next[prev[b]] = b
<1>1. blocks \subseteq Addresses /\ blocks \subseteq Nat
  BY AddressesAreNat DEF TypeOK
<1>2. /\ b \in Addresses /\ b \in Nat /\ b # Null
      /\ size[b] \in Nat
      /\ heap_current_end \in Addresses
  BY <1>1, AddressesAreNat DEF TypeOK
<1>3. heap_current_end \in Nat
  BY <1>2, AddressesAreNat
<1>4. heap_start_block \in Nat /\ heap_start_block <= b
  BY <1>1 DEF ListOK
<1>5. End(b) \in Nat /\ b + Header <= End(b)
  BY <1>2, RegionAssumption DEF End
<1>6. End(b) <= heap_current_end
  BY DEF ListOK
<1>7. b + Header \in Addresses
  <2>1. b + Header <= heap_current_end
    BY <1>2, <1>3, <1>5, <1>6, RegionAssumption
  <2>2. QED
    BY <1>2, <2>1, RegionAssumption DEF Addresses
<1>8. ASSUME next[b] # Null
      PROVE  /\ next[b] \in blocks /\ b < next[b] /\ prev[next[b]] = b
             /\ End(b) <= next[b]
  <2>1. next[b] \in blocks /\ b < next[b] /\ prev[next[b]] = b
    BY <1>8 DEF ListOK
  <2>2. QED
    BY <2>1 DEF ListOK
<1>9. ASSUME prev[b] # Null
      PROVE  prev[b] \in blocks /\ next[prev[b]] = b /\ prev[b] < b
  <2>1. prev[b] \in blocks /\ next[prev[b]] = b
    BY <1>9 DEF ListOK
  <2>2. prev[b] < b
    BY <1>2, <2>1 DEF ListOK
  <2>3. QED
    BY <2>1, <2>2
<1>10. QED
  BY <1>1, <1>2, <1>3, <1>4, <1>5, <1>6, <1>7, <1>8, <1>9

(* The blocks behind a block are behind its end, and it has a next one.    *)
LEMMA BehindFacts ==
    ASSUME ListOK, NEW b \in blocks, NEW c \in blocks, b < c
    PROVE  next[b] # Null /\ next[b] <= c /\ End(b) <= c
BY DEF ListOK

(* Where the split puts the rest there is no block yet, and every value    *)
(* after the split is known.                                               *)
LEMMA SplitFacts ==
    ASSUME TypeOK, ListOK, NEW b, CanTake(b), Splits(b), Take(b),
           NEW rest, rest = b + Header + Wanted
    PROVE  /\ rest \in Addresses /\ rest \in Nat /\ rest \notin blocks
           /\ b < rest /\ rest < End(b)
           /\ blocks' = blocks \cup {rest}
           /\ is_free' = (is_free \ {b}) \cup {rest}
           /\ size' \in [Addresses -> Nat]
           /\ next' \in [Addresses -> Addresses \cup {Null}]
           /\ prev' \in [Addresses -> Addresses \cup {Null}]
           /\ size'[b] = Wanted
           /\ next'[b] = rest /\ next'[rest] = next[b] /\ prev'[rest] = b
           /\ rest + Header + size'[rest] = End(b)
           /\ \A x \in Addresses \ {b, rest} :
                 size'[x] = size[x] /\ next'[x] = next[x]
           /\ \A x \in Addresses \ {rest} :
                 prev'[x] = IF x = next[b] THEN rest ELSE prev[x]
<1>1. b \in blocks /\ b \in is_free /\ Wanted \in Nat
  BY DEF TypeOK, CanTake
<1>2. /\ b \in Addresses /\ b \in Nat /\ size[b] \in Nat
      /\ End(b) \in Nat /\ End(b) <= heap_current_end
      /\ heap_current_end \in Nat /\ heap_current_end <= HeapMax
  BY <1>1, BlockFacts, RegionAssumption DEF TypeOK, Addresses
<1>3. Wanted + Header + MinPayload <= size[b]
  BY <1>1, <1>2, RegionAssumption DEF Splits
<1>4. rest \in Nat /\ b < rest /\ rest < End(b) /\ rest <= HeapMax
  BY <1>1, <1>2, <1>3, RegionAssumption DEF End
<1>5. rest \in Addresses
  BY <1>2, <1>4, RegionAssumption DEF Addresses
<1>6. rest \notin blocks
  <2>1. rest \in blocks => End(b) <= rest
    BY <1>1, <1>4, BehindFacts
  <2>2. QED
    BY <1>2, <1>4, <2>1
<1>7. /\ blocks' = blocks \cup {rest}
      /\ is_free' = (is_free \ {b}) \cup {rest}
      /\ size' = [size EXCEPT ![b] = Wanted,
                              ![rest] = size[b] - Wanted - Header]
      /\ next' = [next EXCEPT ![b] = rest, ![rest] = next[b]]
      /\ prev' = [a \in Addresses |->
                     CASE a = rest -> b
                       [] a = next[b] -> rest
                       [] OTHER -> prev[a]]
  BY DEF Take
<1>8. size[b] - Wanted - Header \in Nat
  BY <1>1, <1>2, <1>3, RegionAssumption
<1>9. /\ size \in [Addresses -> Nat]
      /\ next \in [Addresses -> Addresses \cup {Null}]
      /\ prev \in [Addresses -> Addresses \cup {Null}]
  BY DEF TypeOK
<1>10. b # rest
  BY <1>2, <1>4
<1>11. /\ size' \in [Addresses -> Nat]
       /\ size'[b] = Wanted
       /\ size'[rest] = size[b] - Wanted - Header
       /\ \A x \in Addresses \ {b, rest} : size'[x] = size[x]
  BY <1>1, <1>2, <1>5, <1>7, <1>8, <1>9, <1>10
<1>12. /\ next' \in [Addresses -> Addresses \cup {Null}]
       /\ next'[b] = rest /\ next'[rest] = next[b]
       /\ \A x \in Addresses \ {b, rest} : next'[x] = next[x]
  BY <1>2, <1>5, <1>7, <1>9, <1>10
<1>13. /\ prev' \in [Addresses -> Addresses \cup {Null}]
       /\ prev'[rest] = b
       /\ \A x \in Addresses \ {rest} :
             prev'[x] = IF x = next[b] THEN rest ELSE prev[x]
  <2> DEFINE back(a) == CASE a = rest -> b
                          [] a = next[b] -> rest
                          [] OTHER -> prev[a]
  <2>1. \A a \in Addresses :
            back(a) = IF a = rest THEN b ELSE
                      IF a = next[b] THEN rest ELSE prev[a]
    <3>1. next[b] # rest
      BY <1>1, <1>5, <1>6, BlockFacts, AddressesAreNat
    <3>2. QED
      BY <3>1
  <2>2. prev' = [a \in Addresses |-> back(a)]
    BY <1>7
  <2> HIDE DEF back
  <2>3. \A a \in Addresses : prev'[a] = back(a)
    BY <2>2
  <2>4. \A a \in Addresses : back(a) \in Addresses \cup {Null}
    BY <1>2, <1>5, <1>9, <2>1
  <2>5. prev' \in [Addresses -> Addresses \cup {Null}]
    BY <2>2, <2>4
  <2>6. QED
    BY <1>5, <2>1, <2>3, <2>5
<1>14. rest + Header + size'[rest] = End(b)
  BY <1>1, <1>2, <1>11, RegionAssumption DEF End
<1>15. QED
  BY <1>4, <1>5, <1>6, <1>7, <1>11, <1>12, <1>13, <1>14

(* What ListOK says of one block, for the proofs that go block by block.   *)
BlockOK(x) ==
    /\ heap_start_block <= x
    /\ End(x) <= heap_current_end
    /\ prev[x] = Null <=> x = heap_start_block
    /\ prev[x] # Null => prev[x] \in blocks /\ next[prev[x]] = x
    /\ next[x] # Null => /\ next[x] \in blocks
                         /\ x < next[x]
                         /\ prev[next[x]] = x
    /\ \A c \in blocks : x < c => /\ next[x] # Null /\ next[x] <= c
                                 /\ End(x) <= c

(* ListOK, block by block.                                                 *)
LEMMA ListByBlocks ==
    ListOK <=> /\ heap_start_block = Null <=> blocks = {}
               /\ blocks # {} => heap_start_block \in blocks
               /\ \A x \in blocks : BlockOK(x)
BY DEF ListOK, BlockOK

(* A split keeps the list: the rest stands between the block that was      *)
(* split and the one that followed it.                                     *)
LEMMA SplitKeepsList ==
    ASSUME TypeOK, ListOK, NEW b, CanTake(b), Splits(b), Take(b),
           UNCHANGED <<heap_start_block, heap_current_end>>
    PROVE  ListOK'
<1>0. PICK rest : rest = b + Header + Wanted
  OBVIOUS
<1>1. /\ rest \in Addresses /\ rest \in Nat /\ rest \notin blocks
      /\ b < rest /\ rest < End(b)
      /\ blocks' = blocks \cup {rest}
      /\ next'[b] = rest /\ next'[rest] = next[b] /\ prev'[rest] = b
      /\ \A x \in Addresses \ {b, rest} :
            size'[x] = size[x] /\ next'[x] = next[x]
      /\ \A x \in Addresses \ {rest} :
            prev'[x] = IF x = next[b] THEN rest ELSE prev[x]
  BY <1>0, SplitFacts
<1>2. b + Header + size'[b] = rest /\ rest + Header + size'[rest] = End(b)
  BY <1>0, SplitFacts
<1>3. b \in blocks
  BY DEF TypeOK, CanTake
<1>4. blocks \subseteq Addresses /\ Null \notin blocks /\ rest # Null
  BY <1>1, AddressesAreNat DEF TypeOK
<1>5. heap_start_block' = heap_start_block
      /\ heap_current_end' = heap_current_end
  OBVIOUS
<1>6. /\ b \in Nat /\ heap_start_block \in Nat /\ heap_current_end \in Nat
      /\ End(b) \in Nat /\ heap_start_block <= b
      /\ End(b) <= heap_current_end
      /\ next[b] # Null => /\ next[b] \in blocks /\ next[b] \in Nat
                           /\ b < next[b] /\ End(b) <= next[b]
      /\ prev[b] # Null => /\ prev[b] \in blocks /\ prev[b] \in Nat
                           /\ prev[b] < b /\ next[prev[b]] = b
  BY <1>3, BlockFacts
<1>7. ASSUME NEW c \in blocks, b < c
      PROVE  /\ c \in Nat /\ next[b] # Null /\ next[b] <= c
             /\ End(b) <= c /\ rest < c
  <2>1. c \in Nat /\ next[b] # Null /\ next[b] <= c /\ End(b) <= c
    BY <1>3, <1>7, BehindFacts, BlockFacts
  <2>2. QED
    BY <1>1, <1>6, <2>1
<1>8. heap_start_block \in blocks
  BY <1>3 DEF ListOK
<1>9. BlockOK(b)'
  <2>1. heap_start_block' <= b
    BY <1>5, <1>6
  <2>2. End(b)' = rest
    BY <1>2 DEF End
  <2>3. rest <= heap_current_end'
    BY <1>1, <1>5, <1>6
  <2>4. prev'[b] = prev[b]
    BY <1>1, <1>3, <1>4, <1>6
  <2>5. prev[b] = Null <=> b = heap_start_block
    BY <1>3 DEF ListOK
  <2>6. prev[b] # Null => next'[prev[b]] = b /\ prev[b] \in blocks'
    BY <1>1, <1>4, <1>6
  <2>7. \A c \in blocks' : b < c => rest <= c
    BY <1>1, <1>7
  <2>8. QED
    BY <1>1, <1>4, <1>5, <2>1, <2>2, <2>3, <2>4, <2>5, <2>6, <2>7 DEF BlockOK
<1>10. BlockOK(rest)'
  <2>1. heap_start_block' <= rest
    BY <1>1, <1>5, <1>6
  <2>2. End(rest)' = End(b)
    BY <1>2 DEF End
  <2>3. End(b) <= heap_current_end'
    BY <1>5, <1>6
  <2>4. rest # heap_start_block' /\ prev'[rest] # Null
    BY <1>1, <1>3, <1>4, <1>5, <1>8
  <2>5. next[b] # Null => /\ next[b] \in blocks' /\ rest < next[b]
                          /\ prev'[next[b]] = rest
    BY <1>1, <1>4, <1>6, <1>7
  <2>6. ASSUME NEW c \in blocks', rest < c
        PROVE  next[b] # Null /\ next[b] <= c /\ End(b) <= c
    <3>1. c \in blocks /\ b < c
      <4>1. c = rest => FALSE
        BY <1>1, <2>6
      <4>2. c \in blocks
        BY <1>1, <4>1
      <4>3. c \in Nat
        BY <4>2, BlockFacts
      <4>4. QED
        BY <1>1, <1>6, <2>6, <4>2, <4>3
    <3>2. QED
      BY <1>7, <3>1
  <2>7. QED
    BY <1>1, <1>3, <2>1, <2>2, <2>3, <2>4, <2>5, <2>6 DEF BlockOK
<1>11. ASSUME NEW x \in blocks, x # b PROVE BlockOK(x)'
  <2>1. BlockOK(x)
    BY ListByBlocks
  <2>2. /\ x \in Nat /\ x # rest /\ End(x) \in Nat
        /\ next[x] # Null => /\ next[x] \in blocks /\ next[x] \in Nat
        /\ prev[x] # Null => /\ prev[x] \in blocks /\ prev[x] \in Nat
                              /\ next[prev[x]] = x
    BY <1>1, BlockFacts
  <2>3. End(x)' = End(x) /\ next'[x] = next[x]
    BY <1>1, <1>4, <1>11, <2>2 DEF End
  <2>4. prev'[x] = IF x = next[b] THEN rest ELSE prev[x]
    BY <1>1, <1>4, <2>2
  <2>5. next[x] # Null => next[x] # next[b]
    BY <1>3, <1>4, <1>11, <2>1, <2>2, BlockFacts DEF BlockOK
  <2>6. next[x] # Null => prev'[next[x]] = x /\ next[x] \in blocks'
    BY <1>1, <1>4, <2>1, <2>2, <2>5 DEF BlockOK
  <2>7. /\ prev'[x] = Null <=> x = heap_start_block
        /\ prev'[x] # Null => prev'[x] \in blocks' /\ next'[prev'[x]] = x
    <3>1. CASE x = next[b]
      <4>1. prev'[x] = rest /\ prev[x] = b
        BY <1>3, <1>4, <2>4, <3>1, BlockFacts
      <4>2. prev[x] # Null
        BY <1>3, <1>4, <4>1
      <4>3. x # heap_start_block
        BY <2>1, <4>2 DEF BlockOK
      <4>4. QED
        BY <1>1, <1>4, <3>1, <4>1, <4>3
    <3>2. CASE x # next[b]
      <4>1. prev'[x] = prev[x]
        BY <2>4, <3>2
      <4>2. prev[x] # Null => prev[x] # b /\ prev[x] # rest
        BY <1>1, <2>2, <3>2
      <4>3. prev[x] # Null => next'[prev[x]] = x /\ prev[x] \in blocks'
        BY <1>1, <1>4, <2>2, <4>2
      <4>4. QED
        BY <2>1, <4>1, <4>3 DEF BlockOK
    <3>3. QED
      BY <3>1, <3>2
  <2>8. ASSUME NEW c \in blocks', x < c
        PROVE  next[x] # Null /\ next[x] <= c /\ End(x) <= c
    <3>1. CASE c \in blocks
      BY <2>1, <2>8, <3>1 DEF BlockOK
    <3>2. CASE c = rest
      <4>1. x < b
        BY <1>6, <1>7, <1>11, <1>1, <2>2, <2>8, <3>2
      <4>2. next[x] # Null /\ next[x] <= b /\ End(x) <= b
        BY <1>3, <4>1, BehindFacts
      <4>3. QED
        BY <1>1, <1>6, <2>2, <3>2, <4>2
    <3>3. QED
      BY <1>1, <3>1, <3>2
  <2>9. QED
    BY <1>5, <2>1, <2>3, <2>6, <2>7, <2>8 DEF BlockOK
<1>12. heap_start_block' # Null /\ heap_start_block' \in blocks'
  BY <1>1, <1>4, <1>5, <1>8
<1>13. \A x \in blocks' : BlockOK(x)'
  BY <1>1, <1>9, <1>10, <1>11
<1>14. QED
  BY <1>12, <1>13 DEF ListOK, BlockOK

(* The block that is found may be taken: in the retry it is the one that   *)
(* heap_grow appended.                                                     *)
LEMMA FoundCanBeTaken ==
    ASSUME HeapInv, NEW b \in Fit, pc \in {"search", "retry"}
    PROVE  CanTake(b)
<1>1. TypeOK /\ ListOK /\ OnlyAppendedFollows
  BY DEF HeapInv
<1>2. b \in is_free /\ b \in blocks /\ Wanted <= size[b]
  BY <1>1 DEF Fit, TypeOK
<1>3. Wanted \in Nat
  BY <1>1, WantedBounds DEF TypeOK
<1>4. Null \notin is_free
  BY <1>1, AddressesAreNat DEF TypeOK
<1>5. CASE pc = "search"
  BY <1>1, <1>2, <1>3, <1>4, <1>5 DEF OnlyAppendedFollows, CanTake
<1>6. CASE pc = "retry"
  BY <1>1, <1>2, <1>3, <1>4, <1>6 DEF OnlyAppendedFollows, CanTake
<1>7. QED
  BY <1>5, <1>6

(* The blocks after kmalloc took one: the used blocks stay as they are,    *)
(* and no free block follows another one.                                  *)
LEMMA TakeFacts ==
    ASSUME HeapInv, NEW b \in Fit, pc \in {"search", "retry"}, Take(b),
           UNCHANGED <<heap_start_block, heap_current_end>>
    PROVE  /\ ListOK'
           /\ FieldsOnlyInHeaders'
           /\ blocks \subseteq blocks' /\ blocks' \subseteq Addresses
           /\ is_free' \subseteq blocks' /\ b \notin is_free'
           /\ \A x \in blocks \ is_free : x \notin is_free'
           /\ size' \in [Addresses -> Nat]
           /\ next' \in [Addresses -> Addresses \cup {Null}]
           /\ prev' \in [Addresses -> Addresses \cup {Null}]
           /\ Wanted <= size'[b]
           /\ \A x \in blocks \ {b} : size'[x] = size[x]
           /\ \A x \in is_free' : next'[x] \notin is_free'
<1>1. TypeOK /\ ListOK /\ OnlyAppendedFollows /\ FieldsOnlyInHeaders
  BY DEF HeapInv
<1>2. CanTake(b)
  BY FoundCanBeTaken
<1>3. /\ b \in is_free /\ b \in blocks /\ Wanted <= size[b]
      /\ Wanted \in Nat /\ next[b] \notin is_free
  BY <1>1, <1>2 DEF CanTake, TypeOK
<1>4. blocks \subseteq Addresses /\ is_free \subseteq blocks
      /\ Null \notin blocks
  BY <1>1, AddressesAreNat DEF TypeOK
<1>5. ASSUME NEW x \in is_free, x # b
      PROVE  next[x] \in blocks \cup {Null}
             /\ next[x] \notin is_free \ {b}
  <2>1. next[x] \in blocks \cup {Null}
    BY <1>1, <1>4, BlockFacts
  <2>2. CASE pc = "search"
    <3>1. \A y \in is_free : next[y] # Null => next[y] \notin is_free
      BY <1>1, <2>2, Zenon DEF OnlyAppendedFollows
    <3>2. QED
      BY <1>4, <1>5, <2>1, <3>1
  <2>3. CASE pc = "retry"
    <3>1. PICK f \in is_free :
             Fit = {f} /\ \A y \in is_free : next[y] \in is_free => next[y] = f
      BY <1>1, <2>3, Zenon DEF OnlyAppendedFollows
    <3>2. QED
      BY <1>5, <2>1, <3>1
  <2>4. QED
    BY <2>1, <2>2, <2>3
<1>6. CASE Splits(b)
  <2>0. PICK rest : rest = b + Header + Wanted
    OBVIOUS
  <2>1. /\ rest \in Addresses /\ rest \notin blocks
        /\ blocks' = blocks \cup {rest}
        /\ is_free' = (is_free \ {b}) \cup {rest}
        /\ size' \in [Addresses -> Nat]
        /\ next' \in [Addresses -> Addresses \cup {Null}]
        /\ prev' \in [Addresses -> Addresses \cup {Null}]
        /\ size'[b] = Wanted
        /\ next'[b] = rest /\ next'[rest] = next[b]
        /\ \A x \in Addresses \ {b, rest} :
              size'[x] = size[x] /\ next'[x] = next[x]
        /\ \A x \in Addresses \ {rest} :
              prev'[x] = IF x = next[b] THEN rest ELSE prev[x]
    BY <1>1, <1>2, <1>6, <2>0, SplitFacts
  <2>2. ListOK'
    BY <1>1, <1>2, <1>6, SplitKeepsList
  <2>3. next[b] \in blocks \cup {Null}
    BY <1>1, <1>3, BlockFacts
  <2>4. FieldsOnlyInHeaders'
    <3>1. ASSUME NEW a \in Addresses \ blocks'
          PROVE  next'[a] = Null /\ prev'[a] = Null
      <4>1. a \notin blocks /\ a # rest /\ a # b /\ a # next[b]
        BY <1>3, <2>1, <2>3, <3>1, AddressesAreNat
      <4>2. next'[a] = next[a] /\ prev'[a] = prev[a]
        BY <2>1, <4>1
      <4>3. QED
        BY <1>1, <4>1, <4>2 DEF FieldsOnlyInHeaders
    <3>2. QED
      BY <3>1 DEF FieldsOnlyInHeaders
  <2>5. b # rest /\ rest # Null
    BY <1>3, <2>1, AddressesAreNat
  <2>6. ASSUME NEW x \in is_free' PROVE next'[x] \notin is_free'
    <3>1. CASE x = rest
      BY <1>3, <2>1, <2>3, <2>5, <3>1
    <3>2. CASE x # rest
      <4>1. x \in is_free /\ x # b
        BY <2>1, <3>2
      <4>2. next'[x] = next[x]
        BY <1>4, <2>1, <3>2, <4>1
      <4>3. QED
        BY <1>5, <2>1, <2>5, <4>1, <4>2
    <3>3. QED
      BY <3>1, <3>2
  <2>7. b \notin is_free' /\ \A x \in blocks \ is_free : x \notin is_free'
    BY <2>1, <2>5
  <2>8. \A x \in blocks \ {b} : size'[x] = size[x]
    BY <1>4, <2>1
  <2>9. Wanted <= size'[b]
    BY <1>3, <2>1
  <2>10. QED
    BY <1>4, <2>1, <2>2, <2>4, <2>6, <2>7, <2>8, <2>9
<1>7. CASE ~Splits(b)
  <2>1. /\ blocks' = blocks /\ size' = size /\ next' = next
        /\ prev' = prev /\ is_free' = is_free \ {b}
        /\ heap_start_block' = heap_start_block
        /\ heap_current_end' = heap_current_end
    BY <1>7 DEF Take
  <2>2. ListOK'
    BY <1>1, <2>1 DEF ListOK, End
  <2>3. FieldsOnlyInHeaders'
    BY <1>1, <2>1 DEF FieldsOnlyInHeaders
  <2>4. \A x \in is_free' : next'[x] \notin is_free'
    BY <1>5, <2>1
  <2>5. QED
    BY <1>1, <1>3, <1>4, <2>1, <2>2, <2>3, <2>4 DEF TypeOK
<1>8. QED
  BY <1>6, <1>7

(* kmalloc's return keeps the invariant.                                   *)
LEMMA FoundKeepsInv ==
    HeapInv /\ Found => HeapInv'
<1> SUFFICES ASSUME HeapInv, Found PROVE HeapInv'
  OBVIOUS
<1>1. PICK b : b = BestFit
  OBVIOUS
<1>2. /\ TypeOK /\ OwnedIsUsed /\ WholePages /\ Growing /\ ListOK
      /\ FieldsOnlyInHeaders
  BY DEF HeapInv
<1>3. /\ pc \in {"search", "retry"} /\ Take(b)
      /\ owned' = [owned EXCEPT ![b + Header] = asked]
      /\ pc' = "idle" /\ asked' = 0
      /\ heap_start_block' = heap_start_block
      /\ heap_current_end' = heap_current_end
      /\ frames' = frames /\ old_end' = old_end /\ pages' = pages
  BY <1>1 DEF Found
<1>4. b \in Fit
  BY <1>1, <1>2, BestFitFits DEF Found
<1>5. /\ ListOK' /\ FieldsOnlyInHeaders'
      /\ blocks \subseteq blocks' /\ blocks' \subseteq Addresses
      /\ is_free' \subseteq blocks' /\ b \notin is_free'
      /\ \A x \in blocks \ is_free : x \notin is_free'
      /\ size' \in [Addresses -> Nat]
      /\ next' \in [Addresses -> Addresses \cup {Null}]
      /\ prev' \in [Addresses -> Addresses \cup {Null}]
      /\ Wanted <= size'[b]
      /\ \A x \in blocks \ {b} : size'[x] = size[x]
      /\ \A x \in is_free' : next'[x] \notin is_free'
  BY <1>3, <1>4, TakeFacts
<1>6. asked \in Requests
  BY <1>2, <1>3 DEF Growing
<1>7. b \in blocks /\ b \in is_free /\ b + Header \in Addresses /\ b \in Nat
  BY <1>2, <1>4, BlockFacts DEF Fit, TypeOK
<1>8. TypeOK'
  BY <1>2, <1>3, <1>5, <1>6 DEF TypeOK
<1>9. OwnedIsUsed'
  <2> SUFFICES ASSUME NEW p \in Addresses, owned'[p] > 0
               PROVE  /\ p - Header \in blocks' \ is_free'
                      /\ owned'[p] <= size'[p - Header]
    BY DEF OwnedIsUsed
  <2>1. CASE p = b + Header
    <3>1. p - Header = b
      BY <1>7, <2>1, RegionAssumption
    <3>2. owned'[p] = asked
      BY <1>2, <1>3, <2>1 DEF TypeOK
    <3>3. asked <= Wanted /\ asked \in Nat /\ Wanted \in Nat
      BY <1>2, WantedBounds DEF TypeOK
    <3>4. size'[b] \in Nat
      BY <1>5, <1>7
    <3>5. asked <= size'[b]
      BY <1>5, <3>3, <3>4
    <3>6. QED
      BY <1>5, <1>7, <3>1, <3>2, <3>5
  <2>2. CASE p # b + Header
    <3>1. owned'[p] = owned[p]
      BY <1>2, <1>3, <2>2 DEF TypeOK
    <3>2. p - Header \in blocks \ is_free /\ owned[p] <= size[p - Header]
      BY <1>2, <3>1 DEF OwnedIsUsed
    <3>3. QED
      BY <1>5, <1>7, <3>1, <3>2
  <2>3. QED
    BY <2>1, <2>2
<1>10. WholePages'
  BY <1>2, <1>3 DEF WholePages
<1>11. Growing'
  BY <1>3 DEF Growing
<1>12. OnlyAppendedFollows'
  BY <1>3, <1>5 DEF OnlyAppendedFollows
<1>13. QED
  BY <1>5, <1>8, <1>9, <1>10, <1>11, <1>12 DEF HeapInv

-----------------------------------------------------------------------------
(* heap_grow.                                                              *)

(* The steps that leave the blocks alone keep what is said of them.        *)
LEMMA HeapUnchanged ==
    ASSUME HeapInv, UNCHANGED heap,
           heap_current_end' \in Addresses,
           heap_current_end <= heap_current_end'
    PROVE  /\ ListOK' /\ FieldsOnlyInHeaders' /\ OwnedIsUsed'
           /\ pc # "retry" /\ pc' # "retry" => OnlyAppendedFollows'
<1>1. TypeOK /\ ListOK /\ FieldsOnlyInHeaders /\ OwnedIsUsed
      /\ OnlyAppendedFollows
  BY DEF HeapInv
<1>2. /\ heap_start_block' = heap_start_block /\ blocks' = blocks
      /\ size' = size /\ next' = next /\ prev' = prev
      /\ is_free' = is_free /\ owned' = owned
  BY DEF heap
<1>3. \A x \in blocks : End(x)' = End(x)
  BY <1>2 DEF End
<1>4. \A x \in blocks : End(x) <= heap_current_end'
  <2>1. ASSUME NEW x \in blocks PROVE End(x) <= heap_current_end'
    <3>1. /\ End(x) \in Nat /\ heap_current_end \in Nat
          /\ End(x) <= heap_current_end
      BY <1>1, BlockFacts
    <3>2. heap_current_end' \in Nat
      BY AddressesAreNat
    <3>3. QED
      BY <3>1, <3>2
  <2>2. QED
    BY <2>1
<1>5. ListOK'
  BY <1>1, <1>2, <1>3, <1>4 DEF ListOK
<1>6. FieldsOnlyInHeaders' /\ OwnedIsUsed'
  BY <1>1, <1>2 DEF FieldsOnlyInHeaders, OwnedIsUsed
<1>7. pc # "retry" /\ pc' # "retry" => OnlyAppendedFollows'
  BY <1>1, <1>2 DEF OnlyAppendedFollows
<1>8. QED
  BY <1>5, <1>6, <1>7

(* A call that begins keeps the invariant.                                 *)
LEMMA KmallocKeepsInv ==
    ASSUME HeapInv, NEW n \in Requests, Kmalloc(n)
    PROVE  HeapInv'
<1>1. TypeOK /\ WholePages
  BY DEF HeapInv
<1>2. /\ pc = "idle" /\ pc' = "search" /\ asked' = n
      /\ heap_current_end' = heap_current_end /\ frames' = frames
      /\ old_end' = old_end /\ pages' = pages /\ UNCHANGED heap
  BY DEF Kmalloc
<1>3. heap_current_end' \in Addresses /\ heap_current_end <= heap_current_end'
  BY <1>1, <1>2, AddressesAreNat DEF TypeOK
<1>4. /\ ListOK' /\ FieldsOnlyInHeaders' /\ OwnedIsUsed'
      /\ OnlyAppendedFollows'
  BY <1>2, <1>3, HeapUnchanged
<1>5. TypeOK'
  BY <1>1, <1>2 DEF TypeOK, heap
<1>6. WholePages' /\ Growing'
  BY <1>1, <1>2 DEF WholePages, Growing
<1>7. QED
  BY <1>4, <1>5, <1>6 DEF HeapInv

(* A search that finds nothing leaves the blocks in front of old_end, and  *)
(* asks for enough pages.                                                  *)
LEMMA NotFoundKeepsInv ==
    ASSUME HeapInv, NotFound
    PROVE  HeapInv'
<1>1. TypeOK /\ WholePages /\ Growing /\ ListOK /\ OnlyAppendedFollows
  BY DEF HeapInv
<1>2. /\ pc \in {"search", "retry"} /\ Fit = {} /\ pc' = "grow"
      /\ old_end' = heap_current_end /\ pages' = PagesNeeded(Wanted)
      /\ heap_current_end' = heap_current_end /\ frames' = frames
      /\ asked' = asked /\ UNCHANGED heap
  BY DEF NotFound
<1>3. heap_current_end' \in Addresses /\ heap_current_end <= heap_current_end'
  BY <1>1, <1>2, AddressesAreNat DEF TypeOK
<1>4. pc # "retry"
  <2>1. pc = "retry" => Fit # {}
    BY <1>1 DEF OnlyAppendedFollows
  <2>2. QED
    BY <1>2, <2>1
<1>5. /\ ListOK' /\ FieldsOnlyInHeaders' /\ OwnedIsUsed'
      /\ OnlyAppendedFollows'
  BY <1>2, <1>3, <1>4, HeapUnchanged
<1>6. Wanted \in Nat
  BY <1>1, WantedBounds DEF TypeOK
<1>7. PagesNeeded(Wanted) \in Nat
      /\ Wanted + Header <= PagesNeeded(Wanted) * PageSize
  BY <1>6, PagesEnough
<1>8. TypeOK'
  BY <1>1, <1>2, <1>7 DEF TypeOK, heap
<1>9. Growing'
  <2>1. asked \in Requests
    BY <1>1, <1>2 DEF Growing
  <2>2. Fit' = {} /\ Wanted' = Wanted
    BY <1>2 DEF Fit, Wanted, heap
  <2>3. \A x \in blocks' : End(x)' <= old_end'
    BY <1>1, <1>2 DEF ListOK, End, heap
  <2>4. old_end' + Header + Wanted' <= heap_current_end' + pages' * PageSize
    <3>1. heap_current_end \in Nat
      BY <1>1, AddressesAreNat DEF TypeOK
    <3>2. heap_current_end + Header + Wanted
              <= heap_current_end + PagesNeeded(Wanted) * PageSize
      <4>1. PagesNeeded(Wanted) * PageSize \in Nat
        BY <1>7, RegionAssumption
      <4> DEFINE mapped == PagesNeeded(Wanted) * PageSize
      <4> HIDE DEF mapped
      <4>2. Wanted + Header <= mapped /\ mapped \in Nat
        BY <1>7, <4>1 DEF mapped
      <4>3. heap_current_end + Header + Wanted <= heap_current_end + mapped
        BY <1>6, <3>1, <4>2, RegionAssumption
      <4>4. QED
        BY <4>3 DEF mapped
    <3>3. QED
      BY <1>2, <2>2, <3>2
  <2>5. QED
    BY <1>2, <2>1, <2>2, <2>3, <2>4 DEF Growing
<1>10. WholePages'
  BY <1>1, <1>2 DEF WholePages
<1>11. QED
  BY <1>5, <1>8, <1>9, <1>10 DEF HeapInv

(* A page that is mapped stays within the region and counts as mapped.     *)
LEMMA GrowPageKeepsInv ==
    ASSUME HeapInv, GrowPage
    PROVE  HeapInv'
<1>1. TypeOK /\ WholePages /\ Growing /\ OnlyAppendedFollows
  BY DEF HeapInv
<1>2. /\ pc = "grow" /\ pages > 0 /\ heap_current_end < HeapMax
      /\ frames > 0 /\ frames' = frames - FramesForPage
      /\ heap_current_end' = heap_current_end + PageSize
      /\ pages' = pages - 1 /\ pc' = pc /\ asked' = asked
      /\ old_end' = old_end /\ UNCHANGED heap
  BY DEF GrowPage
<1>3. heap_current_end \in Nat /\ HeapStart <= heap_current_end
  BY <1>1, RegionAssumption DEF TypeOK, Addresses
<1>4. PICK k \in Nat : heap_current_end + k * PageSize = HeapMax
  BY <1>1 DEF WholePages
<1>5. /\ k - 1 \in Nat
      /\ heap_current_end + PageSize + (k - 1) * PageSize = HeapMax
      /\ heap_current_end + PageSize <= HeapMax
  BY <1>2, <1>3, <1>4, RoomForPage
<1>6. heap_current_end' \in Addresses /\ heap_current_end <= heap_current_end'
  BY <1>2, <1>3, <1>5, RegionAssumption DEF Addresses
<1>7. WholePages'
  BY <1>2, <1>5 DEF WholePages
<1>8. frames' \in 0..MaxFrames /\ pages' \in Nat
  BY <1>1, <1>2, FramesAssumption DEF TypeOK, FramesForPage
<1>9. TypeOK'
  BY <1>1, <1>2, <1>6, <1>8 DEF TypeOK, heap
<1>10. /\ ListOK' /\ FieldsOnlyInHeaders' /\ OwnedIsUsed'
       /\ OnlyAppendedFollows'
  BY <1>2, <1>6, HeapUnchanged
<1>11. Growing'
  <2>1. asked \in Requests /\ Fit = {} /\ (\A x \in blocks : End(x) <= old_end)
        /\ old_end + Header + Wanted <= heap_current_end + pages * PageSize
    BY <1>1, <1>2 DEF Growing
  <2>2. Fit' = {} /\ Wanted' = Wanted
    BY <1>2, <2>1 DEF Fit, Wanted, heap
  <2>3. \A x \in blocks' : End(x)' <= old_end'
    BY <1>2, <2>1 DEF End, heap
  <2>4. heap_current_end' + pages' * PageSize
            = heap_current_end + pages * PageSize
    <3>1. pages \in Nat
      BY <1>1 DEF TypeOK
    <3>2. PageSize + (pages - 1) * PageSize = pages * PageSize
      BY <1>2, <3>1, PageLess
    <3>3. (pages - 1) * PageSize \in Nat
      BY <1>2, <3>1, RegionAssumption
    <3>4. QED
      BY <1>2, <1>3, <3>2, <3>3, RegionAssumption
  <2>5. QED
    BY <1>2, <2>1, <2>2, <2>3, <2>4 DEF Growing
<1>12. QED
  BY <1>7, <1>9, <1>10, <1>11 DEF HeapInv

(* A growth that fails leaves its pages and the blocks.                    *)
LEMMA GrowFailsKeepsInv ==
    ASSUME HeapInv, GrowFails
    PROVE  HeapInv'
<1>1. TypeOK /\ WholePages
  BY DEF HeapInv
<1>2. /\ pc = "grow" /\ pc' = "idle" /\ asked' = 0 /\ pages' = 0
      /\ old_end' = HeapStart /\ heap_current_end' = heap_current_end
      /\ frames' = frames /\ UNCHANGED heap
  BY DEF GrowFails
<1>3. heap_current_end' \in Addresses /\ heap_current_end <= heap_current_end'
  BY <1>1, <1>2, AddressesAreNat DEF TypeOK
<1>4. /\ ListOK' /\ FieldsOnlyInHeaders' /\ OwnedIsUsed'
      /\ OnlyAppendedFollows'
  BY <1>2, <1>3, HeapUnchanged
<1>5. TypeOK'
  BY <1>1, <1>2, AddressesAreNat DEF TypeOK, heap
<1>6. WholePages' /\ Growing'
  BY <1>1, <1>2 DEF WholePages, Growing
<1>7. QED
  BY <1>4, <1>5, <1>6 DEF HeapInv

(* What the rest of the kernel does with the frames is none of the heap's. *)
LEMMA OthersKeepInv ==
    ASSUME HeapInv, OthersUseFrames
    PROVE  HeapInv'
<1>1. TypeOK /\ WholePages
  BY DEF HeapInv
<1>2. /\ pc = "idle" /\ pc' = pc /\ frames' \in 0..MaxFrames
      /\ asked' = asked /\ pages' = pages /\ old_end' = old_end
      /\ heap_current_end' = heap_current_end /\ UNCHANGED heap
  BY DEF OthersUseFrames
<1>3. heap_current_end' \in Addresses /\ heap_current_end <= heap_current_end'
  BY <1>1, <1>2, AddressesAreNat DEF TypeOK
<1>4. /\ ListOK' /\ FieldsOnlyInHeaders' /\ OwnedIsUsed'
      /\ OnlyAppendedFollows'
  BY <1>2, <1>3, HeapUnchanged
<1>5. TypeOK'
  BY <1>1, <1>2 DEF TypeOK, heap
<1>6. WholePages' /\ Growing'
  BY <1>1, <1>2 DEF WholePages, Growing
<1>7. QED
  BY <1>4, <1>5, <1>6 DEF HeapInv

(* The new block is the last of the list, whether the list was empty or    *)
(* not.                                                                    *)
LEMMA AppendKeepsList ==
    ASSUME HeapInv, AppendBlock, NEW e, e = old_end
    PROVE  /\ ListOK' /\ FieldsOnlyInHeaders'
           /\ next' \in [Addresses -> Addresses \cup {Null}]
           /\ prev' \in [Addresses -> Addresses \cup {Null}]
           /\ heap_start_block' \in Addresses
           /\ e \in Addresses /\ e \notin blocks /\ next'[e] = Null
           /\ \A x \in blocks : next'[x] = next[x] \/ next'[x] = e
           /\ Wanted <= size'[e] /\ size' \in [Addresses -> Nat]
           /\ \A x \in blocks : size'[x] = size[x]
<1>1. /\ TypeOK /\ ListOK /\ FieldsOnlyInHeaders /\ Growing
  BY DEF HeapInv
<1>2. /\ pc = "grow" /\ pages = 0
      /\ blocks' = blocks \cup {e}
      /\ size' = [size EXCEPT ![e] = heap_current_end - e - Header]
      /\ heap_current_end' = heap_current_end
  BY DEF AppendBlock
<1>3. /\ \A b \in blocks : End(b) <= e
      /\ e + Header + Wanted <= heap_current_end
  <2>1. heap_current_end + pages * PageSize = heap_current_end
    BY <1>1, <1>2, RegionAssumption DEF TypeOK, Addresses
  <2>2. QED
    BY <1>1, <1>2, <2>1 DEF Growing
<1>4. /\ e \in Addresses /\ e \in Nat /\ e # Null
      /\ heap_current_end \in Nat /\ Wanted \in Nat
  BY <1>1, AddressesAreNat, WantedBounds DEF TypeOK
<1>5. \A x \in blocks : x \in Nat /\ x \in Addresses /\ x < e
  <2>1. ASSUME NEW x \in blocks
        PROVE  x \in Nat /\ x \in Addresses /\ x < e
    <3>1. /\ x \in Nat /\ x \in Addresses /\ End(x) \in Nat
          /\ x + Header <= End(x)
      BY <1>1, BlockFacts
    <3>2. End(x) <= e
      BY <1>3
    <3>3. QED
      BY <1>4, <3>1, <3>2, RegionAssumption
  <2>2. QED
    BY <2>1
<1>6. e \notin blocks
  BY <1>4, <1>5
<1>7. /\ heap_current_end - e - Header \in Nat
      /\ Wanted <= heap_current_end - e - Header
      /\ e <= heap_current_end
      /\ e + Header + (heap_current_end - e - Header) = heap_current_end
  BY <1>3, <1>4, RegionAssumption
<1>8. /\ size' \in [Addresses -> Nat]
      /\ size'[e] = heap_current_end - e - Header
      /\ \A x \in blocks : size'[x] = size[x]
  BY <1>1, <1>2, <1>4, <1>6, <1>7 DEF TypeOK
<1>9. /\ End(e)' = heap_current_end
      /\ \A x \in blocks : End(x)' = End(x)
  BY <1>7, <1>8 DEF End
<1>10. next[e] = Null /\ prev[e] = Null
  BY <1>1, <1>4, <1>6 DEF FieldsOnlyInHeaders
<1>11. CASE heap_start_block = Null
  <2>1. /\ blocks = {} /\ blocks' = {e} /\ heap_start_block' = e
        /\ next' = next /\ prev' = prev
    BY <1>1, <1>2, <1>11 DEF AppendBlock, ListOK
  <2>2. BlockOK(e)'
    BY <1>2, <1>4, <1>7, <1>9, <1>10, <2>1 DEF BlockOK
  <2>3. ListOK'
    BY <1>4, <2>1, <2>2 DEF ListOK, BlockOK
  <2>4. FieldsOnlyInHeaders'
    BY <1>1, <2>1 DEF FieldsOnlyInHeaders
  <2>5. QED
    BY <1>1, <1>4, <1>6, <1>7, <1>8, <1>10, <2>1, <2>3, <2>4 DEF TypeOK
<1>12. CASE heap_start_block # Null
  <2>1. /\ blocks # {} /\ heap_start_block \in blocks
        /\ heap_start_block' = heap_start_block
    BY <1>1, <1>12 DEF AppendBlock, ListOK
  <2>2. PICK l : l = LastBlock
    OBVIOUS
  <2>3. /\ l \in blocks /\ next[l] = Null
        /\ \A c \in blocks : c <= l
    BY <1>1, <2>1, <2>2, LastBlockIsLast
  <2>4. /\ next' = [next EXCEPT ![l] = e]
        /\ prev' = [prev EXCEPT ![e] = l]
    BY <1>12, <2>2 DEF AppendBlock
  <2>5. /\ l \in Addresses /\ l # e /\ l # Null
    BY <1>1, <1>5, <1>6, <2>3, BlockFacts
  <2>6. /\ next' \in [Addresses -> Addresses \cup {Null}]
        /\ prev' \in [Addresses -> Addresses \cup {Null}]
        /\ next'[l] = e /\ prev'[e] = l
        /\ \A a \in Addresses \ {l} : next'[a] = next[a]
        /\ \A a \in Addresses \ {e} : prev'[a] = prev[a]
    BY <1>1, <1>4, <2>4, <2>5 DEF TypeOK
  <2>7. next'[e] = Null
    BY <1>4, <1>10, <2>5, <2>6
  <2>8. BlockOK(e)'
    <3>1. heap_start_block' <= e /\ e # heap_start_block'
      BY <1>4, <1>5, <2>1
    <3>2. End(e)' <= heap_current_end'
      BY <1>2, <1>4, <1>9
    <3>3. \A c \in blocks' : ~(e < c)
      BY <1>2, <1>4, <1>5
    <3>4. QED
      BY <1>2, <2>3, <2>5, <2>6, <2>7, <3>1, <3>2, <3>3 DEF BlockOK
  <2>9. ASSUME NEW x \in blocks PROVE BlockOK(x)'
    <3>1. /\ BlockOK(x) /\ x # e /\ x \in Nat /\ x < e /\ x \in Addresses
          /\ next[x] # Null => next[x] \in blocks /\ prev[next[x]] = x
          /\ prev[x] # Null => prev[x] \in blocks /\ next[prev[x]] = x
      BY <1>1, <1>5, <1>6, BlockFacts, ListByBlocks
    <3>2. heap_start_block' <= x /\ End(x)' <= heap_current_end'
      BY <1>2, <1>9, <2>1, <3>1 DEF BlockOK
    <3>3. prev'[x] = prev[x]
      BY <2>6, <3>1
    <3>4. prev[x] # Null => prev[x] # l
      BY <1>1, <2>3, <3>1, BlockFacts
    <3>5. prev'[x] # Null => prev'[x] \in blocks' /\ next'[prev'[x]] = x
      BY <1>2, <1>5, <2>6, <3>1, <3>3, <3>4
    <3>6. prev'[x] = Null <=> x = heap_start_block'
      BY <2>1, <3>1, <3>3 DEF BlockOK
    <3>7. CASE x = l
      <4>1. \A c \in blocks' : x < c => c = e
        <5>1. \A c \in blocks : c \in Nat /\ c <= x
          BY <1>5, <2>3, <3>7
        <5>2. \A c \in blocks : ~(x < c)
          BY <3>1, <5>1
        <5>3. QED
          BY <1>2, <5>2
      <4>2. End(x)' <= e
        BY <1>3, <1>9
      <4>3. next'[x] = e /\ e \in blocks' /\ prev'[e] = x /\ x < e /\ e <= e
        BY <1>2, <1>4, <2>6, <3>1, <3>7
      <4>4. \A c \in blocks' : x < c => /\ next'[x] # Null /\ next'[x] <= c
                                       /\ End(x)' <= c
        BY <1>4, <4>1, <4>2, <4>3
      <4>5. QED
        BY <3>2, <3>5, <3>6, <4>3, <4>4 DEF BlockOK
    <3>8. CASE x # l
      <4>1. next'[x] = next[x]
        BY <2>6, <3>1, <3>8
      <4>2. x < l /\ l \in Nat
        <5>1. l \in Nat /\ x <= l
          BY <1>5, <2>3
        <5>2. QED
          BY <3>1, <3>8, <5>1
      <4>3. next[x] # Null /\ next[x] <= l
        BY <1>1, <2>3, <4>2, BehindFacts
      <4>4. next[x] \in blocks /\ prev[next[x]] = x /\ x < next[x]
        BY <3>1, <4>3 DEF BlockOK
      <4>5. prev'[next[x]] = x
        BY <1>5, <1>6, <2>6, <4>4
      <4>6. next[x] <= e /\ End(x) <= e
        BY <1>3, <1>4, <1>5, <4>4
      <4>7. \A c \in blocks' : x < c => next[x] <= c /\ End(x) <= c
        BY <1>2, <3>1, <4>6 DEF BlockOK
      <4>8. QED
        BY <1>2, <1>9, <3>2, <3>5, <3>6, <4>1, <4>3, <4>4, <4>5, <4>7
           DEF BlockOK
    <3>9. QED
      BY <3>7, <3>8
  <2>10. \A x \in blocks' : BlockOK(x)'
    BY <1>2, <2>8, <2>9
  <2>11. ListOK'
    BY <1>2, <1>12, <2>1, <2>10 DEF ListOK, BlockOK
  <2>12. FieldsOnlyInHeaders'
    BY <1>1, <1>2, <2>3, <2>6 DEF FieldsOnlyInHeaders
  <2>13. \A x \in blocks : next'[x] = next[x] \/ next'[x] = e
    BY <1>5, <2>6
  <2>14. heap_start_block' \in Addresses
    BY <1>5, <2>1
  <2>15. QED
    BY <1>4, <1>6, <1>7, <1>8, <2>6, <2>7, <2>11, <2>12, <2>13, <2>14
<1>13. QED
  BY <1>11, <1>12

(* The block that was appended fits, is the only one, and the only one     *)
(* that may follow a free block.                                           *)
LEMMA AppendKeepsInv ==
    ASSUME HeapInv, AppendBlock
    PROVE  HeapInv'
<1>0. PICK e : e = old_end
  OBVIOUS
<1>1. /\ TypeOK /\ OwnedIsUsed /\ WholePages /\ Growing
      /\ OnlyAppendedFollows
  BY DEF HeapInv
<1>2. /\ pc = "grow" /\ pc' = "retry" /\ old_end' = HeapStart
      /\ blocks' = blocks \cup {e} /\ is_free' = is_free \cup {e}
      /\ heap_current_end' = heap_current_end /\ owned' = owned
      /\ frames' = frames /\ asked' = asked /\ pages' = pages
  BY <1>0 DEF AppendBlock
<1>3. /\ ListOK' /\ FieldsOnlyInHeaders'
      /\ next' \in [Addresses -> Addresses \cup {Null}]
      /\ prev' \in [Addresses -> Addresses \cup {Null}]
      /\ heap_start_block' \in Addresses
      /\ e \in Addresses /\ e \notin blocks /\ next'[e] = Null
      /\ \A x \in blocks : next'[x] = next[x] \/ next'[x] = e
      /\ Wanted <= size'[e] /\ size' \in [Addresses -> Nat]
      /\ \A x \in blocks : size'[x] = size[x]
  BY <1>0, AppendKeepsList
<1>4. TypeOK'
  BY <1>1, <1>2, <1>3, AddressesAreNat DEF TypeOK
<1>5. OwnedIsUsed'
  BY <1>1, <1>2, <1>3 DEF OwnedIsUsed
<1>6. WholePages' /\ Growing'
  BY <1>1, <1>2 DEF WholePages, Growing
<1>7. Wanted' = Wanted
  BY <1>2 DEF Wanted
<1>8. Fit' = {e}
  <2>1. is_free \subseteq blocks /\ Fit = {}
    BY <1>1, <1>2 DEF TypeOK, Growing
  <2>2. \A x \in is_free : ~(size[x] >= Wanted)
    BY <2>1 DEF Fit
  <2>3. \A x \in is_free : ~(size'[x] >= Wanted')
    BY <1>3, <1>7, <2>1, <2>2
  <2>4. size'[e] >= Wanted'
    <3>1. size'[e] \in Nat /\ Wanted \in Nat
      BY <1>1, <1>3, WantedBounds DEF TypeOK
    <3>2. QED
      BY <1>3, <1>7, <3>1
  <2>5. QED
    BY <1>2, <2>3, <2>4 DEF Fit
<1>9. OnlyAppendedFollows'
  <2>1. ASSUME NEW x \in is_free', next'[x] \in is_free' PROVE next'[x] = e
    <3>1. next'[x] # Null
      BY <1>2, <1>3, <1>1, <2>1, AddressesAreNat DEF TypeOK
    <3>2. x # e /\ x \in is_free /\ x \in blocks
      BY <1>1, <1>2, <1>3, <2>1, <3>1 DEF TypeOK
    <3>3. next[x] # Null => next[x] \notin is_free
      BY <1>1, <1>2, <3>2, Zenon DEF OnlyAppendedFollows
    <3>4. QED
      BY <1>2, <1>3, <2>1, <3>1, <3>2, <3>3
  <2>2. QED
    BY <1>2, <1>3, <1>8, <2>1 DEF OnlyAppendedFollows
<1>10. QED
  BY <1>3, <1>4, <1>5, <1>6, <1>9 DEF HeapInv

-----------------------------------------------------------------------------
(* kfree.                                                                  *)

(* A run of blocks of the list becomes one: keep is the first of it, gone  *)
(* the others, behind the block that follows them, or Null.                *)
Merges(keep, gone, behind, total) ==
    /\ keep \in blocks /\ gone \subseteq blocks /\ keep \notin gone
    /\ behind \in blocks \cup {Null} /\ behind \notin gone
    /\ behind # keep
    /\ heap_start_block \notin gone
    /\ total \in Nat /\ keep + Header + total <= heap_current_end
    /\ behind # Null => /\ keep < behind /\ keep + Header + total <= behind
    /\ \A c \in blocks \ gone :
          /\ keep < c => behind # Null /\ behind <= c
          /\ c # keep => next[c] \notin gone
          /\ c # keep /\ behind # Null => next[c] # behind
          /\ c # behind => prev[c] \notin gone \cup {keep}

(* What kfree assigns when the run becomes one block.                      *)
Merge(keep, gone, behind, total) ==
    /\ blocks' = blocks \ gone
    /\ size' = [a \in Addresses |-> CASE a = keep -> total
                                      [] a \in gone -> 0
                                      [] OTHER -> size[a]]
    /\ next' = [a \in Addresses |-> CASE a = keep -> behind
                                      [] a \in gone -> Null
                                      [] OTHER -> next[a]]
    /\ prev' = [a \in Addresses |-> CASE a = behind -> keep
                                      [] a \in gone -> Null
                                      [] OTHER -> prev[a]]
    /\ heap_start_block' = heap_start_block
    /\ heap_current_end' = heap_current_end

(* The list stays a list when a run of it becomes one block.               *)
LEMMA MergeKeepsList ==
    ASSUME TypeOK, ListOK, FieldsOnlyInHeaders,
           NEW keep, NEW gone, NEW behind, NEW total,
           Merges(keep, gone, behind, total), Merge(keep, gone, behind, total)
    PROVE  /\ ListOK' /\ FieldsOnlyInHeaders'
           /\ size' \in [Addresses -> Nat]
           /\ next' \in [Addresses -> Addresses \cup {Null}]
           /\ prev' \in [Addresses -> Addresses \cup {Null}]
           /\ next'[keep] = behind
           /\ \A x \in blocks \ gone : x # keep =>
                 next'[x] = next[x] /\ size'[x] = size[x]
<1>0. /\ blocks' = blocks \ gone
      /\ heap_start_block' = heap_start_block
      /\ heap_current_end' = heap_current_end
  BY DEF Merge
<1>1. /\ keep \in blocks /\ gone \subseteq blocks /\ keep \notin gone
      /\ behind \in blocks \cup {Null} /\ behind \notin gone
      /\ behind # keep /\ heap_start_block \notin gone
      /\ total \in Nat /\ keep + Header + total <= heap_current_end
      /\ behind # Null => keep < behind /\ keep + Header + total <= behind
      /\ \A c \in blocks \ gone :
            /\ keep < c => behind # Null /\ behind <= c
            /\ c # keep => next[c] \notin gone
            /\ c # keep /\ behind # Null => next[c] # behind
            /\ c # behind => prev[c] \notin gone \cup {keep}
  BY DEF Merges
<1>2. blocks \subseteq Addresses /\ Null \notin Addresses
      /\ blocks \subseteq Nat
  BY AddressesAreNat DEF TypeOK
<1>3. /\ size \in [Addresses -> Nat]
      /\ next \in [Addresses -> Addresses \cup {Null}]
      /\ prev \in [Addresses -> Addresses \cup {Null}]
  BY DEF TypeOK
<1>4. /\ size' \in [Addresses -> Nat]
      /\ size'[keep] = total
      /\ \A x \in Addresses \ gone : x # keep => size'[x] = size[x]
  <2> DEFINE f(a) == CASE a = keep -> total
                       [] a \in gone -> 0
                       [] OTHER -> size[a]
  <2>1. \A a \in Addresses :
            f(a) = IF a = keep THEN total ELSE IF a \in gone THEN 0 ELSE size[a]
    BY <1>1
  <2>2. size' = [a \in Addresses |-> f(a)]
    BY DEF Merge
  <2> HIDE DEF f
  <2>3. \A a \in Addresses : f(a) \in Nat
    BY <1>0, <1>1, <1>3, <2>1
  <2>4. QED
    BY <1>0, <1>1, <1>2, <2>1, <2>2, <2>3
<1>5. /\ next' \in [Addresses -> Addresses \cup {Null}]
      /\ next'[keep] = behind
      /\ \A x \in gone : next'[x] = Null
      /\ \A x \in Addresses \ gone : x # keep => next'[x] = next[x]
  <2> DEFINE f(a) == CASE a = keep -> behind
                       [] a \in gone -> Null
                       [] OTHER -> next[a]
  <2>1. \A a \in Addresses :
            f(a) = IF a = keep THEN behind
                   ELSE IF a \in gone THEN Null ELSE next[a]
    BY <1>1
  <2>2. next' = [a \in Addresses |-> f(a)]
    BY DEF Merge
  <2> HIDE DEF f
  <2>3. \A a \in Addresses : f(a) \in Addresses \cup {Null}
    BY <1>0, <1>1, <1>2, <1>3, <2>1
  <2>4. QED
    BY <1>0, <1>1, <1>2, <2>1, <2>2, <2>3
<1>6. /\ prev' \in [Addresses -> Addresses \cup {Null}]
      /\ behind # Null => prev'[behind] = keep
      /\ \A x \in gone : prev'[x] = Null
      /\ \A x \in Addresses \ gone : x # behind => prev'[x] = prev[x]
  <2> DEFINE f(a) == CASE a = behind -> keep
                       [] a \in gone -> Null
                       [] OTHER -> prev[a]
  <2>1. \A a \in Addresses :
            f(a) = IF a = behind THEN keep
                   ELSE IF a \in gone THEN Null ELSE prev[a]
    BY <1>1
  <2>2. prev' = [a \in Addresses |-> f(a)]
    BY DEF Merge
  <2> HIDE DEF f
  <2>3. \A a \in Addresses : f(a) \in Addresses \cup {Null}
    BY <1>0, <1>1, <1>2, <1>3, <2>1
  <2>4. QED
    BY <1>0, <1>1, <1>2, <2>1, <2>2, <2>3
<1>7. FieldsOnlyInHeaders'
  <2>1. ASSUME NEW a \in Addresses \ blocks'
        PROVE  next'[a] = Null /\ prev'[a] = Null
    <3>1. CASE a \in gone
      BY <1>0, <1>5, <1>6, <3>1
    <3>2. CASE a \notin gone
      <4>1. a \notin blocks /\ a # keep /\ a # behind
        BY <1>0, <1>1, <1>2, <2>1, <3>2
      <4>2. next'[a] = next[a] /\ prev'[a] = prev[a]
        BY <1>0, <1>5, <1>6, <3>2, <4>1
      <4>3. QED
        BY <4>1, <4>2 DEF FieldsOnlyInHeaders
    <3>3. QED
      BY <3>1, <3>2
  <2>2. QED
    BY <2>1 DEF FieldsOnlyInHeaders
<1>8. End(keep)' = keep + Header + total
  BY <1>0, <1>4 DEF End
<1>9. ASSUME NEW x \in blocks \ gone PROVE BlockOK(x)'
  <2>1. /\ BlockOK(x) /\ x \in Nat /\ x \in Addresses
        /\ next[x] # Null => next[x] \in blocks
        /\ prev[x] # Null => prev[x] \in blocks /\ next[prev[x]] = x
    BY <1>0, <1>2, BlockFacts, ListByBlocks
  <2>2. heap_start_block' <= x
    BY <1>0, <2>1 DEF BlockOK
  <2>3. CASE x = keep
    <3>1. next'[x] = behind /\ End(x)' = keep + Header + total
      BY <1>0, <1>5, <1>8, <2>3
    <3>2. prev'[x] = prev[x]
      BY <1>0, <1>1, <1>6, <2>1, <2>3
    <3>3. prev[x] # Null => /\ prev[x] \in blocks' /\ next'[prev[x]] = x
      <4>1. prev[x] # Null => prev[x] \notin gone \cup {keep}
        BY <1>0, <1>1, <2>3
      <4>2. QED
        BY <1>0, <1>2, <1>5, <2>1, <4>1
    <3>4. behind # Null => behind \in blocks' /\ keep < behind
      BY <1>0, <1>1
    <3>5. ASSUME NEW c \in blocks', x < c
          PROVE  behind # Null /\ behind <= c /\ keep + Header + total <= c
      <4>1. behind # Null /\ behind <= c
        BY <1>0, <1>1, <2>3, <3>5
      <4>2. behind \in Nat /\ c \in Nat /\ keep + Header + total \in Nat
        BY <1>0, <1>1, <1>2, <4>1, RegionAssumption
      <4>3. keep + Header + total <= behind
        BY <1>0, <1>1, <4>1
      <4>4. keep + Header + total <= c
        BY <4>1, <4>2, <4>3
      <4>5. QED
        BY <4>1, <4>4
    <3>6. prev[x] = Null <=> x = heap_start_block
      BY <2>1 DEF BlockOK
    <3>7. keep + Header + total <= heap_current_end'
      BY <1>0, <1>1
    <3>8. QED
      BY <1>0, <1>6, <2>2, <2>3, <3>1, <3>2, <3>3, <3>4, <3>5, <3>6, <3>7
         DEF BlockOK
  <2>4. CASE x # keep
    <3>1. next'[x] = next[x] /\ size'[x] = size[x]
      BY <1>0, <1>4, <1>5, <2>1, <2>4
    <3>2. End(x)' = End(x)
      BY <3>1 DEF End
    <3>3. next[x] # Null => next[x] \in blocks' /\ next[x] # behind
      BY <1>0, <1>1, <2>1, <2>4
    <3>4. next[x] # Null => prev'[next[x]] = x
      BY <1>0, <1>2, <1>6, <2>1, <3>3 DEF BlockOK
    <3>5. /\ prev'[x] = Null <=> x = heap_start_block
          /\ prev'[x] # Null => prev'[x] \in blocks' /\ next'[prev'[x]] = x
      <4>1. CASE x = behind
        <5>1. prev'[x] = keep /\ keep # Null /\ next'[keep] = x
          BY <1>0, <1>1, <1>2, <1>5, <1>6, <2>1, <4>1
        <5>2. x # heap_start_block
          <6>1. BlockOK(keep) /\ heap_start_block \in Nat
            BY <1>0, <1>1, BlockFacts, ListByBlocks
          <6>2. heap_start_block <= keep /\ keep < x /\ keep \in Nat
            BY <1>0, <1>1, <1>2, <2>1, <4>1, <6>1 DEF BlockOK
          <6>3. QED
            BY <2>1, <6>1, <6>2
        <5>3. QED
          BY <1>0, <1>1, <5>1, <5>2
      <4>2. CASE x # behind
        <5>1. prev'[x] = prev[x]
          BY <1>0, <1>6, <2>1, <4>2
        <5>2. prev[x] \notin gone \cup {keep}
          BY <1>0, <1>1, <4>2
        <5>3. prev[x] # Null => prev[x] \in blocks' /\ next'[prev[x]] = x
          BY <1>0, <1>2, <1>5, <2>1, <5>2
        <5>4. QED
          BY <2>1, <5>1, <5>3 DEF BlockOK
      <4>3. QED
        BY <4>1, <4>2
    <3>6. ASSUME NEW c \in blocks', x < c
          PROVE  next[x] # Null /\ next[x] <= c /\ End(x) <= c
      BY <1>0, <2>1, <3>6 DEF BlockOK
    <3>7. x < next[x] \/ next[x] = Null
      BY <2>1 DEF BlockOK
    <3>8. End(x) <= heap_current_end'
      BY <1>0, <2>1 DEF BlockOK
    <3>9. QED
      BY <1>0, <2>2, <3>1, <3>2, <3>3, <3>4, <3>5, <3>6, <3>7, <3>8 DEF BlockOK
  <2>5. QED
    BY <2>3, <2>4
<1>10. /\ heap_start_block' # Null /\ heap_start_block' \in blocks'
  BY <1>0, <1>1, <1>2 DEF ListOK
<1>11. ListOK'
  BY <1>0, <1>9, <1>10 DEF ListOK, BlockOK
<1>12. QED
  BY <1>0, <1>2, <1>4, <1>5, <1>6, <1>7, <1>11

(* Two blocks of the list that follow each other: nothing is between them. *)
LEMMA NextFacts ==
    ASSUME TypeOK, ListOK, NEW a \in blocks, NEW b \in blocks, next[a] = b
    PROVE  /\ a < b /\ prev[b] = a /\ End(a) <= b
           /\ b # heap_start_block
           /\ a \in Nat /\ b \in Nat /\ End(a) \in Nat /\ End(b) \in Nat
           /\ \A c \in blocks : a < c => b <= c
           /\ \A c \in blocks : c # a => next[c] # b
           /\ \A c \in blocks : c # b => prev[c] # a
<1>1. a # Null /\ b # Null
  BY BlockFacts
<1>2. /\ a < b /\ prev[b] = a /\ End(a) <= b
      /\ a \in Nat /\ b \in Nat /\ End(a) \in Nat /\ End(b) \in Nat
  BY <1>1, BlockFacts
<1>3. b # heap_start_block
  BY <1>1, <1>2 DEF ListOK
<1>4. \A c \in blocks : a < c => b <= c
  BY BehindFacts
<1>5. \A c \in blocks : c # a => next[c] # b
  BY <1>1, <1>2, BlockFacts
<1>6. \A c \in blocks : c # b => prev[c] # a
  BY <1>1, BlockFacts
<1>7. QED
  BY <1>2, <1>3, <1>4, <1>5, <1>6

(* The block behind another one of the list, if there is one.              *)
LEMMA AfterFacts ==
    ASSUME TypeOK, ListOK, NEW a \in blocks, NEW m, m = next[a]
    PROVE  /\ m \in blocks \cup {Null}
           /\ End(a) <= heap_current_end
           /\ m # Null => a < m /\ End(a) <= m
           /\ \A c \in blocks : a < c => m # Null /\ m <= c
           /\ \A c \in blocks : c # a /\ m # Null => next[c] # m
           /\ \A c \in blocks : c # m => prev[c] # a
<1>1. a # Null
  BY BlockFacts
<1>2. m # Null => m \in blocks /\ a < m /\ End(a) <= m /\ prev[m] = a
  BY BlockFacts
<1>3. End(a) <= heap_current_end
  BY BlockFacts
<1>4. \A c \in blocks : a < c => m # Null /\ m <= c
  BY BehindFacts
<1>5. \A c \in blocks : c # a /\ m # Null => next[c] # m
  BY <1>2, BlockFacts
<1>6. \A c \in blocks : c # m => prev[c] # a
  BY <1>1, BlockFacts
<1>7. QED
  BY <1>2, <1>3, <1>4, <1>5, <1>6

(* A block alone, two neighbours and three neighbours are runs.            *)
LEMMA OneMerges ==
    ASSUME TypeOK, ListOK, NEW a \in blocks, NEW m, m = next[a]
    PROVE  Merges(a, {}, m, size[a])
<1>1. /\ a \in Nat /\ a \in blocks /\ size[a] \in Nat
      /\ m \in blocks \cup {Null}
      /\ End(a) <= heap_current_end
      /\ m # Null => a < m /\ End(a) <= m
      /\ \A c \in blocks : a < c => m # Null /\ m <= c
      /\ \A c \in blocks : c # a /\ m # Null => next[c] # m
      /\ \A c \in blocks : c # m => prev[c] # a
  BY AfterFacts, BlockFacts
<1>2. m # a
  BY <1>1, BlockFacts
<1>3. QED
  BY <1>1, <1>2 DEF Merges, End

(* Merging a block with its successor gives a block between the same       *)
(* neighbours.                                                             *)
LEMMA TwoMerge ==
    ASSUME TypeOK, ListOK, NEW a \in blocks, NEW b \in blocks, next[a] = b,
           NEW m, m = next[b],
           NEW total, total = size[a] + Header + size[b]
    PROVE  Merges(a, {b}, m, total)
<1>1. /\ a < b /\ prev[b] = a /\ End(a) <= b /\ b # heap_start_block
      /\ a \in Nat /\ b \in Nat /\ End(a) \in Nat /\ End(b) \in Nat
      /\ \A c \in blocks : a < c => b <= c
      /\ \A c \in blocks : c # a => next[c] # b
      /\ \A c \in blocks : c # b => prev[c] # a
  BY NextFacts
<1>2. /\ m \in blocks \cup {Null}
      /\ End(b) <= heap_current_end
      /\ m # Null => b < m /\ End(b) <= m
      /\ \A c \in blocks : b < c => m # Null /\ m <= c
      /\ \A c \in blocks : c # b /\ m # Null => next[c] # m
      /\ \A c \in blocks : c # m => prev[c] # b
  BY AfterFacts
<1>3. size[a] \in Nat /\ size[b] \in Nat /\ heap_current_end \in Nat
  BY BlockFacts
<1>4. m # Null => m \in Nat
  BY <1>2, BlockFacts
<1>5. total \in Nat /\ a + Header + total <= End(b)
  <2>1. a + Header + size[a] <= b
    BY <1>1 DEF End
  <2>2. a + Header + (size[a] + Header + size[b]) <= b + Header + size[b]
    BY <1>1, <1>3, <2>1, RegionAssumption
  <2>3. QED
    BY <1>3, <2>2, RegionAssumption DEF End
<1>6. a + Header + total <= heap_current_end
  BY <1>1, <1>2, <1>3, <1>5, RegionAssumption
<1>7. m # Null => a < m /\ a + Header + total <= m
  BY <1>1, <1>2, <1>4, <1>5, RegionAssumption
<1>8. m # a /\ m # b
  BY <1>1, <1>2, <1>7, BlockFacts
<1>9. ASSUME NEW c \in blocks \ {b}
      PROVE  /\ a < c => m # Null /\ m <= c
             /\ c # a => next[c] \notin {b}
             /\ c # a /\ m # Null => next[c] # m
             /\ c # m => prev[c] \notin {b} \cup {a}
  <2>1. a < c => b < c
    <3>1. c \in Nat
      BY BlockFacts
    <3>2. a < c => b <= c /\ b # c
      BY <1>1
    <3>3. QED
      BY <1>1, <3>1, <3>2
  <2>2. QED
    BY <1>1, <1>2, <2>1
<1>10. QED
  BY <1>1, <1>2, <1>5, <1>6, <1>7, <1>8, <1>9 DEF Merges

(* So does merging it with both neighbours.                                *)
LEMMA ThreeMerge ==
    ASSUME TypeOK, ListOK, NEW a \in blocks, NEW b \in blocks,
           NEW c \in blocks, next[a] = b, next[b] = c, NEW m, m = next[c],
           NEW total, total = size[a] + Header + size[b] + Header + size[c]
    PROVE  Merges(a, {b, c}, m, total)
<1>1. /\ a < b /\ End(a) <= b /\ b # heap_start_block
      /\ a \in Nat /\ b \in Nat /\ End(a) \in Nat /\ End(b) \in Nat
      /\ \A x \in blocks : a < x => b <= x
      /\ \A x \in blocks : x # a => next[x] # b
      /\ \A x \in blocks : x # b => prev[x] # a
  BY NextFacts
<1>2. /\ b < c /\ End(b) <= c /\ c # heap_start_block
      /\ c \in Nat /\ End(c) \in Nat
      /\ \A x \in blocks : b < x => c <= x
      /\ \A x \in blocks : x # b => next[x] # c
      /\ \A x \in blocks : x # c => prev[x] # b
  BY NextFacts
<1>3. /\ m \in blocks \cup {Null}
      /\ End(c) <= heap_current_end
      /\ m # Null => c < m /\ End(c) <= m
      /\ \A x \in blocks : c < x => m # Null /\ m <= x
      /\ \A x \in blocks : x # c /\ m # Null => next[x] # m
      /\ \A x \in blocks : x # m => prev[x] # c
  BY AfterFacts
<1>4. /\ size[a] \in Nat /\ size[b] \in Nat /\ size[c] \in Nat
      /\ heap_current_end \in Nat
  BY BlockFacts
<1>5. m # Null => m \in Nat
  BY <1>3, BlockFacts
<1>6. total \in Nat /\ a + Header + total <= End(c)
  <2>1. a + Header + size[a] <= b /\ b + Header + size[b] <= c
    BY <1>1, <1>2 DEF End
  <2>2. a + Header + (size[a] + Header + size[b] + Header + size[c])
            <= c + Header + size[c]
    BY <1>1, <1>2, <1>4, <2>1, RegionAssumption
  <2>3. QED
    BY <1>4, <2>2, RegionAssumption DEF End
<1>7. a + Header + total <= heap_current_end
  BY <1>1, <1>2, <1>3, <1>4, <1>6, RegionAssumption
<1>8. m # Null => /\ a < m /\ b < m /\ c < m
                  /\ a + Header + total <= m
  BY <1>1, <1>2, <1>3, <1>5, <1>6, RegionAssumption
<1>9. m # a /\ m # b /\ m # c /\ a # b /\ a # c
  BY <1>1, <1>2, <1>5, <1>8, BlockFacts
<1>10. ASSUME NEW x \in blocks \ {b, c}
       PROVE  /\ a < x => m # Null /\ m <= x
              /\ x # a => next[x] \notin {b, c}
              /\ x # a /\ m # Null => next[x] # m
              /\ x # m => prev[x] \notin {b, c} \cup {a}
  <2>1. a < x => c < x
    <3>1. x \in Nat
      BY BlockFacts
    <3>2. a < x => b <= x /\ b # x
      BY <1>1
    <3>3. b < x => c <= x /\ c # x
      BY <1>2
    <3>4. QED
      BY <1>1, <1>2, <3>1, <3>2, <3>3
  <2>2. QED
    BY <1>1, <1>2, <1>3, <2>1
<1>11. QED
  BY <1>1, <1>2, <1>3, <1>6, <1>7, <1>8, <1>9, <1>10 DEF Merges

(* What kfree does with the block of a caller's pointer is such a merge,   *)
(* and what follows the block that stays is not free.                      *)
LEMMA KfreeMerges ==
    ASSUME HeapInv, pc = "idle", NEW b \in blocks \ is_free,
           NEW keep, NEW gone, NEW behind, NEW total,
           keep = IF AbsorbedByPrev(b) THEN prev[b] ELSE b,
           gone = (IF AbsorbedByPrev(b) THEN {b} ELSE {})
                     \cup (IF AbsorbsNext(b) THEN {next[b]} ELSE {}),
           behind = IF AbsorbsNext(b) THEN next[next[b]] ELSE next[b],
           total = size[b]
                     + (IF AbsorbsNext(b) THEN Header + size[next[b]] ELSE 0)
                     + (IF AbsorbedByPrev(b) THEN Header + size[keep] ELSE 0)
    PROVE  /\ Merges(keep, gone, behind, total)
           /\ b \in gone \cup {keep}
           /\ keep \in is_free \cup {b} /\ gone \subseteq is_free \cup {b}
           /\ behind \notin is_free \cup {b}
           /\ \A x \in is_free : next[x] = b => x = keep
<1>1. TypeOK /\ ListOK /\ is_free \subseteq blocks /\ b \in blocks
  BY DEF HeapInv, TypeOK
<1>2. \A x \in is_free : next[x] # Null => next[x] \notin is_free
  BY Zenon DEF HeapInv, OnlyAppendedFollows
<1>3. PICK n : n = next[b]
  OBVIOUS
<1>4. PICK q : q = prev[b]
  OBVIOUS
<1>5. /\ n # Null => n \in blocks /\ n # b /\ n \in Nat /\ b \in Nat /\ b < n
      /\ q # Null => q \in blocks /\ next[q] = b /\ q # b
      /\ Null \notin blocks
  BY <1>1, <1>3, <1>4, BlockFacts
<1>6. size[b] \in Nat /\ (n # Null => size[n] \in Nat)
      /\ (q # Null => size[q] \in Nat)
  BY <1>1, <1>5, BlockFacts
<1>7. \A x \in is_free : next[x] = b => x = q /\ AbsorbedByPrev(b)
  <2>1. ASSUME NEW x \in is_free, next[x] = b PROVE x = q /\ x # Null
    BY <1>1, <1>4, <1>5, <2>1, NextFacts
  <2>2. QED
    BY <1>4, <2>1 DEF AbsorbedByPrev
<1>8. CASE AbsorbsNext(b) /\ AbsorbedByPrev(b)
  <2>1. n # Null /\ n \in is_free /\ q # Null /\ q \in is_free
    BY <1>3, <1>4, <1>8 DEF AbsorbsNext, AbsorbedByPrev
  <2>2. keep = q /\ gone = {b, n} /\ behind = next[n]
    BY <1>3, <1>4, <1>8
  <2>3. total = size[q] + Header + size[b] + Header + size[n]
    <3>1. total = size[b] + (Header + size[n]) + (Header + size[q])
      BY <1>3, <1>8, <2>2
    <3>2. QED
      BY <1>6, <2>1, <3>1, RegionAssumption
  <2>4. Merges(q, {b, n}, next[n], total)
    BY <1>1, <1>3, <1>5, <2>1, <2>3, ThreeMerge
  <2>5. next[n] \notin is_free \cup {b}
    <3>1. next[n] # Null => n < next[n] /\ next[n] \in Nat
      BY <1>1, <1>5, <2>1, BlockFacts
    <3>2. next[n] # b
      BY <1>1, <1>5, <2>1, <3>1
    <3>3. next[n] \notin is_free
      BY <1>1, <1>2, <1>5, <2>1
    <3>4. QED
      BY <3>2, <3>3
  <2>6. QED
    BY <1>7, <2>1, <2>2, <2>4, <2>5
<1>9. CASE AbsorbsNext(b) /\ ~AbsorbedByPrev(b)
  <2>1. n # Null /\ n \in is_free
    BY <1>3, <1>9 DEF AbsorbsNext
  <2>2. keep = b /\ gone = {n} /\ behind = next[n]
    BY <1>3, <1>9
  <2>3. total = size[b] + Header + size[n]
    <3>1. total = size[b] + (Header + size[n]) + 0
      BY <1>3, <1>9
    <3>2. QED
      BY <1>6, <2>1, <3>1, RegionAssumption
  <2>4. Merges(b, {n}, next[n], total)
    BY <1>1, <1>3, <1>5, <2>1, <2>3, TwoMerge
  <2>5. next[n] \notin is_free \cup {b}
    <3>1. next[n] # Null => n < next[n] /\ next[n] \in Nat
      BY <1>1, <1>5, <2>1, BlockFacts
    <3>2. next[n] # b
      BY <1>1, <1>5, <2>1, <3>1
    <3>3. next[n] \notin is_free
      BY <1>1, <1>2, <1>5, <2>1
    <3>4. QED
      BY <3>2, <3>3
  <2>6. QED
    BY <1>7, <1>9, <2>1, <2>2, <2>4, <2>5
<1>10. CASE ~AbsorbsNext(b) /\ AbsorbedByPrev(b)
  <2>1. q # Null /\ q \in is_free /\ n \notin is_free \cup {b}
    BY <1>1, <1>3, <1>4, <1>5, <1>10 DEF AbsorbsNext, AbsorbedByPrev
  <2>2. keep = q /\ gone = {b} /\ behind = n
    BY <1>3, <1>4, <1>10
  <2>3. total = size[q] + Header + size[b]
    <3>1. total = size[b] + 0 + (Header + size[q])
      BY <1>10, <2>2
    <3>2. QED
      BY <1>6, <2>1, <3>1, RegionAssumption
  <2>4. Merges(q, {b}, n, total)
    BY <1>1, <1>3, <1>5, <2>1, <2>3, TwoMerge
  <2>5. QED
    BY <1>7, <2>1, <2>2, <2>4
<1>11. CASE ~AbsorbsNext(b) /\ ~AbsorbedByPrev(b)
  <2>1. n \notin is_free \cup {b}
    BY <1>1, <1>3, <1>5, <1>11 DEF AbsorbsNext
  <2>2. keep = b /\ gone = {} /\ behind = n
    BY <1>3, <1>11
  <2>3. total = size[b]
    <3>1. total = size[b] + 0 + 0
      BY <1>11
    <3>2. QED
      BY <1>6, <3>1
  <2>4. Merges(b, {}, n, total)
    BY <1>1, <1>3, <2>3, OneMerges
  <2>5. QED
    BY <1>7, <1>11, <2>1, <2>2, <2>4
<1>12. QED
  BY <1>8, <1>9, <1>10, <1>11

(* kfree keeps the invariant: the neighbours that are free are merged, so  *)
(* no free block follows another.                                          *)
LEMMA KfreeKeepsInv ==
    ASSUME HeapInv, NEW p \in Addresses, Kfree(p)
    PROVE  HeapInv'
<1>1. /\ TypeOK /\ ListOK /\ FieldsOnlyInHeaders /\ OwnedIsUsed
      /\ WholePages /\ Growing /\ OnlyAppendedFollows
  BY DEF HeapInv
<1>2. PICK b : b = p - Header
  OBVIOUS
<1>3. PICK keep : keep = IF AbsorbedByPrev(b) THEN prev[b] ELSE b
  OBVIOUS
<1>4. PICK gone : gone = (IF AbsorbedByPrev(b) THEN {b} ELSE {})
                            \cup (IF AbsorbsNext(b) THEN {next[b]} ELSE {})
  OBVIOUS
<1>5. PICK behind :
          behind = IF AbsorbsNext(b) THEN next[next[b]] ELSE next[b]
  OBVIOUS
<1>6. PICK total :
          total = size[b]
                    + (IF AbsorbsNext(b) THEN Header + size[next[b]] ELSE 0)
                    + (IF AbsorbedByPrev(b) THEN Header + size[keep] ELSE 0)
  OBVIOUS
<1>7. /\ pc = "idle" /\ owned[p] > 0
      /\ owned' = [owned EXCEPT ![p] = 0]
      /\ blocks' = blocks \ gone
      /\ is_free' = (is_free \cup {b}) \ gone
      /\ Merge(keep, gone, behind, total)
      /\ heap_start_block' = heap_start_block
      /\ heap_current_end' = heap_current_end
      /\ frames' = frames /\ pc' = pc /\ asked' = asked
      /\ old_end' = old_end /\ pages' = pages
  BY <1>2, <1>3, <1>4, <1>5, <1>6 DEF Kfree, Merge
<1>8. b \in blocks \ is_free
  BY <1>1, <1>2, <1>7 DEF OwnedIsUsed
<1>9. /\ Merges(keep, gone, behind, total)
      /\ b \in gone \cup {keep}
      /\ keep \in is_free \cup {b} /\ gone \subseteq is_free \cup {b}
      /\ behind \notin is_free \cup {b}
      /\ \A x \in is_free : next[x] = b => x = keep
  BY <1>3, <1>4, <1>5, <1>6, <1>7, <1>8, KfreeMerges
<1>10. /\ ListOK' /\ FieldsOnlyInHeaders'
       /\ size' \in [Addresses -> Nat]
       /\ next' \in [Addresses -> Addresses \cup {Null}]
       /\ prev' \in [Addresses -> Addresses \cup {Null}]
       /\ next'[keep] = behind
       /\ \A x \in blocks \ gone : x # keep =>
             next'[x] = next[x] /\ size'[x] = size[x]
  BY <1>1, <1>7, <1>9, MergeKeepsList
<1>11. TypeOK'
  BY <1>1, <1>7, <1>8, <1>10 DEF TypeOK
<1>12. OwnedIsUsed'
  <2> SUFFICES ASSUME NEW r \in Addresses, owned'[r] > 0
               PROVE  /\ r - Header \in blocks' \ is_free'
                      /\ owned'[r] <= size'[r - Header]
    BY DEF OwnedIsUsed
  <2>1. r # p /\ owned'[r] = owned[r]
    BY <1>1, <1>7 DEF TypeOK
  <2>2. r - Header \in blocks \ is_free /\ owned[r] <= size[r - Header]
    BY <1>1, <2>1 DEF OwnedIsUsed
  <2>3. r - Header # b
    <3>1. r \in Nat /\ p \in Nat
      BY AddressesAreNat
    <3>2. QED
      BY <1>2, <2>1, <3>1, RegionAssumption
  <2>4. r - Header \notin gone /\ r - Header # keep
    BY <1>9, <2>2, <2>3
  <2>5. QED
    BY <1>7, <1>10, <2>1, <2>2, <2>3, <2>4
<1>13. OnlyAppendedFollows'
  <2>1. ASSUME NEW x \in is_free' PROVE next'[x] \notin is_free'
    <3>1. CASE x = keep
      BY <1>7, <1>9, <1>10, <3>1
    <3>2. CASE x # keep
      <4>1. x \in is_free /\ x \in blocks \ gone
        BY <1>1, <1>7, <1>9, <3>2 DEF TypeOK
      <4>2. next'[x] = next[x]
        BY <1>10, <3>2, <4>1
      <4>3. next[x] # Null => next[x] \notin is_free
        BY <1>1, <1>7, <4>1, Zenon DEF OnlyAppendedFollows
      <4>4. Null \notin is_free \cup {b}
        BY <1>1, <1>8, AddressesAreNat DEF TypeOK
      <4>5. QED
        BY <1>7, <1>9, <3>2, <4>1, <4>2, <4>3, <4>4
    <3>3. QED
      BY <3>1, <3>2
  <2>2. QED
    BY <1>7, <2>1 DEF OnlyAppendedFollows
<1>14. WholePages' /\ Growing'
  BY <1>1, <1>7 DEF WholePages, Growing
<1>15. QED
  BY <1>10, <1>11, <1>12, <1>13, <1>14 DEF HeapInv

-----------------------------------------------------------------------------
(* The theorems.                                                           *)

(* kheap_init establishes the invariant.                                   *)
LEMMA InitInv ==
    Init => HeapInv
<1> SUFFICES ASSUME Init PROVE HeapInv
  OBVIOUS
<1>1. TypeOK
  BY RegionAssumption, FramesAssumption, AddressesAreNat DEF Init, TypeOK
<1>2. ListOK /\ FieldsOnlyInHeaders /\ OnlyAppendedFollows
  BY DEF Init, ListOK, FieldsOnlyInHeaders, OnlyAppendedFollows
<1>3. OwnedIsUsed
  BY DEF Init, OwnedIsUsed
<1>4. WholePages
  BY RegionIsPages DEF Init, WholePages
<1>5. Growing
  BY DEF Init, Growing
<1>6. QED
  BY <1>1, <1>2, <1>3, <1>4, <1>5 DEF HeapInv

(* Every step of the heap keeps the invariant.                             *)
LEMMA NextKeepsInv ==
    HeapInv /\ [Next]_vars => HeapInv'
<1> SUFFICES ASSUME HeapInv, [Next]_vars PROVE HeapInv'
  OBVIOUS
<1>1. ASSUME NEW n \in Requests, Kmalloc(n) PROVE HeapInv'
  BY <1>1, KmallocKeepsInv
<1>2. CASE Found
  BY <1>2, FoundKeepsInv
<1>3. CASE NotFound
  BY <1>3, NotFoundKeepsInv
<1>4. CASE GrowPage
  BY <1>4, GrowPageKeepsInv
<1>5. CASE GrowFails
  BY <1>5, GrowFailsKeepsInv
<1>6. CASE AppendBlock
  BY <1>6, AppendKeepsInv
<1>7. ASSUME NEW p \in Addresses, Kfree(p) PROVE HeapInv'
  BY <1>7, KfreeKeepsInv
<1>8. CASE OthersUseFrames
  BY <1>8, OthersKeepInv
<1>9. CASE UNCHANGED vars
  BY <1>9 DEF vars, heap, HeapInv, TypeOK, ListOK, End, FieldsOnlyInHeaders,
              OwnedIsUsed, WholePages, Growing, OnlyAppendedFollows, Fit,
              Wanted
<1>10. QED
  BY <1>1, <1>2, <1>3, <1>4, <1>5, <1>6, <1>7, <1>8, <1>9 DEF Next

(* The invariant holds in every state of the heap.                         *)
THEOREM HeapInvariant == Spec => []HeapInv
BY InitInv, NextKeepsInv, PTL DEF Spec

(* The list of kheap.cpp stays a list in address order, and no block       *)
(* reaches into another one or beyond the mapped pages, whatever is        *)
(* allocated, freed, split and merged.                                     *)
THEOREM HeapListOK == Spec => []ListOK
<1>1. HeapInv => ListOK
  BY DEF HeapInv
<1>2. QED
  BY <1>1, HeapInvariant, PTL

(* Between calls there are never two free blocks next to each other:       *)
(* kfree's merges with its two neighbours are enough.                      *)
THEOREM HeapCoalesced == Spec => []Coalesced
<1>1. HeapInv => Coalesced
  BY Zenon DEF HeapInv, OnlyAppendedFollows, Coalesced
<1>2. QED
  BY <1>1, HeapInvariant, PTL

(* The search that kmalloc repeats after heap_grow finds a block, so that  *)
(* its call to itself is never followed by a second one.                   *)
THEOREM HeapGrowsOnce == Spec => []GrowsOnce
<1>1. HeapInv => GrowsOnce
  BY DEF HeapInv, OnlyAppendedFollows, GrowsOnce
<1>2. QED
  BY <1>1, HeapInvariant, PTL

(* The block that is found lies in the region and apart from all that      *)
(* callers hold.                                                           *)
LEMMA FoundAllocates ==
    HeapInv /\ Found => \E p \in Addresses, n \in Requests : Alloc!Malloc(p, n)
<1> SUFFICES ASSUME HeapInv, Found
             PROVE  \E p \in Addresses, n \in Requests : Alloc!Malloc(p, n)
  OBVIOUS
<1>1. PICK b : b = BestFit
  OBVIOUS
<1>2. /\ TypeOK /\ ListOK /\ OwnedIsUsed /\ Growing
  BY DEF HeapInv
<1>3. /\ pc \in {"search", "retry"}
      /\ owned' = [owned EXCEPT ![b + Header] = asked]
  BY <1>1 DEF Found
<1>4. b \in is_free /\ b \in blocks /\ Wanted <= size[b]
  BY <1>1, <1>2, BestFitFits DEF Fit, TypeOK, Found
<1>5. /\ asked \in Requests /\ asked \in Nat /\ Wanted \in Nat
      /\ asked <= Wanted
  BY <1>2, <1>3, WantedBounds DEF Growing
<1>6. /\ b \in Nat /\ size[b] \in Nat /\ End(b) \in Nat
      /\ End(b) <= heap_current_end /\ heap_current_end \in Nat
      /\ b + Header \in Addresses
  BY <1>2, <1>4, BlockFacts
<1>7. b + Header + asked <= End(b)
  BY <1>4, <1>5, <1>6, RegionAssumption DEF End
<1>8. b + Header + asked <= HeapMax
  <2>1. heap_current_end <= HeapMax
    BY <1>2, RegionAssumption DEF TypeOK, Addresses
  <2>2. QED
    BY <1>5, <1>6, <1>7, <2>1, RegionAssumption
<1>9. ASSUME NEW q \in Addresses, owned[q] > 0
      PROVE  \/ b + Header + asked <= q
             \/ q + owned[q] <= b + Header
  <2>1. PICK c : c = q - Header
    OBVIOUS
  <2>2. c \in blocks /\ c # b /\ owned[q] <= size[c]
    BY <1>2, <1>4, <1>9, <2>1 DEF OwnedIsUsed
  <2>3. c \in Nat /\ size[c] \in Nat /\ End(c) \in Nat /\ owned[q] \in Nat
    <3>1. owned[q] \in Requests \cup {0}
      BY <1>2 DEF TypeOK
    <3>2. PICK n \in Requests \cup {0} : owned[q] = n
      BY <3>1
    <3>3. n \in Nat
      BY RequestsAssumption
    <3>4. owned[q] \in Nat
      BY <3>2, <3>3
    <3>5. c \in Nat /\ size[c] \in Nat /\ End(c) \in Nat
      BY <1>2, <2>2, BlockFacts
    <3>6. QED
      BY <3>4, <3>5
  <2>4. q = c + Header
    BY <2>1, AddressesAreNat, RegionAssumption
  <2>5. CASE b < c
    <3>1. End(b) <= c
      BY <1>2, <1>4, <2>2, <2>5, BehindFacts
    <3>2. QED
      BY <1>5, <1>6, <1>7, <2>3, <2>4, <3>1, RegionAssumption
  <2>6. CASE c < b
    <3>1. End(c) <= b
      BY <1>2, <1>4, <2>2, <2>6, BehindFacts
    <3>2. q + owned[q] <= End(c)
      BY <2>2, <2>3, <2>4, RegionAssumption DEF End
    <3>3. QED
      BY <1>6, <2>3, <2>4, <3>1, <3>2, RegionAssumption
  <2>7. QED
    BY <1>6, <2>2, <2>3, <2>5, <2>6
<1>10. Alloc!Malloc(b + Header, asked)
  BY <1>3, <1>8, <1>9 DEF Alloc!Malloc, Alloc!Holds, Alloc!Addresses, Addresses
<1>11. QED
  BY <1>5, <1>6, <1>10

(* kheap.cpp keeps the promise of Allocator: what it hands out lies in the *)
(* region, and belongs to one caller until that caller gives it back.      *)
THEOREM HeapImplementsAllocator == Spec => ImplementsAllocator
<1>1. Init => Alloc!Init
  BY DEF Init, Alloc!Init, Addresses, Alloc!Addresses
<1>2. HeapInv /\ [Next]_vars => [Alloc!Next]_owned
  <2> SUFFICES ASSUME HeapInv, [Next]_vars, ~(UNCHANGED owned)
               PROVE  Alloc!Next
    OBVIOUS
  <2>1. CASE Found
    BY <2>1, FoundAllocates DEF Alloc!Next, Alloc!Addresses, Addresses
  <2>2. ASSUME NEW p \in Addresses, Kfree(p) PROVE Alloc!Next
    <3>1. owned[p] > 0 /\ owned' = [owned EXCEPT ![p] = 0]
      BY <2>2 DEF Kfree
    <3>2. Alloc!Free(p)
      BY <3>1 DEF Alloc!Free, Alloc!Holds
    <3>3. QED
      BY <3>2 DEF Alloc!Next, Alloc!Addresses, Addresses
  <2>3. CASE UNCHANGED vars
    BY <2>3 DEF vars, heap
  <2>4. ASSUME NEW n \in Requests, Kmalloc(n) PROVE UNCHANGED owned
    BY <2>4 DEF Kmalloc, heap
  <2>5. CASE NotFound \/ GrowPage \/ GrowFails \/ AppendBlock
             \/ OthersUseFrames
    BY <2>5 DEF NotFound, GrowPage, GrowFails, AppendBlock, OthersUseFrames,
                heap
  <2>6. QED
    BY <2>1, <2>2, <2>3, <2>4, <2>5 DEF Next
<1>3. QED
  BY <1>1, <1>2, HeapInvariant, PTL DEF Spec, ImplementsAllocator, Alloc!Spec
=============================================================================
