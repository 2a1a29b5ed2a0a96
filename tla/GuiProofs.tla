----------------------------- MODULE GuiProofs -----------------------------
(***************************************************************************)
(* Theorems about FileTree and Gui for every number of nodes and files,    *)
(* every set of paths and buffers.                                         *)
(***************************************************************************)
EXTENDS Gui, FiniteSetTheorems, SequenceTheorems, WellFoundedInduction, TLAPS

-----------------------------------------------------------------------------
(* Numbers.                                                                *)

(* Every set of numbers that is not empty has a least one.                 *)
LEMMA LeastExists ==
    ASSUME NEW S \in SUBSET Nat, S # {}
    PROVE  \E x \in S : \A y \in S : x <= y
<1> DEFINE less == {p \in Nat \X Nat : p[1] < p[2]}
<1>1. IsWellFoundedOn(less, Nat)
  BY NatLessThanWellFounded DEF OpToRel
<1> HIDE DEF less
<1>2. PICK x \in S : \A y \in S : ~(<<y, x>> \in less)
  BY <1>1, WFMin
<1>3. ASSUME NEW y \in S PROVE x <= y
  <2>1. y < x => <<y, x>> \in less
    BY DEF less
  <2>2. QED
    BY <1>2, <2>1
<1>4. QED
  BY <1>3

-----------------------------------------------------------------------------
(* The walk along next_sibling.                                            *)

Steps == 0..(VFS_MAX_NODES + 1)

(* What a walk of n more steps from node i lists, if w has the walks of    *)
(* fewer steps.                                                            *)
Walked(nodes, w, n, i) ==
    IF n = 0 \/ i = None THEN <<>>
    ELSE <<i>> \o w[n - 1][nodes[i].next_sibling]

(* There are walks of any number of steps: the definition of Walk defines  *)
(* something.                                                              *)
LEMMA WalksExist ==
    ASSUME NEW nodes, NEW m \in Nat
    PROVE  \E w : w = [n \in 0..m |->
                           [i \in Indexes |-> Walked(nodes, w, n, i)]]
<1> DEFINE IsWalk(w, k) ==
             w = [n \in 0..k |-> [i \in Indexes |-> Walked(nodes, w, n, i)]]
           Missing == {k \in Nat : ~(\E w : IsWalk(w, k))}
<1>1. SUFFICES ASSUME Missing # {} PROVE FALSE
  OBVIOUS
<1> HIDE DEF IsWalk
<1>2. PICK k \in Missing : \A j \in Missing : k <= j
  BY <1>1, LeastExists
<1>3. k # 0
  <2> DEFINE w0 == [n \in 0..0 |-> [i \in Indexes |-> <<>>]]
  <2>1. \A n \in 0..0, i \in Indexes : Walked(nodes, w0, n, i) = <<>>
    BY DEF Walked
  <2>2. IsWalk(w0, 0)
    BY <2>1 DEF IsWalk
  <2>3. QED
    BY <2>2
<1>4. k - 1 \in Nat /\ k - 1 \notin Missing
  BY <1>2, <1>3
<1>5. PICK w : IsWalk(w, k - 1)
  BY <1>4
<1>6. w = [n \in 0..(k - 1) |-> [i \in Indexes |-> Walked(nodes, w, n, i)]]
  BY <1>5 DEF IsWalk
<1> DEFINE v == [n \in 0..k |-> [i \in Indexes |-> Walked(nodes, w, n, i)]]
<1>7. \A n \in 0..(k - 1) : v[n] = w[n]
  <2>1. ASSUME NEW n \in 0..(k - 1) PROVE v[n] = w[n]
    <3>1. n \in 0..k
      BY <1>2, <1>3
    <3>2. v[n] = [i \in Indexes |-> Walked(nodes, w, n, i)]
      BY <3>1
    <3>3. w[n] = [i \in Indexes |-> Walked(nodes, w, n, i)]
      BY <1>6
    <3>4. QED
      BY <3>2, <3>3
  <2>2. QED
    BY <2>1
<1> HIDE DEF v
<1>8. \A n \in 0..k, i \in Indexes :
          Walked(nodes, w, n, i) = Walked(nodes, v, n, i)
  <2>1. ASSUME NEW n \in 0..k, NEW i \in Indexes, n # 0
        PROVE  w[n - 1] = v[n - 1]
    <3>1. n - 1 \in 0..(k - 1)
      BY <1>2, <2>1
    <3>2. QED
      BY <1>7, <3>1
  <2>2. QED
    BY <2>1 DEF Walked
<1>9. v = [n \in 0..k |-> [i \in Indexes |-> Walked(nodes, v, n, i)]]
  BY <1>8 DEF v
<1>10. IsWalk(v, k)
  BY <1>9 DEF IsWalk
<1>11. QED
  BY <1>2, <1>10

(* The equation Walk is defined by.                                        *)
LEMMA WalkStep ==
    ASSUME NEW nodes, NEW n \in Steps, NEW i \in Indexes
    PROVE  Walk(nodes)[n][i] = Walked(nodes, Walk(nodes), n, i)
<1>1. VFS_MAX_NODES + 1 \in Nat
  BY SizesAssumption
<1>2. \E w : w = [k \in 0..(VFS_MAX_NODES + 1) |->
                    [j \in Indexes |-> Walked(nodes, w, k, j)]]
  BY <1>1, WalksExist
<1>3. Walk(nodes) = [k \in 0..(VFS_MAX_NODES + 1) |->
                       [j \in Indexes |-> Walked(nodes, Walk(nodes), k, j)]]
  BY <1>2 DEF Walk, Walked
<1> DEFINE w == Walk(nodes)
<1> HIDE DEF w
<1>4. w = [k \in Steps |-> [j \in Indexes |-> Walked(nodes, w, k, j)]]
  BY <1>3 DEF w, Steps
<1>5. w[n] = [j \in Indexes |-> Walked(nodes, w, n, j)]
  BY <1>4
<1>6. w[n][i] = Walked(nodes, w, n, i)
  BY <1>5
<1>7. QED
  BY <1>6 DEF w

(* The nodes are linked by links to older nodes.                           *)
Linked(nodes) ==
    /\ nodes \in Seq(Node) /\ Len(nodes) \in 1..VFS_MAX_NODES
    /\ \A i \in 1..Len(nodes) :
          nodes[i].next_sibling < i /\ nodes[i].first_child <= Len(nodes)

(* The list that begins at node i.                                         *)
ListFrom(nodes, i) == Walk(nodes)[VFS_MAX_NODES + 1][i]

(* A node's indexes are None or those of nodes; siblings come before it.   *)
LEMMA LinkedFacts ==
    ASSUME NEW nodes, Linked(nodes), NEW i \in 1..Len(nodes)
    PROVE  /\ Len(nodes) \in Nat /\ Len(nodes) <= VFS_MAX_NODES
           /\ i \in Nat /\ i # None /\ i \in Indexes
           /\ nodes[i] \in Node
           /\ nodes[i].next_sibling \in 0..(i - 1)
           /\ nodes[i].next_sibling \in 0..Len(nodes)
           /\ nodes[i].first_child \in 0..Len(nodes)
<1>1. nodes \in Seq(Node) /\ Len(nodes) \in 1..VFS_MAX_NODES
  BY DEF Linked
<1>2. nodes[i].next_sibling < i /\ nodes[i].first_child <= Len(nodes)
  BY DEF Linked
<1>3. nodes[i] \in Node
  BY <1>1
<1>4. nodes[i].next_sibling \in Indexes /\ nodes[i].first_child \in Indexes
  BY <1>3 DEF Node
<1>5. QED
  BY <1>1, <1>2, <1>3, <1>4, SizesAssumption DEF Indexes, None

(* vfs_nodes is a table without gaps.                                      *)
LEMMA LinkedDomain ==
    ASSUME NEW nodes, Linked(nodes)
    PROVE  DOMAIN nodes = 1..Len(nodes)
  BY DEF Linked

(* A walk from node i ends within i steps: VFS_MAX_NODES + 1 are enough.   *)
LEMMA WalkEnds ==
    ASSUME NEW nodes, Linked(nodes)
    PROVE  \A i \in 0..Len(nodes), n \in Steps :
               i <= n => Walk(nodes)[n][i] = ListFrom(nodes, i)
<1> DEFINE Bad == {i \in 0..Len(nodes) : \E n \in Steps :
                      i <= n /\ Walk(nodes)[n][i] # ListFrom(nodes, i)}
<1>1. SUFFICES ASSUME Bad # {} PROVE FALSE
  OBVIOUS
<1>2. Bad \in SUBSET Nat
  OBVIOUS
<1>3. PICK i \in Bad : \A j \in Bad : i <= j
  BY <1>1, <1>2, LeastExists
<1>4. PICK n \in Steps : i <= n /\ Walk(nodes)[n][i] # ListFrom(nodes, i)
  BY <1>3
<1>5. i \in 0..Len(nodes) /\ Len(nodes) \in 1..VFS_MAX_NODES
  BY <1>3 DEF Linked
<1>6. /\ i \in Indexes /\ n \in Nat /\ VFS_MAX_NODES + 1 \in Steps
      /\ i <= VFS_MAX_NODES
  BY <1>4, <1>5, SizesAssumption DEF Indexes, Steps
<1>7. CASE i = None
  <2>1. Walk(nodes)[n][i] = <<>>
    BY <1>6, <1>7, WalkStep DEF Walked
  <2>2. ListFrom(nodes, i) = <<>>
    BY <1>6, <1>7, WalkStep DEF Walked, ListFrom
  <2>3. QED
    BY <1>4, <2>1, <2>2
<1>8. CASE i # None
  <2>0. i \in 1..Len(nodes)
    BY <1>5, <1>8 DEF None
  <2>1. PICK s : s = nodes[i].next_sibling
    OBVIOUS
  <2>2. s \in 0..(i - 1) /\ s \in 0..Len(nodes)
    BY <2>0, <2>1, LinkedFacts
  <2>3. n # 0 /\ n - 1 \in Steps /\ s <= n - 1
    BY <1>4, <1>5, <1>6, <2>0, <2>2, SizesAssumption DEF Steps
  <2>4. VFS_MAX_NODES + 1 # 0 /\ (VFS_MAX_NODES + 1) - 1 \in Steps
        /\ s <= (VFS_MAX_NODES + 1) - 1
    BY <1>5, <1>6, <2>2, SizesAssumption DEF Steps
  <2>5. s \notin Bad
    BY <1>3, <1>5, <2>2
  <2>6. Walk(nodes)[n - 1][s] = ListFrom(nodes, s)
    BY <2>2, <2>3, <2>5
  <2>7. Walk(nodes)[(VFS_MAX_NODES + 1) - 1][s] = ListFrom(nodes, s)
    BY <2>2, <2>4, <2>5
  <2>8. Walk(nodes)[n][i] = <<i>> \o ListFrom(nodes, s)
    <3>1. Walk(nodes)[n][i] = Walked(nodes, Walk(nodes), n, i)
      BY <1>4, <1>6, WalkStep
    <3>2. Walk(nodes)[n][i] = <<i>> \o Walk(nodes)[n - 1][s]
      BY <1>8, <2>1, <2>3, <3>1 DEF Walked
    <3>3. QED
      BY <2>6, <3>2
  <2>9. ListFrom(nodes, i) = <<i>> \o ListFrom(nodes, s)
    BY <1>6, <1>8, <2>1, <2>4, <2>7, WalkStep DEF Walked, ListFrom
  <2>10. QED
    BY <1>4, <2>8, <2>9
<1>9. QED
  BY <1>7, <1>8

(* The list from a node is the node and the list from the next one.        *)
LEMMA ListStep ==
    ASSUME NEW nodes, Linked(nodes)
    PROVE  /\ ListFrom(nodes, None) = <<>>
           /\ \A i \in 1..Len(nodes) :
                 ListFrom(nodes, i) =
                     <<i>> \o ListFrom(nodes, nodes[i].next_sibling)
<1>1. VFS_MAX_NODES + 1 \in Steps /\ None \in Indexes
      /\ VFS_MAX_NODES + 1 # 0 /\ (VFS_MAX_NODES + 1) - 1 \in Steps
      /\ (VFS_MAX_NODES + 1) - 1 = VFS_MAX_NODES
  BY SizesAssumption DEF Steps, Indexes, None
<1>2. ListFrom(nodes, None) = <<>>
  BY <1>1, WalkStep DEF Walked, ListFrom
<1>3. ASSUME NEW i \in 1..Len(nodes)
      PROVE  ListFrom(nodes, i) =
                 <<i>> \o ListFrom(nodes, nodes[i].next_sibling)
  <2>1. PICK s : s = nodes[i].next_sibling
    OBVIOUS
  <2>2. i \in Indexes /\ i # None /\ s \in 0..Len(nodes)
        /\ s <= (VFS_MAX_NODES + 1) - 1
    BY <1>1, <2>1, LinkedFacts, SizesAssumption
  <2>3. ListFrom(nodes, i) =
            <<i>> \o Walk(nodes)[(VFS_MAX_NODES + 1) - 1][s]
    BY <1>1, <2>1, <2>2, WalkStep DEF Walked, ListFrom
  <2>4. Walk(nodes)[(VFS_MAX_NODES + 1) - 1][s] = ListFrom(nodes, s)
    BY <1>1, <2>2, WalkEnds
  <2>5. QED
    BY <2>1, <2>3, <2>4
<1>4. QED
  BY <1>2, <1>3

(* The list from a node goes down from it and never up.                    *)
Falls(l, i, bound) ==
    /\ l \in Seq(1..bound)
    /\ \A n \in 1..Len(l) : l[n] <= i
    /\ \A n \in 2..Len(l) : l[n - 1] > l[n]

(* A list that falls still does with a greater index in front.             *)
LEMMA FallsOn ==
    ASSUME NEW bound \in Nat, NEW i \in 1..bound, NEW s \in 0..(i - 1), NEW l,
           Falls(l, s, bound)
    PROVE  /\ Falls(<<i>> \o l, i, bound)
           /\ Len(<<i>> \o l) = 1 + Len(l)
           /\ Elements(<<i>> \o l) = {i} \cup Elements(l)
<1> DEFINE r == <<i>> \o l
<1>1. /\ l \in Seq(1..bound) /\ Len(l) \in Nat
      /\ \A n \in 1..Len(l) : l[n] \in 1..bound /\ l[n] <= s
      /\ \A n \in 2..Len(l) : l[n - 1] > l[n]
  BY DEF Falls
<1>2. /\ r \in Seq(1..bound) /\ Len(r) = 1 + Len(l)
      /\ r[1] = i
      /\ \A n \in 2..Len(r) : r[n] = l[n - 1]
  <2>1. <<i>> \in Seq(1..bound) /\ Len(<<i>>) = 1 /\ <<i>>[1] = i
    OBVIOUS
  <2>2. QED
    BY <1>1, <2>1, ConcatProperties
<1> HIDE DEF r
<1>3. \A n \in 2..Len(r) : n - 1 \in 1..Len(l) /\ r[n] <= s /\ r[n] \in Nat
  <2>1. ASSUME NEW n \in 2..Len(r)
        PROVE  n - 1 \in 1..Len(l) /\ r[n] <= s /\ r[n] \in Nat
    <3>1. n - 1 \in 1..Len(l) /\ r[n] = l[n - 1]
      BY <1>1, <1>2
    <3>2. QED
      BY <1>1, <3>1
  <2>2. QED
    BY <2>1
<1>4. \A n \in 1..Len(r) : r[n] <= i
  <2>1. ASSUME NEW n \in 1..Len(r) PROVE r[n] <= i
    <3>1. CASE n = 1
      BY <1>2, <3>1
    <3>2. CASE n # 1
      <4>1. n \in 2..Len(r)
        BY <1>1, <1>2, <3>2
      <4>2. r[n] <= s /\ r[n] \in Nat
        BY <1>3, <4>1
      <4>3. QED
        BY <4>2
    <3>3. QED
      BY <3>1, <3>2
  <2>2. QED
    BY <2>1
<1>5. \A n \in 2..Len(r) : r[n - 1] > r[n]
  <2>1. ASSUME NEW n \in 2..Len(r) PROVE r[n - 1] > r[n]
    <3>1. CASE n = 2
      <4>1. r[n - 1] = i /\ r[n] <= s /\ r[n] \in Nat
        BY <1>2, <1>3, <3>1
      <4>2. QED
        BY <4>1
    <3>2. CASE n # 2
      <4>1. n - 1 \in 2..Len(r) /\ n - 1 \in 2..Len(l)
        BY <1>1, <1>2, <3>2
      <4>2. r[n] = l[n - 1] /\ r[n - 1] = l[n - 1 - 1]
        BY <1>2, <4>1
      <4>3. QED
        BY <1>1, <4>1, <4>2
    <3>3. QED
      BY <3>1, <3>2
  <2>2. QED
    BY <2>1
<1>6. Elements(r) = {i} \cup Elements(l)
  <2>1. DOMAIN r = 1..Len(r) /\ DOMAIN l = 1..Len(l)
    BY <1>1, <1>2
  <2>2. ASSUME NEW x \in Elements(r) PROVE x \in {i} \cup Elements(l)
    <3>1. PICK n \in 1..Len(r) : x = r[n]
      BY <2>1 DEF Elements
    <3>2. n = 1 \/ n \in 2..Len(r)
      BY <1>1, <1>2
    <3>3. QED
      BY <1>2, <1>3, <2>1, <3>1, <3>2 DEF Elements
  <2>3. i \in Elements(r)
    <3>1. 1 \in 1..Len(r) /\ r[1] = i
      BY <1>1, <1>2
    <3>2. QED
      BY <2>1, <3>1 DEF Elements
  <2>4. ASSUME NEW x \in Elements(l) PROVE x \in Elements(r)
    <3>1. PICK n \in 1..Len(l) : x = l[n]
      BY <2>1 DEF Elements
    <3>2. n + 1 \in 2..Len(r) /\ n + 1 \in 1..Len(r) /\ (n + 1) - 1 = n
      BY <1>1, <1>2
    <3>3. r[n + 1] = x
      BY <1>2, <3>1, <3>2
    <3>4. QED
      BY <2>1, <3>2, <3>3 DEF Elements
  <2>5. QED
    BY <2>2, <2>3, <2>4
<1>7. QED
  BY <1>2, <1>4, <1>5, <1>6 DEF Falls, r

(* Following next_sibling from any node gives a list that falls; so it     *)
(* ends, and has no node twice.                                            *)
LEMMA ListFalls ==
    ASSUME NEW nodes, Linked(nodes)
    PROVE  \A i \in 0..Len(nodes) : Falls(ListFrom(nodes, i), i, Len(nodes))
<1> DEFINE Bad == {i \in 0..Len(nodes) :
                      ~Falls(ListFrom(nodes, i), i, Len(nodes))}
<1>1. SUFFICES ASSUME Bad # {} PROVE FALSE
  OBVIOUS
<1>2. Bad \in SUBSET Nat
  OBVIOUS
<1>3. PICK i \in Bad : \A j \in Bad : i <= j
  BY <1>1, <1>2, LeastExists
<1>4. i \in 0..Len(nodes) /\ Len(nodes) \in Nat
      /\ ~Falls(ListFrom(nodes, i), i, Len(nodes))
  BY <1>3 DEF Linked
<1>5. CASE i = None
  <2>1. ListFrom(nodes, i) = <<>>
    BY <1>5, ListStep
  <2>2. Falls(<<>>, i, Len(nodes))
    BY DEF Falls
  <2>3. QED
    BY <1>4, <2>1, <2>2
<1>6. CASE i # None
  <2>0. i \in 1..Len(nodes)
    BY <1>4, <1>6 DEF None
  <2>1. PICK s : s = nodes[i].next_sibling
    OBVIOUS
  <2>2. s \in 0..(i - 1) /\ s \in 0..Len(nodes)
    BY <2>0, <2>1, LinkedFacts
  <2>3. s \notin Bad
    BY <1>3, <1>4, <2>2
  <2>4. Falls(ListFrom(nodes, s), s, Len(nodes))
    BY <2>2, <2>3
  <2>5. Falls(<<i>> \o ListFrom(nodes, s), i, Len(nodes))
    BY <1>4, <2>0, <2>2, <2>4, FallsOn
  <2>6. ListFrom(nodes, i) = <<i>> \o ListFrom(nodes, s)
    BY <2>0, <2>1, ListStep
  <2>7. QED
    BY <1>4, <2>5, <2>6
<1>7. QED
  BY <1>5, <1>6

(* Lists depend on nothing but the links, and new nodes leave them alone.  *)
LEMMA ListsStay ==
    ASSUME NEW nodes, Linked(nodes), NEW later, Linked(later),
           Len(nodes) <= Len(later),
           \A i \in 1..Len(nodes) :
               later[i].next_sibling = nodes[i].next_sibling
    PROVE  \A i \in 0..Len(nodes) : ListFrom(later, i) = ListFrom(nodes, i)
<1> DEFINE Bad == {i \in 0..Len(nodes) :
                      ListFrom(later, i) # ListFrom(nodes, i)}
<1>1. SUFFICES ASSUME Bad # {} PROVE FALSE
  OBVIOUS
<1>2. Bad \in SUBSET Nat
  OBVIOUS
<1>3. PICK i \in Bad : \A j \in Bad : i <= j
  BY <1>1, <1>2, LeastExists
<1>4. i \in 0..Len(nodes) /\ Len(nodes) \in Nat /\ Len(later) \in Nat
      /\ ListFrom(later, i) # ListFrom(nodes, i)
  BY <1>3 DEF Linked
<1>5. CASE i = None
  BY <1>4, <1>5, ListStep
<1>6. CASE i # None
  <2>0. i \in 1..Len(nodes) /\ i \in 1..Len(later)
    BY <1>4, <1>6 DEF None
  <2>1. PICK s : s = nodes[i].next_sibling
    OBVIOUS
  <2>2. s \in 0..(i - 1) /\ s \in 0..Len(nodes)
    BY <2>0, <2>1, LinkedFacts
  <2>3. s \notin Bad
    BY <1>3, <1>4, <2>2
  <2>4. ListFrom(later, s) = ListFrom(nodes, s)
    BY <2>2, <2>3
  <2>5. ListFrom(nodes, i) = <<i>> \o ListFrom(nodes, s)
    BY <2>0, <2>1, ListStep
  <2>6. ListFrom(later, i) = <<i>> \o ListFrom(later, s)
    BY <2>0, <2>1, ListStep
  <2>7. QED
    BY <1>4, <2>4, <2>5, <2>6
<1>7. QED
  BY <1>5, <1>6

-----------------------------------------------------------------------------
(* Paths and new nodes.                                                    *)

(* vfs_find_node returns the first node with the path, if there is one.    *)
LEMMA FindFacts ==
    ASSUME NEW nodes, Linked(nodes), NEW path
    PROVE  /\ Find(nodes, path) \in 0..Len(nodes)
           /\ Find(nodes, path) # None =>
                 /\ Find(nodes, path) \in 1..Len(nodes)
                 /\ nodes[Find(nodes, path)].path = path
                 /\ \A i \in 1..Len(nodes) :
                       nodes[i].path = path => Find(nodes, path) <= i
           /\ Find(nodes, path) = None =>
                 \A i \in 1..Len(nodes) : nodes[i].path # path
<1>1. DOMAIN nodes = 1..Len(nodes) /\ Len(nodes) \in Nat
  BY DEF Linked
<1> DEFINE found == {i \in DOMAIN nodes : nodes[i].path = path}
<1>2. CASE found = {}
  <2>1. Find(nodes, path) = None
    BY <1>2 DEF Find
  <2>2. QED
    BY <1>1, <1>2, <2>1 DEF None
<1>3. CASE found # {}
  <2>1. Find(nodes, path) = CHOOSE i \in found : \A j \in found : i <= j
    BY <1>3 DEF Find
  <2>2. found \in SUBSET Nat
    BY <1>1
  <2>3. \E i \in found : \A j \in found : i <= j
    BY <1>3, <2>2, LeastExists
  <2> HIDE DEF found
  <2>4. Find(nodes, path) \in found
        /\ \A j \in found : Find(nodes, path) <= j
    BY <2>1, <2>3
  <2>5. QED
    BY <1>1, <2>4 DEF found, None
<1>4. QED
  BY <1>2, <1>3

(* The parent of a path is a node, or missing.                             *)
LEMMA ParentFacts ==
    ASSUME NEW nodes, Linked(nodes), NEW path
    PROVE  Parent(nodes, path) \in 0..Len(nodes)
<1>1. Root \in 0..Len(nodes)
  BY DEF Linked, Root
<1>2. QED
  BY <1>1, FindFacts DEF Parent

(* Of a node that is made, and of the others, when it becomes the first    *)
(* child of its parent.                                                    *)
LEMMA AddNodeFields ==
    ASSUME NEW nodes, Linked(nodes), Len(nodes) < VFS_MAX_NODES,
           NEW path \in AllPaths, NEW dir \in BOOLEAN,
           NEW later, later = AddNode(nodes, path, dir),
           NEW idx, idx = Len(nodes) + 1,
           NEW parent, parent = Parent(nodes, path)
    PROVE  /\ later \in Seq(Node) /\ Len(later) = idx
           /\ idx \in 1..VFS_MAX_NODES /\ idx \in Nat
           /\ \A i \in 1..Len(nodes) :
                 /\ later[i].path = nodes[i].path
                 /\ later[i].dir = nodes[i].dir
                 /\ later[i].data = nodes[i].data
                 /\ later[i].next_sibling = nodes[i].next_sibling
                 /\ later[i].first_child =
                       IF i = parent THEN idx ELSE nodes[i].first_child
           /\ later[idx].path = path /\ later[idx].dir = dir
           /\ later[idx].data = None /\ later[idx].first_child = None
           /\ later[idx].next_sibling =
                 IF parent = None THEN None ELSE nodes[parent].first_child
<1> DEFINE node == [path |-> path, dir |-> dir, data |-> None,
                    first_child |-> None,
                    next_sibling |-> IF parent = None THEN None
                                     ELSE nodes[parent].first_child]
           linked == IF parent = None THEN nodes
                     ELSE [nodes EXCEPT ![parent].first_child = idx]
<1>1. /\ nodes \in Seq(Node) /\ Len(nodes) \in Nat
      /\ parent \in 0..Len(nodes)
      /\ idx \in 1..VFS_MAX_NODES /\ idx \in Nat /\ idx \in Indexes
  BY ParentFacts, SizesAssumption DEF Linked, Indexes
<1>2. later = Append(linked, node)
  BY DEF AddNode
<1>3. node \in Node
  <2>1. ASSUME parent # None PROVE nodes[parent].first_child \in Indexes
    <3>1. parent \in 1..Len(nodes)
      BY <1>1, <2>1 DEF None
    <3>2. nodes[parent] \in Node
      BY <1>1, <3>1
    <3>3. QED
      BY <3>2 DEF Node
  <2>2. None \in Indexes
    BY SizesAssumption DEF None, Indexes
  <2>3. QED
    BY <2>1, <2>2 DEF Node
<1>4. /\ linked \in Seq(Node) /\ Len(linked) = Len(nodes)
      /\ \A i \in 1..Len(nodes) :
            linked[i] = IF i = parent
                        THEN [nodes[i] EXCEPT !.first_child = idx]
                        ELSE nodes[i]
  <2>1. CASE parent = None
    BY <1>1, <2>1 DEF None
  <2>2. CASE parent # None
    <3>1. parent \in 1..Len(nodes) /\ nodes[parent] \in Node
      BY <1>1, <2>2 DEF None
    <3>2. PICK n : n = [nodes[parent] EXCEPT !.first_child = idx]
      OBVIOUS
    <3>3. n \in Node
      BY <1>1, <3>1, <3>2 DEF Node
    <3>4. linked = [nodes EXCEPT ![parent] = n]
      BY <2>2, <3>2
    <3>5. QED
      BY <1>1, <3>1, <3>2, <3>3, <3>4, ExceptSeq
  <2>3. QED
    BY <2>1, <2>2
<1> HIDE DEF linked
<1>5. /\ later \in Seq(Node) /\ Len(later) = idx
      /\ \A i \in 1..Len(nodes) : later[i] = linked[i]
      /\ later[idx] = node
  BY <1>1, <1>2, <1>3, <1>4, AppendProperties
<1>6. ASSUME NEW i \in 1..Len(nodes)
      PROVE  /\ later[i].path = nodes[i].path
             /\ later[i].dir = nodes[i].dir
             /\ later[i].data = nodes[i].data
             /\ later[i].next_sibling = nodes[i].next_sibling
             /\ later[i].first_child =
                   IF i = parent THEN idx ELSE nodes[i].first_child
  <2>1. nodes[i] \in Node
    BY <1>1
  <2>2. CASE i = parent
    <3>1. later[i] = [nodes[i] EXCEPT !.first_child = idx]
      BY <1>4, <1>5, <2>2
    <3>2. QED
      BY <2>1, <2>2, <3>1 DEF Node
  <2>3. CASE i # parent
    BY <1>4, <1>5, <2>3
  <2>4. QED
    BY <2>2, <2>3
<1>7. QED
  BY <1>1, <1>5, <1>6

(* A new node is put in front of its parent's list; other lists stay.      *)
LEMMA AddNodeChildren ==
    ASSUME NEW nodes, Linked(nodes), Len(nodes) < VFS_MAX_NODES,
           NEW path \in AllPaths, NEW dir \in BOOLEAN,
           NEW later, later = AddNode(nodes, path, dir),
           NEW idx, idx = Len(nodes) + 1,
           NEW parent, parent = Parent(nodes, path)
    PROVE  /\ Linked(later)
           /\ Children(later, idx) = <<>>
           /\ \A i \in 1..Len(nodes) :
                 Children(later, i) = IF i = parent
                                      THEN <<idx>> \o Children(nodes, i)
                                      ELSE Children(nodes, i)
<1>1. /\ later \in Seq(Node) /\ Len(later) = idx
      /\ idx \in 1..VFS_MAX_NODES /\ idx \in Nat
      /\ \A i \in 1..Len(nodes) :
            /\ later[i].next_sibling = nodes[i].next_sibling
            /\ later[i].first_child =
                  IF i = parent THEN idx ELSE nodes[i].first_child
      /\ later[idx].first_child = None
      /\ later[idx].next_sibling =
            IF parent = None THEN None ELSE nodes[parent].first_child
  BY AddNodeFields
<1>2. parent \in 0..Len(nodes) /\ Len(nodes) \in Nat
  BY ParentFacts DEF Linked
<1>3. parent # None => /\ parent \in 1..Len(nodes)
                       /\ nodes[parent].first_child \in 0..Len(nodes)
  BY <1>2, LinkedFacts DEF None
<1>4. Linked(later)
  <2>1. ASSUME NEW i \in 1..Len(later)
        PROVE  later[i].next_sibling < i /\ later[i].first_child <= Len(later)
    <3>1. CASE i = idx
      BY <1>1, <1>2, <1>3, <3>1 DEF None
    <3>2. CASE i # idx
      <4>1. i \in 1..Len(nodes)
        BY <1>1, <1>2, <3>2
      <4>2. nodes[i].next_sibling \in 0..(i - 1)
            /\ nodes[i].first_child \in 0..Len(nodes)
        BY <4>1, LinkedFacts
      <4>3. QED
        BY <1>1, <1>2, <4>1, <4>2
    <3>3. QED
      BY <3>1, <3>2
  <2>2. QED
    BY <1>1, <2>1 DEF Linked
<1>5. \A i \in 0..Len(nodes) : ListFrom(later, i) = ListFrom(nodes, i)
  BY <1>1, <1>2, <1>4, ListsStay
<1>6. Children(later, idx) = <<>>
  BY <1>1, <1>4, ListStep DEF Children, ListFrom
<1>7. ASSUME NEW i \in 1..Len(nodes)
      PROVE  Children(later, i) = IF i = parent
                                  THEN <<idx>> \o Children(nodes, i)
                                  ELSE Children(nodes, i)
  <2>1. Children(nodes, i) = ListFrom(nodes, nodes[i].first_child)
    BY DEF Children, ListFrom
  <2>2. Children(later, i) = ListFrom(later, later[i].first_child)
    BY DEF Children, ListFrom
  <2>3. nodes[i].first_child \in 0..Len(nodes)
    BY LinkedFacts
  <2>4. CASE i = parent
    <3>1. Children(later, i) = ListFrom(later, idx)
      BY <1>1, <2>2, <2>4
    <3>2. ListFrom(later, idx) =
              <<idx>> \o ListFrom(later, later[idx].next_sibling)
      BY <1>1, <1>4, ListStep
    <3>3. later[idx].next_sibling = nodes[i].first_child
      BY <1>1, <1>2, <2>4 DEF None
    <3>4. QED
      BY <1>5, <2>1, <2>3, <2>4, <3>1, <3>2, <3>3
  <2>5. CASE i # parent
    BY <1>1, <1>5, <2>1, <2>2, <2>3, <2>5
  <2>6. QED
    BY <2>4, <2>5
<1>8. QED
  BY <1>4, <1>6, <1>7

(* Nodes made later leave the paths and the links of the earlier alone.    *)
Extends(nodes, later) ==
    /\ Linked(nodes) /\ Linked(later) /\ Len(nodes) <= Len(later)
    /\ \A i \in 1..Len(nodes) :
          /\ later[i].path = nodes[i].path
          /\ later[i].next_sibling = nodes[i].next_sibling

(* They do not hide what was at a path before.                             *)
LEMMA FindStays ==
    ASSUME NEW nodes, NEW later, Extends(nodes, later), NEW path
    PROVE  /\ Find(nodes, path) # None => Find(later, path) = Find(nodes, path)
           /\ Find(nodes, path) = None =>
                 \/ Find(later, path) = None
                 \/ Find(later, path) \in (Len(nodes) + 1)..Len(later)
<1> PICK f : f = Find(nodes, path)
  OBVIOUS
<1> PICK g : g = Find(later, path)
  OBVIOUS
<1>1. /\ Len(nodes) \in Nat /\ Len(later) \in Nat /\ Len(nodes) <= Len(later)
      /\ \A i \in 1..Len(nodes) : later[i].path = nodes[i].path
  BY DEF Extends, Linked
<1>2. /\ f \in 0..Len(nodes) /\ g \in 0..Len(later)
      /\ f # None => /\ f \in 1..Len(nodes) /\ nodes[f].path = path
                     /\ \A i \in 1..Len(nodes) : nodes[i].path = path => f <= i
      /\ f = None => \A i \in 1..Len(nodes) : nodes[i].path # path
      /\ g # None => /\ g \in 1..Len(later) /\ later[g].path = path
                     /\ \A i \in 1..Len(later) : later[i].path = path => g <= i
      /\ g = None => \A i \in 1..Len(later) : later[i].path # path
  BY FindFacts DEF Extends
<1>3. CASE f # None
  <2>1. f \in 1..Len(later) /\ later[f].path = path
    BY <1>1, <1>2, <1>3
  <2>2. g # None /\ g <= f
    BY <1>2, <2>1
  <2>3. g \in 1..Len(nodes)
    BY <1>1, <1>2, <1>3, <2>2
  <2>4. f <= g
    BY <1>1, <1>2, <1>3, <2>2, <2>3
  <2>5. QED
    BY <1>2, <1>3, <2>2, <2>4
<1>4. CASE f = None
  <2>1. g # None => g \notin 1..Len(nodes)
    BY <1>1, <1>2, <1>4
  <2>2. QED
    BY <1>1, <1>2, <1>4, <2>1
<1>5. QED
  BY <1>3, <1>4

(* A node that has a parent keeps it when nodes are appended.              *)
LEMMA ParentStays ==
    ASSUME NEW nodes, NEW later, Extends(nodes, later), NEW path
    PROVE  \A i \in 1..Len(nodes) :
              i = Parent(later, path) <=> i = Parent(nodes, path)
<1>1. CASE Len(path) = 1 \/ Front(path) = <<"">>
  BY <1>1 DEF Parent
<1>2. CASE ~(Len(path) = 1 \/ Front(path) = <<"">>)
  <2>1. Parent(later, path) = Find(later, Front(path))
        /\ Parent(nodes, path) = Find(nodes, Front(path))
    BY <1>2 DEF Parent
  <2>2. Len(nodes) \in Nat
    BY DEF Extends, Linked
  <2>3. ASSUME NEW i \in 1..Len(nodes)
        PROVE  i # None /\ i \notin (Len(nodes) + 1)..Len(later)
    BY <2>2 DEF None
  <2>4. QED
    BY <2>1, <2>3, FindStays
<1>3. QED
  BY <1>1, <1>2

(* What a directory lists, without the order.                              *)
Listed(nodes, i) ==
    {j \in DOMAIN nodes : i < j /\ i = Parent(nodes, nodes[j].path)}

ListsOK(nodes) ==
    \A i \in DOMAIN nodes : Elements(Children(nodes, i)) = Listed(nodes, i)

(* A new node is listed by its parent, and nothing else changes.           *)
LEMMA AddNodeLists ==
    ASSUME NEW nodes, Linked(nodes), Len(nodes) < VFS_MAX_NODES,
           ListsOK(nodes),
           NEW path \in AllPaths, NEW dir \in BOOLEAN,
           NEW later, later = AddNode(nodes, path, dir)
    PROVE  Extends(nodes, later) /\ ListsOK(later)
<1> PICK idx : idx = Len(nodes) + 1
  OBVIOUS
<1> PICK parent : parent = Parent(nodes, path)
  OBVIOUS
<1>1. /\ later \in Seq(Node) /\ Len(later) = idx
      /\ Len(nodes) \in Nat /\ idx \in Nat
      /\ \A i \in 1..Len(nodes) :
            /\ later[i].path = nodes[i].path
            /\ later[i].next_sibling = nodes[i].next_sibling
      /\ later[idx].path = path
  BY AddNodeFields DEF Linked
<1>2. /\ Linked(later)
      /\ Children(later, idx) = <<>>
      /\ \A i \in 1..Len(nodes) :
            Children(later, i) = IF i = parent
                                 THEN <<idx>> \o Children(nodes, i)
                                 ELSE Children(nodes, i)
  BY AddNodeChildren
<1>3. Extends(nodes, later)
  BY <1>1, <1>2 DEF Extends
<1>4. DOMAIN nodes = 1..Len(nodes) /\ DOMAIN later = 1..idx
  BY <1>1 DEF Linked
<1>5. ASSUME NEW i \in 1..Len(nodes)
      PROVE  Listed(later, i) = IF i = parent THEN {idx} \cup Listed(nodes, i)
                                ELSE Listed(nodes, i)
  <2>1. ASSUME NEW j \in 1..Len(nodes)
        PROVE  j \in Listed(later, i) <=> j \in Listed(nodes, i)
    <3>1. j \in DOMAIN nodes /\ j \in DOMAIN later
          /\ later[j].path = nodes[j].path
      BY <1>1, <1>4
    <3>2. i = Parent(later, nodes[j].path) <=> i = Parent(nodes, nodes[j].path)
      BY <1>3, ParentStays
    <3>3. QED
      BY <3>1, <3>2 DEF Listed
  <2>2. idx \in Listed(later, i) <=> i = parent
    <3>1. idx \in DOMAIN later /\ i < idx
      BY <1>1, <1>4
    <3>2. i = Parent(later, path) <=> i = Parent(nodes, path)
      BY <1>3, ParentStays
    <3>3. QED
      BY <1>1, <3>1, <3>2 DEF Listed
  <2>3. idx \notin Listed(nodes, i)
    BY <1>1, <1>4 DEF Listed
  <2>4. /\ Listed(later, i) \subseteq 1..idx
        /\ Listed(nodes, i) \subseteq 1..Len(nodes)
    BY <1>4 DEF Listed
  <2>5. \A j \in 1..idx : j \in 1..Len(nodes) \/ j = idx
    BY <1>1
  <2>6. idx \notin 1..Len(nodes) /\ 1..Len(nodes) \subseteq 1..idx
    BY <1>1
  <2>7. \A j : j \in Listed(later, i) <=>
                  j \in Listed(nodes, i) \/ (j = idx /\ i = parent)
    <3>1. ASSUME NEW j PROVE j \in Listed(later, i) <=>
                  j \in Listed(nodes, i) \/ (j = idx /\ i = parent)
      <4>1. CASE j \in 1..Len(nodes)
        BY <2>1, <2>6, <4>1
      <4>2. CASE j = idx
        BY <2>2, <2>3, <4>2
      <4>3. CASE j \notin 1..Len(nodes) /\ j # idx
        BY <2>4, <2>5, <4>3
      <4>4. QED
        BY <4>1, <4>2, <4>3
    <3>2. QED
      BY <3>1
  <2>8. QED
    BY <2>7
<1>6. ASSUME NEW i \in 1..Len(nodes)
      PROVE  Elements(Children(later, i)) = Listed(later, i)
  <2>1. Elements(Children(nodes, i)) = Listed(nodes, i)
    BY <1>4 DEF ListsOK
  <2>2. CASE i = parent
    <3>1. nodes[i].first_child \in 0..Len(nodes)
      BY LinkedFacts
    <3>2. PICK s : s = nodes[i].first_child
      OBVIOUS
    <3>3. Falls(Children(nodes, i), s, Len(nodes))
      BY <3>1, <3>2, ListFalls DEF Children, ListFrom
    <3>4. s \in 0..(idx - 1) /\ idx \in 1..idx
      BY <1>1, <3>1, <3>2
    <3>5. Falls(Children(nodes, i), s, idx)
      <4>1. Children(nodes, i) \in Seq(1..Len(nodes))
        BY <3>3 DEF Falls
      <4>2. Children(nodes, i) \in Seq(1..idx)
        BY <1>1, <4>1
      <4>3. QED
        BY <3>3, <4>2 DEF Falls
    <3>6. Elements(<<idx>> \o Children(nodes, i))
             = {idx} \cup Elements(Children(nodes, i))
      BY <1>1, <3>4, <3>5, FallsOn
    <3>7. QED
      BY <1>2, <1>5, <2>1, <2>2, <3>6
  <2>3. CASE i # parent
    BY <1>2, <1>5, <2>1, <2>3
  <2>4. QED
    BY <2>2, <2>3
<1>7. Elements(Children(later, idx)) = Listed(later, idx)
  <2>1. Elements(<<>>) = {}
    BY DEF Elements
  <2>2. Listed(later, idx) = {}
    BY <1>1, <1>4 DEF Listed
  <2>3. QED
    BY <1>2, <2>1, <2>2
<1>8. \A i \in 1..idx : i \in 1..Len(nodes) \/ i = idx
  BY <1>1
<1>9. ListsOK(later)
  BY <1>4, <1>6, <1>7, <1>8 DEF ListsOK
<1>10. QED
  BY <1>3, <1>9

(* New contents do not move a node.                                        *)
SetData(nodes, fd, b) == [nodes EXCEPT ![fd].data = b]

(* A write changes one node's buffer and no list.                          *)
LEMMA SetDataLists ==
    ASSUME NEW nodes, Linked(nodes), ListsOK(nodes),
           NEW fd \in 1..Len(nodes), NEW b \in Buffers,
           NEW later, later = SetData(nodes, fd, b)
    PROVE  /\ Extends(nodes, later) /\ ListsOK(later)
           /\ Len(later) = Len(nodes)
           /\ \A i \in 1..Len(nodes) :
                 /\ later[i].path = nodes[i].path
                 /\ later[i].dir = nodes[i].dir
                 /\ later[i].data = IF i = fd THEN b ELSE nodes[i].data
                 /\ Children(later, i) = Children(nodes, i)
           /\ \A path : Find(later, path) = Find(nodes, path)
<1>1. /\ nodes \in Seq(Node) /\ Len(nodes) \in Nat
      /\ Len(nodes) \in 1..VFS_MAX_NODES
      /\ \A i \in 1..Len(nodes) :
            nodes[i].next_sibling < i /\ nodes[i].first_child <= Len(nodes)
  BY DEF Linked
<1>2. PICK node : node = [nodes[fd] EXCEPT !.data = b]
  OBVIOUS
<1>3. nodes[fd] \in Node
  BY <1>1
<1>4. /\ node \in Node /\ node.path = nodes[fd].path
      /\ node.dir = nodes[fd].dir /\ node.data = b
      /\ node.first_child = nodes[fd].first_child
      /\ node.next_sibling = nodes[fd].next_sibling
  BY <1>2, <1>3 DEF Node
<1>5. later = [nodes EXCEPT ![fd] = node]
  BY <1>2 DEF SetData
<1>6. /\ later \in Seq(Node) /\ Len(later) = Len(nodes)
      /\ \A i \in 1..Len(nodes) : later[i] = IF i = fd THEN node ELSE nodes[i]
  BY <1>1, <1>4, <1>5, ExceptSeq
<1>7. \A i \in 1..Len(nodes) :
         /\ later[i].path = nodes[i].path
         /\ later[i].dir = nodes[i].dir
         /\ later[i].data = IF i = fd THEN b ELSE nodes[i].data
         /\ later[i].first_child = nodes[i].first_child
         /\ later[i].next_sibling = nodes[i].next_sibling
  BY <1>4, <1>6
<1>8. Linked(later)
  BY <1>1, <1>6, <1>7 DEF Linked
<1>9. Extends(nodes, later) /\ Extends(later, nodes)
  BY <1>1, <1>6, <1>7, <1>8 DEF Extends
<1>10. \A i \in 0..Len(nodes) : ListFrom(later, i) = ListFrom(nodes, i)
  <2>1. Len(nodes) <= Len(later)
    BY <1>1, <1>6
  <2>2. \A i \in 1..Len(nodes) :
           later[i].next_sibling = nodes[i].next_sibling
    BY <1>7
  <2>3. QED
    BY <1>8, <2>1, <2>2, ListsStay
<1>11. \A i \in 1..Len(nodes) : Children(later, i) = Children(nodes, i)
  BY <1>7, <1>10, LinkedFacts DEF Children, ListFrom
<1>12. \A path : Find(later, path) = Find(nodes, path)
  <2>1. ASSUME NEW path PROVE Find(later, path) = Find(nodes, path)
    BY <1>9, FindStays
  <2>2. QED
    BY <2>1
<1>13. DOMAIN nodes = 1..Len(nodes) /\ DOMAIN later = 1..Len(nodes)
  BY <1>1, <1>6
<1>14. ASSUME NEW i \in 1..Len(nodes) PROVE Listed(later, i) = Listed(nodes, i)
  <2>1. \A j \in 1..Len(nodes) : later[j].path = nodes[j].path
    BY <1>7
  <2>2. \A j \in 1..Len(nodes) :
           i = Parent(later, nodes[j].path) <=> i = Parent(nodes, nodes[j].path)
    BY <1>9, ParentStays
  <2>3. QED
    BY <1>13, <2>1, <2>2 DEF Listed
<1>15. ListsOK(later)
  BY <1>11, <1>13, <1>14 DEF ListsOK
<1>16. QED
  BY <1>6, <1>7, <1>9, <1>11, <1>12, <1>15

(* The root alone.                                                         *)
LEMMA RootAlone ==
    ASSUME NEW nodes,
           nodes = << [path |-> RootPath, dir |-> TRUE, data |-> None,
                       first_child |-> None, next_sibling |-> None] >>
    PROVE  Linked(nodes) /\ ListsOK(nodes) /\ Len(nodes) = 1
           /\ nodes[1].data = None
<1>1. Len(nodes) = 1 /\ DOMAIN nodes = {1}
  OBVIOUS
<1>2. /\ nodes[1].next_sibling = None /\ nodes[1].first_child = None
      /\ nodes[1].data = None
  OBVIOUS
<1>3. nodes[1] \in Node
  <2>1. /\ RootPath \in AllPaths /\ None \in Indexes
        /\ None \in Buffers \cup {None}
    BY SizesAssumption DEF AllPaths, None, Indexes
  <2>2. QED
    BY <2>1 DEF Node
<1>4. Linked(nodes)
  <2>1. nodes \in Seq(Node) /\ Len(nodes) \in 1..VFS_MAX_NODES
    BY <1>1, <1>3, SizesAssumption
  <2>2. QED
    BY <1>1, <1>2, <2>1 DEF Linked, None
<1>5. Children(nodes, 1) = <<>>
  BY <1>2, <1>4, ListStep DEF Children, ListFrom
<1>6. Elements(<<>>) = {} /\ Listed(nodes, 1) = {}
  BY <1>1 DEF Elements, Listed
<1>7. QED
  BY <1>1, <1>2, <1>4, <1>5, <1>6 DEF ListsOK

-----------------------------------------------------------------------------
(* The file system's inductive invariant.                                  *)

(* Each buffer in use has one file; a file's buffer is in use.             *)
OwnedOK(nodes, buffers) ==
    /\ \A b \in buffers : \E i \in 1..Len(nodes) : nodes[i].data = b
    /\ \A i \in 1..Len(nodes) : nodes[i].data # None =>
          /\ nodes[i].data \in buffers
          /\ \A j \in 1..Len(nodes) : nodes[j].data = nodes[i].data => i = j

FilesInv ==
    /\ FilesTypeOK /\ Linked(vfs_nodes) /\ ListsOK(vfs_nodes)
    /\ OwnedOK(vfs_nodes, allocated)

(* While fs_init makes them, no node has a buffer.                         *)
AllEmpty(nodes, k) ==
    /\ Linked(nodes) /\ ListsOK(nodes) /\ Len(nodes) = k
    /\ \A i \in 1..k : nodes[i].data = None

(* fs_init's nodes have no buffer.                                         *)
LEMMA AddEmptyNode ==
    ASSUME NEW k \in Nat, k < VFS_MAX_NODES, NEW nodes, AllEmpty(nodes, k),
           NEW path \in AllPaths, NEW dir \in BOOLEAN
    PROVE  /\ AllEmpty(AddNode(nodes, path, dir), k + 1)
           /\ AddNode(nodes, path, dir)[k + 1].path = path
<1> PICK later : later = AddNode(nodes, path, dir)
  OBVIOUS
<1>1. Linked(nodes) /\ ListsOK(nodes) /\ Len(nodes) = k
      /\ Len(nodes) < VFS_MAX_NODES
      /\ \A i \in 1..k : nodes[i].data = None
  BY DEF AllEmpty
<1>2. Linked(later) /\ ListsOK(later)
  BY <1>1, AddNodeLists DEF Extends
<1> PICK idx : idx = Len(nodes) + 1
  OBVIOUS
<1>3. /\ Len(later) = idx /\ later[idx].path = path /\ later[idx].data = None
      /\ \A i \in 1..Len(nodes) : later[i].data = nodes[i].data
  BY <1>1, AddNodeFields
<1>4. idx = k + 1 /\ \A i \in 1..(k + 1) : i \in 1..k \/ i = idx
  BY <1>1
<1>5. QED
  BY <1>1, <1>2, <1>3, <1>4 DEF AllEmpty

Rooted == << [path |-> RootPath, dir |-> TRUE, data |-> None,
              first_child |-> None, next_sibling |-> None] >>

(* The three nodes of fs_init.                                             *)
LEMMA FsInitNodes ==
    ASSUME NEW nodes,
           nodes = AddNode(AddNode(Rooted, DirPath, TRUE), FilePath, FALSE)
    PROVE  /\ Linked(nodes) /\ ListsOK(nodes) /\ Len(nodes) = 3
           /\ \A i \in 1..3 : nodes[i].data = None
           /\ nodes[3].path = FilePath
<1>1. PICK n1 : n1 = Rooted
  OBVIOUS
<1>2. PICK n2 : n2 = AddNode(n1, DirPath, TRUE)
  OBVIOUS
<1>3. nodes = AddNode(n2, FilePath, FALSE)
  BY <1>1, <1>2
<1>4. AllEmpty(n1, 1)
  BY <1>1, RootAlone DEF AllEmpty, Rooted
<1>5. DirPath \in AllPaths /\ FilePath \in AllPaths
      /\ TRUE \in BOOLEAN /\ FALSE \in BOOLEAN
  BY DEF AllPaths
<1>6. /\ 1 \in Nat /\ 1 < VFS_MAX_NODES /\ 2 \in Nat /\ 2 < VFS_MAX_NODES
      /\ 1 + 1 = 2 /\ 2 + 1 = 3
  BY SizesAssumption
<1>7. AllEmpty(n2, 1 + 1)
  BY <1>2, <1>4, <1>5, <1>6, AddEmptyNode, Zenon
<1>8. AllEmpty(n2, 2)
  BY <1>6, <1>7
<1>9. AllEmpty(nodes, 2 + 1) /\ nodes[2 + 1].path = FilePath
  <2>1. PICK k \in Nat : k = 2
    BY <1>6
  <2>2. AllEmpty(n2, k) /\ k < VFS_MAX_NODES
    BY <1>6, <1>8, <2>1
  <2>3. /\ AllEmpty(AddNode(n2, FilePath, FALSE), k + 1)
        /\ AddNode(n2, FilePath, FALSE)[k + 1].path = FilePath
    BY <1>5, <2>2, AddEmptyNode
  <2>4. QED
    BY <1>3, <2>1, <2>3
<1>10. QED
  BY <1>6, <1>9 DEF AllEmpty

(* fs_init establishes the invariant of the files.                         *)
LEMMA FilesInit == Init => FilesInv
<1> SUFFICES ASSUME Init PROVE FilesInv
  OBVIOUS
<1>1. PICK n3 : n3 = AddNode(AddNode(Rooted, DirPath, TRUE), FilePath, FALSE)
  OBVIOUS
<1>2. PICK fd : fd = Find(n3, FilePath)
  OBVIOUS
<1>3. /\ Linked(n3) /\ ListsOK(n3) /\ Len(n3) = 3
      /\ \A i \in 1..3 : n3[i].data = None
      /\ n3[3].path = FilePath
  BY <1>1, FsInitNodes
<1>4. fd \in 1..Len(n3)
  <2>1. fd # None
    BY <1>2, <1>3, FindFacts
  <2>2. QED
    BY <1>2, <1>3, <2>1, FindFacts
<1>5. PICK b \in Buffers, chunk \in Chunks :
         /\ vfs_nodes = SetData(n3, fd, b)
         /\ allocated = {b}
         /\ memory = [x \in Buffers |-> IF x = b THEN <<chunk>> ELSE <<>>]
  BY <1>1, <1>2 DEF Init, Rooted, SetData
<1>6. /\ Extends(n3, vfs_nodes) /\ ListsOK(vfs_nodes)
      /\ Len(vfs_nodes) = Len(n3)
      /\ \A i \in 1..Len(n3) :
            vfs_nodes[i].data = IF i = fd THEN b ELSE n3[i].data
  <2>1. Linked(n3) /\ ListsOK(n3)
    BY <1>3
  <2>2. b \in Buffers /\ vfs_nodes = SetData(n3, fd, b)
    BY <1>5
  <2>3. QED
    BY <1>4, <2>1, <2>2, SetDataLists
<1>7. Len(vfs_nodes) = 3
       /\ \A i \in 1..3 : vfs_nodes[i].data = IF i = fd THEN b ELSE None
  BY <1>3, <1>6
<1>8. OwnedOK(vfs_nodes, allocated)
  <2>1. fd \in 1..3 /\ b # None
    BY <1>3, <1>4, BuffersAssumption
  <2>2. b \in allocated
    BY <1>5
  <2>3. \A x \in allocated : \E i \in 1..3 : vfs_nodes[i].data = x
    BY <1>5, <1>7, <2>1
  <2>4. \A i \in 1..3 : vfs_nodes[i].data # None => i = fd
    BY <1>7
  <2>5. vfs_nodes[fd].data = b
    BY <1>7, <2>1
  <2>6. \A i \in 1..3 : vfs_nodes[i].data # None =>
           /\ vfs_nodes[i].data \in allocated
           /\ \A j \in 1..3 : vfs_nodes[j].data = vfs_nodes[i].data => i = j
    BY <2>2, <2>4, <2>5
  <2>7. QED
    BY <1>7, <2>3, <2>6 DEF OwnedOK
<1>9. FilesTypeOK
  <2>1. vfs_nodes \in Seq(Node) /\ Len(vfs_nodes) \in 1..VFS_MAX_NODES
    BY <1>6 DEF Extends, Linked
  <2>2. allocated \subseteq Buffers
    BY <1>5
  <2>3. \A x \in Buffers :
           memory[x] \in Seq(Chunks) /\ Len(memory[x]) <= MaxSize
    <3>1. <<chunk>> \in Seq(Chunks) /\ Len(<<chunk>>) = 1
          /\ <<>> \in Seq(Chunks) /\ Len(<<>>) = 0
      BY <1>5
    <3>2. QED
      BY <1>5, <3>1, MaxSizeAssumption
  <2>4. memory \in [Buffers -> Seq(Chunks)]
    BY <1>5, <2>3
  <2>5. QED
    BY <2>1, <2>2, <2>3, <2>4 DEF FilesTypeOK
<1>10. QED
  BY <1>6, <1>8, <1>9 DEF FilesInv, Extends

(* vfs_mkdir and vfs_create.                                               *)
LEMMA CreateKeepsFiles ==
    ASSUME FilesInv, NEW path \in Paths, NEW dir \in BOOLEAN, Create(path, dir)
    PROVE  FilesInv' /\ Extends(vfs_nodes, vfs_nodes')
<1> PICK idx : idx = Len(vfs_nodes) + 1
  OBVIOUS
<1>1. /\ Len(vfs_nodes) < VFS_MAX_NODES
      /\ vfs_nodes' = AddNode(vfs_nodes, path, dir)
      /\ allocated' = allocated /\ memory' = memory
  BY DEF Create
<1>2. /\ FilesTypeOK /\ Linked(vfs_nodes) /\ ListsOK(vfs_nodes)
      /\ OwnedOK(vfs_nodes, allocated)
      /\ path \in AllPaths
  BY DEF FilesInv, AllPaths
<1>3. Extends(vfs_nodes, vfs_nodes') /\ ListsOK(vfs_nodes')
  BY <1>1, <1>2, AddNodeLists
<1>4. /\ Len(vfs_nodes') = idx /\ idx \in Nat /\ Len(vfs_nodes) \in Nat
      /\ \A i \in 1..Len(vfs_nodes) : vfs_nodes'[i].data = vfs_nodes[i].data
      /\ vfs_nodes'[idx].data = None
  BY <1>1, <1>2, AddNodeFields DEF Linked
<1>5. Linked(vfs_nodes')
  BY <1>3 DEF Extends
<1>6. FilesTypeOK'
  BY <1>1, <1>2, <1>5 DEF FilesTypeOK, Linked
<1>7. OwnedOK(vfs_nodes', allocated)
  <2>1. \A i \in 1..idx : i \in 1..Len(vfs_nodes) \/ i = idx
    BY <1>4
  <2>2. \A i \in 1..Len(vfs_nodes) : i \in 1..idx
    BY <1>4
  <2>3. \A b \in allocated : \E i \in 1..idx : vfs_nodes'[i].data = b
    BY <1>2, <1>4, <2>2 DEF OwnedOK
  <2>4. ASSUME NEW i \in 1..idx, vfs_nodes'[i].data # None
        PROVE  /\ vfs_nodes'[i].data \in allocated
               /\ \A j \in 1..idx : vfs_nodes'[j].data = vfs_nodes'[i].data
                                       => i = j
    <3>1. i \in 1..Len(vfs_nodes)
      BY <1>4, <2>1, <2>4
    <3>2. QED
      BY <1>2, <1>4, <2>1, <2>4, <3>1 DEF OwnedOK
  <2>5. QED
    BY <1>4, <2>3, <2>4 DEF OwnedOK
<1>8. QED
  BY <1>1, <1>3, <1>5, <1>6, <1>7 DEF FilesInv

(* The node a write finds, and what the write leaves.                      *)
LEMMA WriteFacts ==
    ASSUME FilesInv, NEW path \in Paths, NEW chunk \in Chunks,
           Write(path, chunk), NEW fd, fd = Find(vfs_nodes, path)
    PROVE  /\ fd \in 1..Len(vfs_nodes)
           /\ vfs_nodes[fd].path = path /\ ~vfs_nodes[fd].dir
           /\ Content(vfs_nodes[fd]) \in Seq(Chunks)
           /\ Len(Content(vfs_nodes[fd])) < MaxSize
           /\ \E new_data \in Buffers \ allocated :
                 /\ vfs_nodes' = SetData(vfs_nodes, fd, new_data)
                 /\ allocated' = (allocated \ {vfs_nodes[fd].data})
                                    \cup {new_data}
                 /\ memory' = [b \in Buffers |->
                       IF b = new_data
                       THEN Append(Content(vfs_nodes[fd]), chunk)
                       ELSE IF b = vfs_nodes[fd].data THEN <<>>
                       ELSE memory[b]]
<1>1. /\ FilesTypeOK /\ Linked(vfs_nodes) /\ OwnedOK(vfs_nodes, allocated)
  BY DEF FilesInv
<1>2. fd # None /\ ~vfs_nodes[fd].dir
  BY DEF Write, Kind
<1>3. fd \in 1..Len(vfs_nodes) /\ vfs_nodes[fd].path = path
  BY <1>1, <1>2, FindFacts
<1>4. Content(vfs_nodes[fd]) \in Seq(Chunks)
  <2>1. CASE vfs_nodes[fd].data = None
    BY <2>1 DEF Content
  <2>2. CASE vfs_nodes[fd].data # None
    <3>1. vfs_nodes[fd].data \in allocated
      BY <1>1, <1>3, <2>2 DEF OwnedOK
    <3>2. vfs_nodes[fd].data \in Buffers
      BY <1>1, <3>1 DEF FilesTypeOK
    <3>3. QED
      BY <1>1, <2>2, <3>2 DEF FilesTypeOK, Content
  <2>3. QED
    BY <2>1, <2>2
<1>5. Len(Content(vfs_nodes[fd])) < MaxSize
  BY DEF Write
<1> DEFINE Written(f) == \E new_data \in Buffers \ allocated :
         /\ vfs_nodes' = SetData(vfs_nodes, f, new_data)
         /\ allocated' = (allocated \ {vfs_nodes[f].data}) \cup {new_data}
         /\ memory' = [b \in Buffers |->
               CASE b = new_data -> Append(Content(vfs_nodes[f]), chunk)
                 [] b = vfs_nodes[f].data -> <<>>
                 [] OTHER -> memory[b]]
<1>6. Written(Find(vfs_nodes, path))
  BY DEF Write, SetData
<1>7. Written(fd)
  <2> HIDE DEF Written
  <2>1. QED
    BY <1>6
<1>8. PICK new_data \in Buffers \ allocated :
         /\ vfs_nodes' = SetData(vfs_nodes, fd, new_data)
         /\ allocated' = (allocated \ {vfs_nodes[fd].data}) \cup {new_data}
         /\ memory' = [b \in Buffers |->
               CASE b = new_data -> Append(Content(vfs_nodes[fd]), chunk)
                 [] b = vfs_nodes[fd].data -> <<>>
                 [] OTHER -> memory[b]]
  BY <1>7
<1>9. vfs_nodes[fd].data # new_data
  BY <1>1, <1>3, <1>8, BuffersAssumption DEF OwnedOK
<1> DEFINE byCase(b) ==
             CASE b = new_data -> Append(Content(vfs_nodes[fd]), chunk)
               [] b = vfs_nodes[fd].data -> <<>>
               [] OTHER -> memory[b]
           byIf(b) == IF b = new_data THEN Append(Content(vfs_nodes[fd]), chunk)
                      ELSE IF b = vfs_nodes[fd].data THEN <<>> ELSE memory[b]
<1>10. \A b \in Buffers : byCase(b) = byIf(b)
  BY <1>9
<1>11. memory' = [b \in Buffers |-> byCase(b)]
  BY <1>8
<1>12. memory' = [b \in Buffers |-> byIf(b)]
  <2> HIDE DEF byCase, byIf
  <2>1. QED
    BY <1>10, <1>11
<1>13. QED
  BY <1>2, <1>3, <1>4, <1>5, <1>8, <1>12

(* vfs_write.                                                              *)
LEMMA WriteKeepsFiles ==
    ASSUME FilesInv, NEW path \in Paths, NEW chunk \in Chunks,
           Write(path, chunk)
    PROVE  /\ FilesInv' /\ Extends(vfs_nodes, vfs_nodes')
           /\ \A i \in 1..Len(vfs_nodes) :
                 Children(vfs_nodes', i) = Children(vfs_nodes, i)
           /\ \A p : Find(vfs_nodes', p) = Find(vfs_nodes, p)
<1> PICK fd : fd = Find(vfs_nodes, path)
  OBVIOUS
<1> PICK old : old = vfs_nodes[fd].data
  OBVIOUS
<1> PICK content : content = Content(vfs_nodes[fd])
  OBVIOUS
<1>1. /\ FilesTypeOK /\ Linked(vfs_nodes) /\ ListsOK(vfs_nodes)
      /\ OwnedOK(vfs_nodes, allocated)
  BY DEF FilesInv
<1>2. /\ fd \in 1..Len(vfs_nodes)
      /\ content \in Seq(Chunks) /\ Len(content) < MaxSize
  BY WriteFacts
<1>3. PICK new_data \in Buffers \ allocated :
         /\ vfs_nodes' = SetData(vfs_nodes, fd, new_data)
         /\ allocated' = (allocated \ {old}) \cup {new_data}
         /\ memory' = [b \in Buffers |->
               IF b = new_data THEN Append(content, chunk)
               ELSE IF b = old THEN <<>> ELSE memory[b]]
  BY WriteFacts
<1>4. /\ Extends(vfs_nodes, vfs_nodes') /\ ListsOK(vfs_nodes')
      /\ Len(vfs_nodes') = Len(vfs_nodes)
      /\ \A i \in 1..Len(vfs_nodes) :
            /\ vfs_nodes'[i].data = IF i = fd THEN new_data
                                    ELSE vfs_nodes[i].data
            /\ Children(vfs_nodes', i) = Children(vfs_nodes, i)
      /\ \A p : Find(vfs_nodes', p) = Find(vfs_nodes, p)
  <2>1. new_data \in Buffers /\ vfs_nodes' = SetData(vfs_nodes, fd, new_data)
    BY <1>3
  <2>2. QED
    BY <1>1, <1>2, <2>1, SetDataLists
<1>5. Linked(vfs_nodes')
  BY <1>4 DEF Extends
<1>6. FilesTypeOK'
  <2>1. vfs_nodes' \in Seq(Node) /\ Len(vfs_nodes') \in 1..VFS_MAX_NODES
    BY <1>5 DEF Linked
  <2>2. allocated' \subseteq Buffers
    BY <1>1, <1>3 DEF FilesTypeOK
  <2>3. Append(content, chunk) \in Seq(Chunks)
        /\ Len(Append(content, chunk)) <= MaxSize
    <3>1. Append(content, chunk) \in Seq(Chunks)
          /\ Len(Append(content, chunk)) = Len(content) + 1
          /\ Len(content) \in Nat
      BY <1>2
    <3>2. QED
      BY <1>2, <3>1, MaxSizeAssumption
  <2>4. <<>> \in Seq(Chunks) /\ Len(<<>>) <= MaxSize
    BY MaxSizeAssumption
  <2>5. \A b \in Buffers :
           memory'[b] \in Seq(Chunks) /\ Len(memory'[b]) <= MaxSize
    BY <1>1, <1>3, <2>3, <2>4 DEF FilesTypeOK
  <2>6. memory' \in [Buffers -> Seq(Chunks)]
    BY <1>3, <2>5
  <2>7. QED
    BY <2>1, <2>2, <2>5, <2>6 DEF FilesTypeOK
<1>7. OwnedOK(vfs_nodes', allocated')
  <2>1. new_data \notin allocated /\ new_data # None
    BY <1>3, BuffersAssumption
  <2>2. ASSUME NEW b \in allocated'
        PROVE  \E i \in 1..Len(vfs_nodes) : vfs_nodes'[i].data = b
    <3>1. CASE b = new_data
      BY <1>2, <1>4, <3>1
    <3>2. CASE b # new_data
      <4>1. b \in allocated /\ b # old
        BY <1>3, <3>2
      <4>2. PICK i \in 1..Len(vfs_nodes) : vfs_nodes[i].data = b
        BY <1>1, <4>1 DEF OwnedOK
      <4>3. i # fd
        BY <4>1, <4>2
      <4>4. QED
        BY <1>4, <4>2, <4>3
    <3>3. QED
      BY <3>1, <3>2
  <2>3. \A i \in 1..Len(vfs_nodes) : i # fd => vfs_nodes'[i].data # new_data
    BY <1>1, <1>4, <2>1 DEF OwnedOK
  <2>4. ASSUME NEW i \in 1..Len(vfs_nodes), vfs_nodes'[i].data # None
        PROVE  /\ vfs_nodes'[i].data \in allocated'
               /\ \A j \in 1..Len(vfs_nodes) :
                     vfs_nodes'[j].data = vfs_nodes'[i].data => i = j
    <3>1. CASE i = fd
      BY <1>3, <1>4, <2>3, <3>1
    <3>2. CASE i # fd
      <4>1. vfs_nodes'[i].data = vfs_nodes[i].data
        BY <1>4, <3>2
      <4>2. vfs_nodes[i].data \in allocated
        BY <1>1, <2>4, <4>1 DEF OwnedOK
      <4>3. \A j \in 1..Len(vfs_nodes) :
               vfs_nodes[j].data = vfs_nodes[i].data => i = j
        BY <1>1, <2>4, <4>1 DEF OwnedOK
      <4>4. vfs_nodes[i].data # old
        BY <1>2, <3>2, <4>3
      <4>5. vfs_nodes'[i].data \in allocated'
        BY <1>3, <4>1, <4>2, <4>4
      <4>6. ASSUME NEW j \in 1..Len(vfs_nodes),
                   vfs_nodes'[j].data = vfs_nodes'[i].data
            PROVE  i = j
        <5>1. j # fd
          BY <1>4, <2>3, <3>2, <4>6
        <5>2. QED
          BY <1>4, <4>1, <4>3, <4>6, <5>1
      <4>7. QED
        BY <4>5, <4>6
    <3>3. QED
      BY <3>1, <3>2
  <2>5. QED
    BY <1>4, <2>2, <2>4 DEF OwnedOK
<1>8. QED
  BY <1>4, <1>5, <1>6, <1>7 DEF FilesInv

(* mkdir, touch and write keep it, and only append nodes or change         *)
(* buffers.                                                                *)
LEMMA ShellKeepsFiles ==
    ASSUME FilesInv, ShellCommand
    PROVE  FilesInv' /\ Extends(vfs_nodes, vfs_nodes')
<1>0. Extends(vfs_nodes, vfs_nodes)
  BY DEF FilesInv, Extends, Linked
<1>1. ASSUME UNCHANGED files PROVE FilesInv' /\ Extends(vfs_nodes, vfs_nodes')
  BY <1>0, <1>1 DEF FilesInv, files, FilesTypeOK
<1>2. ASSUME NEW p \in Paths, Mkdir(p) \/ Touch(p) \/ WriteFails(p)
      PROVE  FilesInv' /\ Extends(vfs_nodes, vfs_nodes')
  <2>1. CASE Mkdir(p)
    BY <2>1, CreateKeepsFiles DEF Mkdir
  <2>2. CASE Touch(p)
    BY <2>2, CreateKeepsFiles DEF Touch
  <2>3. CASE WriteFails(p)
    BY <1>1, <2>3 DEF WriteFails
  <2>4. QED
    BY <1>2, <2>1, <2>2, <2>3
<1>3. ASSUME NEW p \in Paths, NEW chunk \in Chunks, Write(p, chunk)
      PROVE  FilesInv' /\ Extends(vfs_nodes, vfs_nodes')
  BY <1>3, WriteKeepsFiles
<1>4. CASE CreateFails
  BY <1>1, <1>4 DEF CreateFails
<1>5. QED
  BY <1>2, <1>3, <1>4 DEF ShellCommand

(* The listings are in order and complete.                                 *)
LEMMA FilesTree ==
    ASSUME FilesInv
    PROVE  TreeOK
<1>1. Linked(vfs_nodes) /\ ListsOK(vfs_nodes)
  BY DEF FilesInv
<1>2. DOMAIN vfs_nodes = 1..Len(vfs_nodes)
  BY <1>1 DEF Linked
<1>3. ASSUME NEW i \in DOMAIN vfs_nodes,
             NEW n \in 2..Len(Children(vfs_nodes, i))
      PROVE  Children(vfs_nodes, i)[n - 1] > Children(vfs_nodes, i)[n]
  <2>1. PICK s : s = vfs_nodes[i].first_child
    OBVIOUS
  <2>2. s \in 0..Len(vfs_nodes)
    BY <1>1, <1>2, <2>1, LinkedFacts
  <2>3. Falls(Children(vfs_nodes, i), s, Len(vfs_nodes))
    BY <1>1, <2>1, <2>2, ListFalls DEF Children, ListFrom
  <2>4. QED
    BY <2>3 DEF Falls
<1>4. \A i \in DOMAIN vfs_nodes :
         Elements(Children(vfs_nodes, i)) =
             {j \in DOMAIN vfs_nodes :
                 i < j /\ i = Parent(vfs_nodes, vfs_nodes[j].path)}
  BY <1>1 DEF ListsOK, Listed
<1>5. QED
  BY <1>3, <1>4 DEF TreeOK

(* The invariant of the files says that a buffer has one owner.            *)
LEMMA FilesBuffers ==
    ASSUME FilesInv
    PROVE  BuffersOwnedOnce
<1> DEFINE owners(b) == {i \in DOMAIN vfs_nodes : vfs_nodes[i].data = b}
<1>1. ASSUME NEW b \in Buffers
      PROVE  Cardinality(owners(b)) = IF b \in allocated THEN 1 ELSE 0
  <2>1. OwnedOK(vfs_nodes, allocated) /\ DOMAIN vfs_nodes = 1..Len(vfs_nodes)
        /\ b # None
    BY BuffersAssumption DEF FilesInv, Linked
  <2>2. CASE b \in allocated
    <3>1. PICK i \in 1..Len(vfs_nodes) : vfs_nodes[i].data = b
      BY <2>1, <2>2 DEF OwnedOK
    <3>2. \A j \in 1..Len(vfs_nodes) : vfs_nodes[j].data = b => j = i
      BY <2>1, <3>1 DEF OwnedOK
    <3>3. owners(b) = {i}
      BY <2>1, <3>1, <3>2
    <3>4. Cardinality({i}) = 1
      BY FS_Singleton
    <3>5. QED
      BY <2>2, <3>3, <3>4
  <2>3. CASE b \notin allocated
    <3>1. owners(b) = {}
      BY <2>1, <2>3 DEF OwnedOK
    <3>2. Cardinality({}) = 0
      BY FS_EmptySet
    <3>3. QED
      BY <2>3, <3>1, <3>2
  <2>4. QED
    BY <2>2, <2>3
<1>2. QED
  BY <1>1 DEF BuffersOwnedOnce

-----------------------------------------------------------------------------
(* The files implement FileStore.                                          *)

(* What the shell can tell of a path.                                      *)
At(nodes, mem, p) ==
    LET i == Find(nodes, p)
    IN  [kind |-> IF i = None THEN "none"
                  ELSE IF nodes[i].dir THEN "dir" ELSE "file",
         content |-> IF i = None THEN <<>>
                     ELSE IF nodes[i].data = None THEN <<>>
                     ELSE mem[nodes[i].data]]

(* The next states of FileStore, for a next value of its variable.         *)
StoreNext(store, later) ==
    \/ \E p \in Paths, k \in {"dir", "file"} :
          /\ store[p].kind = "none"
          /\ later = [store EXCEPT ![p].kind = k]
    \/ \E p \in Paths, chunk \in Chunks :
          /\ store[p].kind = "file"
          /\ later = [store EXCEPT ![p].content = Append(@, chunk)]

(* fs_init's files are an initial state of FileStore.                      *)
LEMMA StoreInit ==
    ASSUME FilesInv
    PROVE  Store!Init
<1>1. ASSUME NEW p \in Paths, Kind(p) = "none"
      PROVE  Find(vfs_nodes, p) = None
  BY <1>1 DEF Kind
<1>2. QED
  BY <1>1 DEF Store!Init

(* A path nothing was at and still nothing is at, or a node whose contents *)
(* did not change.                                                         *)
LEMMA AtStays ==
    ASSUME NEW nodes, NEW mem, NEW later, NEW mem2, NEW p,
           Find(later, p) = Find(nodes, p),
           Find(nodes, p) # None =>
              LET i == Find(nodes, p) IN
              /\ later[i].dir = nodes[i].dir
              /\ later[i].data = nodes[i].data
              /\ nodes[i].data # None =>
                    mem2[nodes[i].data] = mem[nodes[i].data]
    PROVE  At(later, mem2, p) = At(nodes, mem, p)
  BY DEF At

(* mkdir and touch make a path that was not there, or change nothing that  *)
(* a path names.                                                           *)
LEMMA CreateStores ==
    ASSUME FilesInv, NEW path \in Paths, NEW dir \in BOOLEAN, Create(path, dir),
           NEW store, store = [p \in Paths |-> At(vfs_nodes, memory, p)],
           NEW later, later = [p \in Paths |-> At(vfs_nodes', memory', p)]
    PROVE  later = store \/ StoreNext(store, later)
<1> PICK idx : idx = Len(vfs_nodes) + 1
  OBVIOUS
<1>1. Linked(vfs_nodes) /\ path \in AllPaths
  BY DEF FilesInv, AllPaths
<1>2. /\ Len(vfs_nodes') = idx /\ idx \in Nat /\ Len(vfs_nodes) \in Nat
      /\ \A i \in 1..Len(vfs_nodes) :
            /\ vfs_nodes'[i].dir = vfs_nodes[i].dir
            /\ vfs_nodes'[i].data = vfs_nodes[i].data
      /\ vfs_nodes'[idx].data = None /\ vfs_nodes'[idx].dir = dir
      /\ vfs_nodes'[idx].path = path
      /\ memory' = memory
  BY <1>1, AddNodeFields DEF Linked, Create
<1>3. Extends(vfs_nodes, vfs_nodes')
  BY CreateKeepsFiles
<1>4. ASSUME NEW p \in Paths,
             Find(vfs_nodes', p) = Find(vfs_nodes, p)
      PROVE  At(vfs_nodes', memory', p) = At(vfs_nodes, memory, p)
  <2>1. Find(vfs_nodes, p) # None => Find(vfs_nodes, p) \in 1..Len(vfs_nodes)
    BY <1>1, FindFacts
  <2>2. QED
    BY <1>2, <1>4, <2>1, AtStays
<1>5. ASSUME NEW p \in Paths, Find(vfs_nodes', p) # Find(vfs_nodes, p)
      PROVE  /\ p = path /\ Find(vfs_nodes, p) = None
             /\ Find(vfs_nodes', p) = idx
  <2>1. Find(vfs_nodes, p) = None
        /\ Find(vfs_nodes', p) \in (Len(vfs_nodes) + 1)..Len(vfs_nodes')
    BY <1>3, <1>5, FindStays
  <2>2. Find(vfs_nodes', p) = idx /\ Find(vfs_nodes', p) # None
    BY <1>2, <2>1 DEF None
  <2>3. vfs_nodes'[Find(vfs_nodes', p)].path = p
    BY <1>3, <2>2, FindFacts DEF Extends
  <2>4. QED
    BY <1>2, <2>1, <2>2, <2>3
<1>6. CASE Find(vfs_nodes', path) = Find(vfs_nodes, path)
  BY <1>4, <1>5, <1>6
<1>7. CASE Find(vfs_nodes', path) # Find(vfs_nodes, path)
  <2>1. PICK k : k = IF dir THEN "dir" ELSE "file"
    OBVIOUS
  <2>2. Find(vfs_nodes, path) = None /\ Find(vfs_nodes', path) = idx
        /\ idx # None
    BY <1>2, <1>5, <1>7 DEF None
  <2>3. At(vfs_nodes, memory, path) = [kind |-> "none", content |-> <<>>]
    BY <2>2 DEF At
  <2>4. At(vfs_nodes', memory', path) = [kind |-> k, content |-> <<>>]
    BY <1>2, <2>1, <2>2 DEF At
  <2>5. At(vfs_nodes', memory', path) =
            [At(vfs_nodes, memory, path) EXCEPT !.kind = k]
    BY <2>3, <2>4
  <2>6. \A p \in Paths : p # path =>
            At(vfs_nodes', memory', p) = At(vfs_nodes, memory, p)
    BY <1>4, <1>5
  <2>7. later = [store EXCEPT ![path].kind = k]
    BY <2>5, <2>6
  <2>8. k \in {"dir", "file"} /\ store[path].kind = "none"
    BY <2>1, <2>3
  <2>9. QED
    BY <2>7, <2>8 DEF StoreNext
<1>8. QED
  BY <1>6, <1>7

(* A write makes the content of one file longer, or fails and changes      *)
(* nothing.                                                                *)
LEMMA WriteStores ==
    ASSUME FilesInv, NEW path \in Paths, NEW chunk \in Chunks,
           Write(path, chunk),
           NEW store, store = [p \in Paths |-> At(vfs_nodes, memory, p)],
           NEW later, later = [p \in Paths |-> At(vfs_nodes', memory', p)]
    PROVE  StoreNext(store, later)
<1> PICK fd : fd = Find(vfs_nodes, path)
  OBVIOUS
<1> PICK old : old = vfs_nodes[fd].data
  OBVIOUS
<1> PICK content : content = Content(vfs_nodes[fd])
  OBVIOUS
<1>1. /\ FilesTypeOK /\ Linked(vfs_nodes) /\ ListsOK(vfs_nodes)
      /\ OwnedOK(vfs_nodes, allocated)
  BY DEF FilesInv
<1>2. /\ fd \in 1..Len(vfs_nodes) /\ vfs_nodes[fd].path = path
      /\ ~vfs_nodes[fd].dir
  BY WriteFacts
<1>3. PICK new_data \in Buffers \ allocated :
         /\ vfs_nodes' = SetData(vfs_nodes, fd, new_data)
         /\ memory' = [b \in Buffers |->
               IF b = new_data THEN Append(content, chunk)
               ELSE IF b = old THEN <<>> ELSE memory[b]]
  BY WriteFacts
<1>4. /\ \A i \in 1..Len(vfs_nodes) :
            /\ vfs_nodes'[i].dir = vfs_nodes[i].dir
            /\ vfs_nodes'[i].data = IF i = fd THEN new_data
                                    ELSE vfs_nodes[i].data
      /\ \A p : Find(vfs_nodes', p) = Find(vfs_nodes, p)
  <2>1. new_data \in Buffers /\ vfs_nodes' = SetData(vfs_nodes, fd, new_data)
    BY <1>3
  <2>2. QED
    BY <1>1, <1>2, <2>1, SetDataLists
<1>5. ASSUME NEW p \in Paths, p # path
      PROVE  At(vfs_nodes', memory', p) = At(vfs_nodes, memory, p)
  <2>1. PICK i : i = Find(vfs_nodes, p)
    OBVIOUS
  <2>2. CASE i = None
    BY <1>4, <2>1, <2>2 DEF At
  <2>3. CASE i # None
    <3>1. i \in 1..Len(vfs_nodes) /\ vfs_nodes[i].path = p
      BY <1>1, <2>1, <2>3, FindFacts
    <3>2. i # fd
      BY <1>2, <1>5, <3>1
    <3>3. ASSUME vfs_nodes[i].data # None
          PROVE  memory'[vfs_nodes[i].data] = memory[vfs_nodes[i].data]
      <4>1. vfs_nodes[i].data \in allocated /\ vfs_nodes[i].data # old
        BY <1>1, <1>2, <3>1, <3>2, <3>3 DEF OwnedOK
      <4>2. vfs_nodes[i].data \in Buffers /\ vfs_nodes[i].data # new_data
        BY <1>1, <1>3, <4>1 DEF FilesTypeOK
      <4>3. QED
        BY <1>3, <4>1, <4>2
    <3>4. QED
      BY <1>4, <2>1, <3>1, <3>2, <3>3, AtStays
  <2>4. QED
    BY <2>2, <2>3
<1>6. fd # None /\ new_data # None
  BY <1>2, <1>3, BuffersAssumption DEF None
<1>7. At(vfs_nodes, memory, path) = [kind |-> "file", content |-> content]
  BY <1>2, <1>6 DEF At, Content
<1>8. At(vfs_nodes', memory', path) =
          [kind |-> "file", content |-> Append(content, chunk)]
  <2>1. memory'[new_data] = Append(content, chunk)
    BY <1>3
  <2>2. Find(vfs_nodes', path) = fd /\ vfs_nodes'[fd].data = new_data
        /\ ~vfs_nodes'[fd].dir
    BY <1>2, <1>4
  <2>3. QED
    BY <1>6, <2>1, <2>2 DEF At
<1>9. later = [store EXCEPT ![path].content = Append(@, chunk)]
  <2>1. store[path] = [kind |-> "file", content |-> content]
    BY <1>7
  <2>2. PICK more : more = Append(content, chunk)
    OBVIOUS
  <2>3. [store[path] EXCEPT !.content = more]
           = [kind |-> "file", content |-> more]
    BY <2>1
  <2>4. later[path] = [store[path] EXCEPT !.content = more]
    BY <1>8, <2>2, <2>3
  <2>5. \A p \in Paths : p # path => later[p] = store[p]
    BY <1>5
  <2>6. later = [store EXCEPT ![path] = [store[path] EXCEPT !.content = more]]
    <3> HIDE DEF At
    <3>1. store \in [Paths -> {store[p] : p \in Paths}] /\ DOMAIN store = Paths
      OBVIOUS
    <3>2. DOMAIN later = Paths /\ later = [p \in Paths |-> later[p]]
      OBVIOUS
    <3>3. QED
      BY <2>4, <2>5, <3>1, <3>2
  <2>7. store[path].content = content
    BY <2>1
  <2>8. QED
    BY <2>2, <2>6, <2>7
<1>10. store[path].kind = "file"
  BY <1>7
<1>11. QED
  BY <1>9, <1>10, Zenon DEF StoreNext

(* Every command of the shell is a step of FileStore, or none.             *)
LEMMA ShellStores ==
    ASSUME FilesInv, ShellCommand,
           NEW store, store = [p \in Paths |-> At(vfs_nodes, memory, p)],
           NEW later, later = [p \in Paths |-> At(vfs_nodes', memory', p)]
    PROVE  later = store \/ StoreNext(store, later)
<1>1. ASSUME UNCHANGED files PROVE later = store
  BY <1>1 DEF files
<1>2. ASSUME NEW p \in Paths, Mkdir(p) \/ Touch(p) \/ WriteFails(p)
      PROVE  later = store \/ StoreNext(store, later)
  <2>1. CASE Mkdir(p)
    BY <2>1, CreateStores DEF Mkdir
  <2>2. CASE Touch(p)
    BY <2>2, CreateStores DEF Touch
  <2>3. CASE WriteFails(p)
    BY <1>1, <2>3 DEF WriteFails
  <2>4. QED
    BY <1>2, <2>1, <2>2, <2>3
<1>3. ASSUME NEW p \in Paths, NEW chunk \in Chunks, Write(p, chunk)
      PROVE  later = store \/ StoreNext(store, later)
  BY <1>3, WriteStores
<1>4. CASE CreateFails
  BY <1>1, <1>4 DEF CreateFails
<1>5. QED
  BY <1>2, <1>3, <1>4 DEF ShellCommand

-----------------------------------------------------------------------------
(* The windows.                                                            *)

(* ListFiles of any nodes.                                                 *)
Shown(nodes, path) ==
    LET dir_idx == Find(nodes, path)
        shown(children) ==
            SubSeq(children, 1,
                   IF Len(children) < MaxFiles THEN Len(children) ELSE MaxFiles)
    IN  IF dir_idx = None THEN <<>> ELSE shown(Children(nodes, dir_idx))

(* api_list_files in terms of the table of nodes, in this state and the    *)
(* next.                                                                   *)
LEMMA ListFilesShown ==
    /\ \A path : ListFiles(path) = Shown(vfs_nodes, path)
    /\ \A path : ListFiles(path)' = Shown(vfs_nodes', path)
  BY DEF ListFiles, Shown

(* What api_list_files puts in its array: indexes of nodes, at most as     *)
(* many as the array has room for, none for a path that is not there.      *)
LEMMA ShownFacts ==
    ASSUME NEW nodes, Linked(nodes), NEW path
    PROVE  /\ Shown(nodes, path) \in Seq(1..Len(nodes))
           /\ Len(Shown(nodes, path)) \in Nat
           /\ Len(Shown(nodes, path)) <= MaxFiles
           /\ Find(nodes, path) = None => Len(Shown(nodes, path)) = 0
           /\ Find(nodes, path) # None =>
                 /\ Len(Children(nodes, Find(nodes, path))) \in Nat
                 /\ Len(Shown(nodes, path)) =
                       IF Len(Children(nodes, Find(nodes, path))) < MaxFiles
                       THEN Len(Children(nodes, Find(nodes, path)))
                       ELSE MaxFiles
<1> PICK i : i = Find(nodes, path)
  OBVIOUS
<1>1. CASE i = None
  <2>1. Shown(nodes, path) = <<>>
    BY <1>1 DEF Shown
  <2>2. QED
    BY <1>1, <2>1, MaxFilesAssumption
<1>2. CASE i # None
  <2>1. i \in 1..Len(nodes)
    BY <1>2, FindFacts
  <2>2. PICK s : s = nodes[i].first_child
    OBVIOUS
  <2>3. s \in 0..Len(nodes)
    BY <2>1, <2>2, LinkedFacts
  <2>4. PICK c : c = Children(nodes, i)
    OBVIOUS
  <2>5. Falls(c, s, Len(nodes))
    BY <2>2, <2>3, <2>4, ListFalls DEF Children, ListFrom
  <2>6. c \in Seq(1..Len(nodes)) /\ Len(c) \in Nat
    BY <2>5 DEF Falls
  <2>7. PICK m : m = IF Len(c) < MaxFiles THEN Len(c) ELSE MaxFiles
    OBVIOUS
  <2>8. m \in 0..Len(c) /\ m <= MaxFiles /\ m \in Nat
    BY <2>6, <2>7, MaxFilesAssumption
  <2>9. Shown(nodes, path) = SubSeq(c, 1, m)
    BY <1>2, <2>4, <2>7 DEF Shown
  <2>10. SubSeq(c, 1, m) \in Seq(1..Len(nodes)) /\ Len(SubSeq(c, 1, m)) = m
    <3>1. \A n \in 1..m : n \in 1..Len(c)
      BY <2>6, <2>8
    <3>2. QED
      BY <2>6, <2>8, <3>1, SubSeqProperties
  <2>11. QED
    BY <1>2, <2>4, <2>6, <2>7, <2>8, <2>9, <2>10
<1>3. QED
  BY <1>1, <1>2

(* A listing never gets shorter.                                           *)
LEMMA ShellShows ==
    ASSUME FilesInv, ShellCommand, NEW path
    PROVE  Len(Shown(vfs_nodes, path)) <= Len(Shown(vfs_nodes', path))
<1> PICK i : i = Find(vfs_nodes, path)
  OBVIOUS
<1>1. /\ Linked(vfs_nodes) /\ ListsOK(vfs_nodes)
      /\ Linked(vfs_nodes') /\ Extends(vfs_nodes, vfs_nodes')
  BY ShellKeepsFiles DEF FilesInv
<1>2. CASE i = None
  <2>1. Len(Shown(vfs_nodes, path)) = 0
    BY <1>1, <1>2, ShownFacts
  <2>2. Len(Shown(vfs_nodes', path)) \in Nat
    BY <1>1, ShownFacts
  <2>3. QED
    BY <2>1, <2>2
<1>3. CASE i # None
  <2>1. Find(vfs_nodes', path) = i
    BY <1>1, <1>3, FindStays
  <2>2. i \in 1..Len(vfs_nodes)
    BY <1>1, <1>3, FindFacts
  <2>3. PICK c : c = Children(vfs_nodes, i)
    OBVIOUS
  <2>4. PICK d : d = Children(vfs_nodes', i)
    OBVIOUS
  <2>5. PICK m : m = Len(Shown(vfs_nodes, path))
    OBVIOUS
  <2>6. PICK n : n = Len(Shown(vfs_nodes', path))
    OBVIOUS
  <2>7. /\ Len(c) \in Nat
        /\ m = IF Len(c) < MaxFiles THEN Len(c) ELSE MaxFiles
    BY <1>1, <1>3, <2>3, <2>5, ShownFacts
  <2>8. /\ Len(d) \in Nat
        /\ n = IF Len(d) < MaxFiles THEN Len(d) ELSE MaxFiles
    BY <1>1, <1>3, <2>1, <2>4, <2>6, ShownFacts
  <2>9. Len(c) <= Len(d)
    <3>1. ASSUME NEW p \in Paths, NEW dir \in BOOLEAN, Create(p, dir)
          PROVE  Len(c) <= Len(d)
      <4>1. PICK idx : idx = Len(vfs_nodes) + 1
        OBVIOUS
      <4>2. Len(vfs_nodes) < VFS_MAX_NODES /\ p \in AllPaths
            /\ vfs_nodes' = AddNode(vfs_nodes, p, dir)
        BY <3>1 DEF Create, AllPaths
      <4>3. d = <<idx>> \o c \/ d = c
        BY <1>1, <2>2, <2>3, <2>4, <4>1, <4>2, AddNodeChildren
      <4>4. c \in Seq(1..Len(vfs_nodes))
        <5>1. vfs_nodes[i].first_child \in 0..Len(vfs_nodes)
          BY <1>1, <2>2, LinkedFacts
        <5>2. QED
          BY <1>1, <2>3, <5>1, ListFalls DEF Children, ListFrom, Falls
      <4>5. <<idx>> \in Seq({idx}) /\ Len(<<idx>>) = 1
        OBVIOUS
      <4>6. Len(<<idx>> \o c) = 1 + Len(c)
        BY <4>4, <4>5, ConcatProperties
      <4>7. QED
        BY <2>7, <4>3, <4>6
    <3>2. ASSUME NEW p \in Paths, NEW chunk \in Chunks, Write(p, chunk)
          PROVE  Len(c) <= Len(d)
      BY <2>2, <2>3, <2>4, <2>7, <3>2, WriteKeepsFiles
    <3>3. ASSUME UNCHANGED files PROVE Len(c) <= Len(d)
      BY <2>3, <2>4, <2>7, <3>3 DEF files
    <3>4. QED
      BY <3>1, <3>2, <3>3
         DEF ShellCommand, Mkdir, Touch, WriteFails, CreateFails
  <2>10. QED
    BY <2>5, <2>6, <2>7, <2>8, <2>9, MaxFilesAssumption
<1>4. QED
  BY <1>2, <1>3

(* What is selected is in the listing that GuiStart would make: while the  *)
(* shell runs, dir_files is old, and the next gui_start replaces it        *)
(* without touching the selection.                                         *)
SelectionListed ==
    /\ file_selected_index \in Nat
    /\ \/ file_selected_index = 0
       \/ file_selected_index < Len(Shown(vfs_nodes, current_dir))

GuiInv ==
    /\ TypeOK /\ FilesInv
    /\ SelectionInRange /\ SelectionListed /\ ListingFresh

(* The invariant holds before the GUI is first entered.                    *)
LEMMA GuiInitInv == GuiInit => GuiInv
<1> SUFFICES ASSUME GuiInit PROVE GuiInv
  OBVIOUS
<1>1. FilesInv
  BY FilesInit DEF GuiInit
<1>2. <<>> \in Seq(DOMAIN vfs_nodes) /\ Len(<<>>) <= MaxFiles
  BY MaxFilesAssumption
<1>3. TypeOK
  BY <1>1, <1>2 DEF GuiInit, TypeOK, FilesInv, Windows
<1>4. QED
  BY <1>1, <1>3
     DEF GuiInit, GuiInv, SelectionInRange, SelectionListed, ListingFresh

(* The shell's commands, while the GUI is off.                             *)
LEMMA ShellKeeps ==
    ASSUME GuiInv, Shell
    PROVE  GuiInv'
<1>1. /\ TypeOK /\ FilesInv /\ SelectionInRange /\ SelectionListed
      /\ ShellCommand /\ UNCHANGED guiVars /\ ~gui_active
  BY DEF GuiInv, Shell
<1>2. FilesInv' /\ Extends(vfs_nodes, vfs_nodes')
  BY <1>1, ShellKeepsFiles
<1>3. /\ DOMAIN vfs_nodes = 1..Len(vfs_nodes)
      /\ DOMAIN vfs_nodes' = 1..Len(vfs_nodes')
      /\ Len(vfs_nodes) \in Nat /\ Len(vfs_nodes') \in Nat
      /\ Len(vfs_nodes) <= Len(vfs_nodes')
  BY <1>2 DEF Extends, Linked
<1>4. dir_files \in Seq(DOMAIN vfs_nodes')
  <2>1. 1..Len(vfs_nodes) \subseteq 1..Len(vfs_nodes')
    BY <1>3
  <2>2. dir_files \in Seq(1..Len(vfs_nodes))
    BY <1>1, <1>3 DEF TypeOK
  <2>3. QED
    BY <1>3, <2>1, <2>2
<1>5. TypeOK'
  BY <1>1, <1>2, <1>4 DEF TypeOK, FilesInv, guiVars, windows, explorer
<1>6. SelectionListed'
  <2>1. PICK m : m = Len(Shown(vfs_nodes, current_dir))
    OBVIOUS
  <2>2. PICK n : n = Len(Shown(vfs_nodes', current_dir))
    OBVIOUS
  <2>3. m \in Nat /\ n \in Nat /\ m <= n
    BY <1>1, <1>2, <2>1, <2>2, ShellShows, ShownFacts DEF Extends
  <2>4. file_selected_index \in Nat
        /\ (file_selected_index = 0 \/ file_selected_index < m)
    BY <1>1, <2>1 DEF SelectionListed
  <2>5. file_selected_index = 0 \/ file_selected_index < n
    BY <2>3, <2>4
  <2>6. current_dir' = current_dir
        /\ file_selected_index' = file_selected_index
    BY <1>1 DEF guiVars, explorer
  <2>7. QED
    BY <2>2, <2>4, <2>5, <2>6 DEF SelectionListed
<1>7. SelectionInRange' /\ ListingFresh'
  BY <1>1 DEF SelectionInRange, ListingFresh, guiVars, explorer
<1>8. QED
  BY <1>2, <1>5, <1>6, <1>7 DEF GuiInv

(* The keys leave the files alone.  Those that change neither the listing, *)
(* its directory nor the selection, and do not start the GUI.              *)
LEMMA WindowsKeep ==
    ASSUME GuiInv, UNCHANGED <<files, explorer>>,
           gui_active' \in BOOLEAN, gui_active' => gui_active,
           active_window' \in Windows, window_visible' \subseteq Windows,
           start_menu_open' \in BOOLEAN,
           viewer_content' \in Buffers \cup {None}
    PROVE  GuiInv'
<1>1. /\ vfs_nodes' = vfs_nodes /\ allocated' = allocated /\ memory' = memory
      /\ current_dir' = current_dir /\ dir_files' = dir_files
      /\ file_selected_index' = file_selected_index
  BY DEF files, explorer
<1>2. FilesInv' /\ FilesTypeOK'
  BY <1>1 DEF GuiInv, FilesInv, FilesTypeOK
<1>3. TypeOK'
  BY <1>1, <1>2 DEF GuiInv, TypeOK
<1>4. SelectionInRange' /\ SelectionListed'
  BY <1>1 DEF GuiInv, SelectionInRange, SelectionListed
<1>5. ListingFresh'
  BY <1>1, ListFilesShown DEF GuiInv, ListingFresh
<1>6. QED
  BY <1>2, <1>3, <1>4, <1>5 DEF GuiInv

(* Those that list a directory, with the selection in its listing.         *)
LEMMA ListingKeeps ==
    ASSUME GuiInv, UNCHANGED files,
           gui_active' \in BOOLEAN,
           active_window' \in Windows, window_visible' \subseteq Windows,
           start_menu_open' \in BOOLEAN,
           viewer_content' = viewer_content,
           current_dir' \in {RootPath} \cup {<<"", Name(p)>> : p \in AllPaths},
           dir_files' = ListFiles(current_dir'),
           file_selected_index' \in Nat,
           \/ file_selected_index' = 0
           \/ file_selected_index' < Len(Shown(vfs_nodes, current_dir'))
    PROVE  GuiInv'
<1>1. vfs_nodes' = vfs_nodes /\ allocated' = allocated /\ memory' = memory
  BY DEF files
<1>2. FilesInv' /\ FilesTypeOK'
  BY <1>1 DEF GuiInv, FilesInv, FilesTypeOK
<1>3. Linked(vfs_nodes) /\ DOMAIN vfs_nodes = 1..Len(vfs_nodes)
  <2>1. Linked(vfs_nodes)
    BY DEF GuiInv, FilesInv
  <2>2. QED
    BY <2>1, LinkedDomain, Zenon
<1>4. PICK shown : shown = Shown(vfs_nodes, current_dir')
  OBVIOUS
<1>5. /\ shown \in Seq(DOMAIN vfs_nodes) /\ Len(shown) <= MaxFiles
      /\ dir_files' = shown
  BY <1>3, <1>4, ListFilesShown, ShownFacts
<1>6. TypeOK'
  BY <1>1, <1>2, <1>5 DEF GuiInv, TypeOK
<1>7. SelectionInRange' /\ SelectionListed'
  BY <1>1, <1>4, <1>5 DEF SelectionInRange, SelectionListed
<1>8. ListingFresh'
  BY <1>1, <1>4, <1>5, ListFilesShown DEF ListingFresh
<1>9. QED
  BY <1>2, <1>6, <1>7, <1>8 DEF GuiInv

(* Opening a window, with or without the menu.                             *)
LEMMA OpenKeeps ==
    ASSUME GuiInv, NEW w \in {"plain", "explorer"}, Open(w), gui_active,
           gui_active' = gui_active, UNCHANGED files,
           start_menu_open' \in BOOLEAN, viewer_content' = viewer_content
    PROVE  GuiInv'
<1>1. /\ active_window' \in Windows /\ window_visible' \subseteq Windows
      /\ gui_active' \in BOOLEAN
      /\ viewer_content' \in Buffers \cup {None}
      /\ current_dir' = current_dir
      /\ file_selected_index' = file_selected_index
      /\ w = "explorer" => dir_files' = ListFiles(current_dir')
      /\ w # "explorer" => dir_files' = dir_files
  BY DEF GuiInv, TypeOK, Open, Windows
<1>2. CASE w = "explorer"
  <2>1. current_dir' \in {RootPath} \cup {<<"", Name(p)>> : p \in AllPaths}
    BY <1>1 DEF GuiInv, TypeOK
  <2>2. /\ file_selected_index' \in Nat
        /\ \/ file_selected_index' = 0
           \/ file_selected_index' < Len(Shown(vfs_nodes, current_dir'))
    BY <1>1 DEF GuiInv, SelectionListed
  <2>3. QED
    BY <1>1, <1>2, <2>1, <2>2, ListingKeeps
<1>3. CASE w # "explorer"
  <2>1. UNCHANGED explorer
    BY <1>1, <1>3 DEF explorer
  <2>2. QED
    BY <1>1, <2>1, WindowsKeep
<1>4. QED
  BY <1>2, <1>3

(* Enter acts on a node of the tree.                                       *)
LEMMA SelectedIsNode ==
    ASSUME GuiInv, Len(dir_files) > 0
    PROVE  Selected \in Node
<1>1. /\ dir_files \in Seq(DOMAIN vfs_nodes) /\ file_selected_index \in Nat
      /\ SelectionInRange /\ vfs_nodes \in Seq(Node)
  BY DEF GuiInv, TypeOK, FilesTypeOK, SelectionListed
<1>2. file_selected_index + 1 \in 1..Len(dir_files)
  BY <1>1 DEF SelectionInRange
<1>3. dir_files[file_selected_index + 1] \in DOMAIN vfs_nodes
  BY <1>1, <1>2
<1>4. QED
  BY <1>1, <1>3 DEF Selected

(* Each key and each command keeps it.                                     *)
LEMMA GuiNext == GuiInv /\ [Next]_vars => GuiInv'
<1> SUFFICES ASSUME GuiInv, [Next]_vars PROVE GuiInv'
  OBVIOUS
<1> USE DEF Windows
<1>0. /\ gui_active \in BOOLEAN /\ active_window \in Windows
      /\ window_visible \subseteq Windows /\ start_menu_open \in BOOLEAN
      /\ viewer_content \in Buffers \cup {None}
      /\ current_dir \in {RootPath} \cup {<<"", Name(p)>> : p \in AllPaths}
      /\ file_selected_index \in Nat
      /\ \/ file_selected_index = 0
         \/ file_selected_index < Len(Shown(vfs_nodes, current_dir))
  BY DEF GuiInv, TypeOK, SelectionListed
<1>1. CASE Shell
  BY <1>1, ShellKeeps
<1>2. CASE GuiStart
  BY <1>0, <1>2, ListingKeeps DEF GuiStart
<1>3. CASE GuiStop
  BY <1>0, <1>3, WindowsKeep DEF GuiStop, windows
<1>4. CASE ToggleMenu
  BY <1>0, <1>4, WindowsKeep DEF ToggleMenu, windows
<1>5. CASE MenuClose
  BY <1>0, <1>5, WindowsKeep DEF MenuClose, windows
<1>6. CASE MenuEnter
  BY <1>6, OpenKeeps DEF MenuEnter
<1>7. CASE OpenWindow
  BY <1>0, <1>7, OpenKeeps DEF OpenWindow
<1>8. CASE ToggleViewer
  BY <1>0, <1>8, WindowsKeep DEF ToggleViewer, CloseViewer
<1>9. CASE BackspaceInViewer
  BY <1>0, <1>9, WindowsKeep DEF BackspaceInViewer, CloseViewer
<1>10. CASE Select
  <2>1. /\ gui_active /\ gui_active' = gui_active /\ UNCHANGED files
        /\ UNCHANGED windows /\ start_menu_open' = start_menu_open
        /\ current_dir' = current_dir /\ dir_files' = dir_files
        /\ viewer_content' = viewer_content
        /\ \/ /\ file_selected_index < Len(dir_files) - 1
              /\ file_selected_index' = file_selected_index + 1
           \/ /\ file_selected_index > 0
              /\ file_selected_index' = file_selected_index - 1
    BY <1>10 DEF Select, InExplorer
  <2>2. dir_files = Shown(vfs_nodes, current_dir)
    BY <2>1, ListFilesShown DEF GuiInv, ListingFresh
  <2>3. Len(dir_files) \in Nat
    <3>1. dir_files \in Seq(DOMAIN vfs_nodes)
      BY DEF GuiInv, TypeOK
    <3>2. QED
      BY <3>1
  <2>4. file_selected_index' \in Nat
        /\ (file_selected_index' = 0 \/ file_selected_index' < Len(dir_files))
    <3>1. PICK m : m = Len(dir_files)
      OBVIOUS
    <3>2. m \in Nat /\ file_selected_index \in Nat
          /\ (file_selected_index = 0 \/ file_selected_index < m)
      BY <1>0, <2>2, <2>3, <3>1
    <3>3. \/ /\ file_selected_index < m - 1
             /\ file_selected_index' = file_selected_index + 1
          \/ /\ file_selected_index > 0
             /\ file_selected_index' = file_selected_index - 1
      BY <2>1, <3>1
    <3>4. file_selected_index' \in Nat
          /\ (file_selected_index' = 0 \/ file_selected_index' < m)
      BY <3>2, <3>3
    <3>5. QED
      BY <3>1, <3>4
  <2>5. dir_files' = ListFiles(current_dir')
    BY <2>1, <2>2, ListFilesShown
  <2>6. active_window' = active_window /\ window_visible' = window_visible
    BY <2>1 DEF windows
  <2>7. QED
    BY <1>0, <2>1, <2>2, <2>4, <2>5, <2>6, ListingKeeps
<1>11. CASE EnterDir
  <2>1. /\ gui_active' = gui_active /\ UNCHANGED files
        /\ UNCHANGED windows /\ start_menu_open' = start_menu_open
        /\ viewer_content' = viewer_content
        /\ current_dir' = IF current_dir = RootPath
                          THEN <<"", Name(Selected.path)>> ELSE current_dir
        /\ dir_files' = ListFiles(current_dir') /\ file_selected_index' = 0
        /\ Len(dir_files) > 0
    BY <1>11 DEF EnterDir, ShowDir
  <2>2. Selected.path \in AllPaths
    BY <2>1, SelectedIsNode DEF Node
  <2>3. current_dir' \in {RootPath} \cup {<<"", Name(p)>> : p \in AllPaths}
    BY <1>0, <2>1, <2>2
  <2>4. active_window' = active_window /\ window_visible' = window_visible
    BY <2>1 DEF windows
  <2>5. QED
    BY <1>0, <2>1, <2>3, <2>4, ListingKeeps
<1>12. CASE EnterFile
  <2>1. PICK idx : idx = Find(vfs_nodes,
                              IF current_dir = RootPath
                              THEN <<"", Name(Selected.path)>>
                              ELSE Append(current_dir, Name(Selected.path)))
    OBVIOUS
  <2>2. /\ idx # None /\ viewer_content' = vfs_nodes[idx].data
        /\ active_window' = "viewer"
        /\ window_visible' = window_visible \cup {"viewer"}
        /\ UNCHANGED <<files, gui_active, start_menu_open, explorer>>
    BY <1>12, <2>1 DEF EnterFile
  <2>3. Linked(vfs_nodes)
    BY DEF GuiInv, FilesInv
  <2>4. vfs_nodes[idx] \in Node
    <3>1. idx \in 1..Len(vfs_nodes)
      BY <2>1, <2>2, <2>3, FindFacts
    <3>2. QED
      BY <2>3, <3>1 DEF Linked
  <2>5. viewer_content' \in Buffers \cup {None}
    BY <2>2, <2>4 DEF Node
  <2>6. QED
    BY <1>0, <2>2, <2>5, WindowsKeep
<1>13. CASE BackspaceInExplorer
  <2>1. /\ gui_active' = gui_active /\ UNCHANGED files
        /\ UNCHANGED windows /\ start_menu_open' = start_menu_open
        /\ viewer_content' = viewer_content
        /\ current_dir' = RootPath
        /\ dir_files' = ListFiles(current_dir') /\ file_selected_index' = 0
    BY <1>13 DEF BackspaceInExplorer, ShowDir
  <2>2. active_window' = active_window /\ window_visible' = window_visible
    BY <2>1 DEF windows
  <2>3. QED
    BY <1>0, <2>1, <2>2, ListingKeeps
<1>14. CASE UNCHANGED vars
  BY <1>0, <1>14, WindowsKeep DEF vars, guiVars, windows
<1>15. QED
  BY <1>1, <1>2, <1>3, <1>4, <1>5, <1>6, <1>7, <1>8, <1>9, <1>10, <1>11,
     <1>12, <1>13, <1>14 DEF Next

(* The invariant of the files and the windows holds in every state.        *)
THEOREM GuiInvariant == Spec => []GuiInv
  BY GuiInitInv, GuiNext, PTL DEF Spec

(* No access outside vfs_nodes, dir_files or a buffer: what is stored in   *)
(* the windows and the files has its type.                                 *)
THEOREM GuiTypeOK == Spec => []TypeOK
<1>1. GuiInv => TypeOK
  BY DEF GuiInv
<1>2. QED
  BY <1>1, GuiInvariant, PTL

(* The lists of vfs_list and api_list_files end, list no node twice, and   *)
(* list a node where its path says if that was there when it was made.     *)
THEOREM GuiTreeOK == Spec => []TreeOK
<1>1. GuiInv => TreeOK
  BY FilesTree DEF GuiInv
<1>2. QED
  BY <1>1, GuiInvariant, PTL

(* vfs_write neither loses the old buffer nor lets two files share one.    *)
THEOREM GuiBuffersOwnedOnce == Spec => []BuffersOwnedOnce
<1>1. GuiInv => BuffersOwnedOnce
  BY FilesBuffers DEF GuiInv
<1>2. QED
  BY <1>1, GuiInvariant, PTL

(* The explorer's selection stays in the listing, also across the shell.   *)
THEOREM GuiSelectionInRange == Spec => []SelectionInRange
<1>1. GuiInv => SelectionInRange
  BY DEF GuiInv
<1>2. QED
  BY <1>1, GuiInvariant, PTL

(* While the GUI is on, the explorer shows what is in its directory.       *)
THEOREM GuiListingFresh == Spec => []ListingFresh
<1>1. GuiInv => ListingFresh
  BY DEF GuiInv
<1>2. QED
  BY <1>1, GuiInvariant, PTL

(* fs.cpp keeps the promise of FileStore: a path, once created, keeps its  *)
(* kind, and a file's content only grows, by what is written to it.        *)
THEOREM GuiImplementsFileStore == Spec => ImplementsFileStore
<1>1. GuiInv => Store!Init
  BY StoreInit DEF GuiInv
<1>2. GuiInv /\ [Next]_vars =>
         [Store!Next]_([p \in Paths |->
             LET i == Find(vfs_nodes, p)
             IN  [kind |-> Kind(p),
                  content |-> IF i = None THEN <<>>
                             ELSE Content(vfs_nodes[i])]])
  <2> SUFFICES ASSUME GuiInv, [Next]_vars
               PROVE  [Store!Next]_([p \in Paths |->
             LET i == Find(vfs_nodes, p)
             IN  [kind |-> Kind(p),
                  content |-> IF i = None THEN <<>>
                             ELSE Content(vfs_nodes[i])]])
    OBVIOUS
  <2>1. PICK store : store = [p \in Paths |-> At(vfs_nodes, memory, p)]
    OBVIOUS
  <2>2. PICK later : later = [p \in Paths |-> At(vfs_nodes', memory', p)]
    OBVIOUS
  <2>3. later = store \/ StoreNext(store, later)
    <3>1. CASE ShellCommand
      BY <2>1, <2>2, <3>1, ShellStores DEF GuiInv
    <3>2. CASE UNCHANGED files
      BY <2>1, <2>2, <3>2 DEF files
    <3>3. QED
      BY <3>1, <3>2
         DEF Next, Shell, GuiStart, GuiStop, ToggleMenu, MenuClose, MenuEnter,
             OpenWindow, ToggleViewer, BackspaceInViewer, Select, EnterDir,
             EnterFile, BackspaceInExplorer, vars
  <2>4. store = [p \in Paths |->
             LET i == Find(vfs_nodes, p)
             IN  [kind |-> Kind(p),
                  content |-> IF i = None THEN <<>>
                             ELSE Content(vfs_nodes[i])]]
    BY <2>1 DEF At, Kind, Content
  <2>5. later = [p \in Paths |->
             LET i == Find(vfs_nodes, p)
             IN  [kind |-> Kind(p),
                  content |-> IF i = None THEN <<>>
                             ELSE Content(vfs_nodes[i])]]'
    BY <2>2 DEF At, Kind, Content
  <2>6. QED
    BY <2>3, <2>4, <2>5 DEF StoreNext, Store!Next, Store!Create, Store!Write
<1>3. QED
  BY <1>1, <1>2, GuiInvariant, PTL
     DEF Spec, ImplementsFileStore, Store!Spec
=============================================================================
