----------------------------- MODULE FatProofs -----------------------------
(***************************************************************************)
(* Theorems about Fat for every disk whose fields have their ranges:       *)
(* chains and tables of any size, sectors and clusters of any size.        *)
(***************************************************************************)
EXTENDS Fat, SequenceTheorems, WellFoundedInduction, TLAPS

-----------------------------------------------------------------------------
(* The inductive invariant.                                                *)

(* The entries a search may find, and the sectors it may copy.             *)
Entries == DirectoryEntry \cup {NoEntry}
Piece == [sector : Int, bytes : Nat]

CommandsOK ==
    /\ disk \in Images
    /\ cmd \in [op : {"none", "list", "size", "read"}, name : Names \cup {""},
                max_size : Nat, entry : Entries, cluster : Nat, s : Nat,
                bytes_read : Nat]
    /\ out \in Seq(Piece)
    /\ pc \in {"boot", "mount", "shell", "scan", "next", "copy", "follow"}

(* fat_init finds the volume that is on the disk, or none; no command      *)
(* reads sectors without one.                                              *)
Mounted ==
    /\ volume \in {NoDisk, NoVolume, Volume(BootSector(disk))}
    /\ pc \in {"scan", "next", "copy", "follow"} => volume.fat_active

(* A scan has copied nothing yet, and an answer ends the command.          *)
Fresh ==
    /\ pc \notin {"shell", "copy", "follow"} => out = <<>> /\ cmd.bytes_read = 0
    /\ pc # "shell" => outcome = "none"

(* The loop of fat_read_file: j clusters have been copied in full, and s   *)
(* sectors of the next one, which is the j-th of the file.                 *)
Copying(j) ==
    /\ Len(out) = j * disk.sectors_per_cluster + cmd.s
    /\ cmd.cluster = ChainOf(cmd.entry)[j]
    /\ \/ /\ cmd.bytes_read = Len(out) * SectorBytes /\ cmd.bytes_read < Wanted
          /\ pc = "copy" => cmd.s < disk.sectors_per_cluster
          /\ pc = "follow" => cmd.s = disk.sectors_per_cluster
       \/ pc = "follow" /\ cmd.bytes_read = Wanted

FatInv ==
    /\ CommandsOK /\ Mounted /\ Fresh
    /\ pc \in {"copy", "follow"} => \E j \in 0..Wanted : Copying(j)
    /\ CopiesTheFile /\ PrintedComplete
-----------------------------------------------------------------------------
(* Numbers.                                                                *)

(* Multiplication keeps the order.                                         *)
LEMMA Scales ==
    ASSUME NEW a \in Nat, NEW b \in Nat, a <= b, NEW n \in Nat
    PROVE  a * n <= b * n
BY SMT

(* A number has one quotient and one remainder.                            *)
LEMMA DivIs ==
    ASSUME NEW n \in Nat \ {0}, NEW q \in Nat, NEW r \in 0..(n - 1)
    PROVE  (q * n + r) \div n = q /\ (q * n + r) % n = r
<1>1. PICK v \in Nat : v = q * n + r
  BY SMT
<1>2. PICK a \in Nat : a = v \div n
  BY SMT
<1>3. PICK b \in 0..(n - 1) : b = v % n
  BY SMT
<1>4. v = n * a + b
  BY <1>2, <1>3, SMT
<1>5. n * a = a * n
  BY SMT
<1>6. ~(a + 1 <= q)
  <2>1. SUFFICES ASSUME a + 1 <= q PROVE FALSE
    OBVIOUS
  <2>2. (a + 1) * n <= q * n
    BY <2>1, Scales
  <2>3. (a + 1) * n = a * n + n
    BY SMT
  <2> QED BY <1>1, <1>4, <1>5, <2>2, <2>3
<1>7. ~(q + 1 <= a)
  <2>1. SUFFICES ASSUME q + 1 <= a PROVE FALSE
    OBVIOUS
  <2>2. (q + 1) * n <= a * n
    BY <2>1, Scales
  <2>3. (q + 1) * n = q * n + n
    BY SMT
  <2> QED BY <1>1, <1>4, <1>5, <2>2, <2>3
<1>8. a = q
  BY <1>6, <1>7
<1>9. b = r
  BY <1>1, <1>4, <1>5, <1>8
<1> QED BY <1>1, <1>2, <1>3, <1>8, <1>9

(* Whole units are counted as such.                                        *)
LEMMA CeilIs ==
    ASSUME NEW n \in Nat \ {0}, NEW q \in Nat
    PROVE  Ceil(q * n, n) = q
<1>1. q * n + n - 1 = q * n + (n - 1)
  BY SMT
<1> QED BY <1>1, DivIs DEF Ceil

-----------------------------------------------------------------------------
(* The code's arithmetic is that of the format.                            *)

(* What an image is.                                                       *)
LEMMA ImageFacts ==
    ASSUME disk \in Images
    PROVE  /\ disk.fat32 <=> disk.clusters >= Fat32Clusters
           /\ disk.fat32 \in BOOLEAN /\ disk.clusters \in Nat
           /\ disk.sectors_per_cluster \in Nat \ {0}
           /\ disk.root_cluster \in Nat
           /\ disk.directory \in Seq(Seq(DirectoryEntry))
           /\ Len(disk.directory) \in Nat
           /\ \A c : Link(disk, c) \in 0..EndOfChain
           /\ EndOfChain \in Nat
           /\ SectorBytes \in Nat \ {0}
<1>1. /\ disk.fat32 = (disk.clusters >= Fat32Clusters)
      /\ disk.sectors_per_cluster \in Nat \ {0}
      /\ disk.root_cluster \in 0..(EndOfChain - 2)
      /\ disk.directory \in Seq(Seq(DirectoryEntry))
  BY ImagesAssumption
<1>2. \A c \in DOMAIN disk.links : disk.links[c] \in 0..EndOfChain
  BY ImagesAssumption
<1>3. EndOfChain \in 0..EndOfChain /\ EndOfChain \in Nat
  BY DEF EndOfChain
<1>4. \A c : Link(disk, c) \in 0..EndOfChain
  BY <1>2, <1>3 DEF Link
<1>5. disk.clusters \in Nat /\ Fat32Clusters \in Nat
  BY ImagesAssumption, Fat32ClustersAssumption
<1>6. disk.fat32 \in BOOLEAN
  BY <1>1, <1>5
<1>7. SectorBytes \in Nat \ {0}
  BY SectorBytesAssumption
<1>8. Len(disk.directory) \in Nat
  BY <1>1
<1>9. disk.root_cluster \in Nat
  <2>1. 0..(EndOfChain - 2) \subseteq Nat
    OBVIOUS
  <2> QED BY <1>1, <2>1, Zenon
<1> QED BY <1>1, <1>3, <1>4, <1>5, <1>6, <1>7, <1>8, <1>9

(* The root directory has a sector; that of FAT32 has a cluster or two.    *)
LEMMA RootFacts ==
    ASSUME disk \in Images
    PROVE  /\ disk.root_cluster + 1 < EndOfChain
           /\ ~disk.fat32 => Len(disk.directory) # 0
           /\ disk.fat32 =>
                 \A c \in {disk.root_cluster, disk.root_cluster + 1} :
                    Link(disk, c) \in
                        {disk.root_cluster, disk.root_cluster + 1, EndOfChain}
<1>1. PICK r : r = disk.root_cluster
  OBVIOUS
<1>2. r \in 0..(EndOfChain - 2)
  BY <1>1, ImagesAssumption, Zenon
<1>3. r + 1 < EndOfChain
  BY <1>2 DEF EndOfChain
<1>4. ~disk.fat32 => Len(disk.directory) # 0
  <2>1. ~disk.fat32 => disk.directory # <<>>
    BY ImagesAssumption, Zenon
  <2>2. disk.directory \in Seq(Seq(DirectoryEntry))
    BY ImageFacts
  <2> QED BY <2>1, <2>2, EmptySeq
<1>5. ASSUME disk.fat32, NEW c \in {r, r + 1}
      PROVE  Link(disk, c) \in {r, r + 1, EndOfChain}
  <2>1. c \in DOMAIN disk.links =>
            disk.links[c] \in {r, r + 1, EndOfChain}
    BY <1>1, <1>5, ImagesAssumption, Zenon
  <2> QED BY <2>1, Zenon DEF Link
<1> QED BY <1>1, <1>3, <1>4, <1>5, Zenon

(* The tables and the root directory have a size.                          *)
LEMMA LayoutFacts ==
    ASSUME disk \in Images
    PROVE  /\ RootStart(disk) \in Int /\ RootSectors(disk) \in Nat
           /\ disk.fat32 => RootSectors(disk) = 0
<1>1. EntryBytes(disk) \in {2, 4}
  BY DEF EntryBytes
<1>2. (disk.clusters + 2) * EntryBytes(disk) \in Int
  BY <1>1, ImageFacts
<1>3. TableSectors(disk) \in Int
  <2>1. PICK x \in Int : x = (disk.clusters + 2) * EntryBytes(disk)
                              + SectorBytes - 1
    BY <1>2, ImageFacts
  <2> QED BY <2>1, ImageFacts DEF TableSectors, Ceil
<1>4. RootStart(disk) \in Int
  BY <1>3 DEF RootStart, Reserved, FatCount
<1>5. Len(disk.directory) \in Nat
  BY ImageFacts
<1> QED BY <1>4, <1>5 DEF RootSectors

(* fat_init computes from the boot sector how the disk is laid out.        *)
LEMMA VolumeIs ==
    ASSUME disk \in Images
    PROVE  LET v == Volume(BootSector(disk))
           IN  /\ v.fat_active /\ (v.is_fat32 <=> disk.fat32)
               /\ v.data_sector = RootStart(disk) + RootSectors(disk)
               /\ v.root_dir_sector = RootStart(disk)
               /\ v.root_dir_sectors = RootSectors(disk)
<1> DEFINE root == RootSectors(disk)
           start == RootStart(disk)
           boot == BootSector(disk)
           spc == disk.sectors_per_cluster
<1>1. /\ boot.root_entry_count = 2 * root
      /\ boot.sectors_per_fat = TableSectors(disk)
      /\ boot.total_sectors = ClusterStart(disk, disk.clusters + 2)
  BY DEF BootSector
<1>2. Reserved + FatCount * boot.sectors_per_fat = start
  BY <1>1 DEF RootStart
<1>3. Ceil(boot.root_entry_count * (SectorBytes \div 2), SectorBytes) = root
  <2>1. PICK k \in Nat : k = SectorBytes \div 4
    BY SectorBytesAssumption
  <2>2. SectorBytes = 4 * k
    BY <2>1, SectorBytesAssumption
  <2>3. SectorBytes \div 2 = 2 * k
    BY <2>2
  <2>4. (2 * root) * (2 * k) = root * (4 * k)
    BY LayoutFacts, SMT
  <2>5. Ceil(root * SectorBytes, SectorBytes) = root
    BY CeilIs, LayoutFacts, ImageFacts
  <2> QED BY <1>1, <2>2, <2>3, <2>4, <2>5
<1>4. (boot.total_sectors - (start + root)) \div spc = disk.clusters
  <2>1. (disk.clusters + 2) - 2 = disk.clusters
    BY ImageFacts
  <2>2. PICK x \in Nat : x = disk.clusters * spc
    BY ImageFacts
  <2>3. boot.total_sectors = start + root + x
    BY <1>1, <2>1, <2>2, Zenon DEF ClusterStart
  <2>4. boot.total_sectors - (start + root) = x
    BY <2>2, <2>3, LayoutFacts
  <2>5. 0 \in 0..(spc - 1) /\ x + 0 = x
    BY ImageFacts
  <2> QED BY <2>2, <2>4, <2>5, DivIs, ImageFacts
<1> HIDE DEF root, start, boot, spc
<1> DEFINE v == Volume(boot)
<1>5. /\ v.fat_active = TRUE
      /\ v.is_fat32 = (disk.clusters >= Fat32Clusters)
      /\ v.data_sector = IF disk.clusters >= Fat32Clusters THEN start
                         ELSE start + root
      /\ v.root_dir_sector = start /\ v.root_dir_sectors = root
  BY <1>2, <1>3, <1>4 DEF Volume, spc
<1>6. disk.fat32 => root = 0
  BY LayoutFacts DEF root
<1>7. start \in Int
  BY LayoutFacts DEF start
<1> QED BY <1>5, <1>6, <1>7, ImageFacts DEF root, start, boot

(* get_cluster_sector finds the cluster where the format puts it.          *)
LEMMA ClusterSectorIs ==
    ASSUME disk \in Images, Mounted, volume.fat_active, NEW c \in Nat
    PROVE  ClusterSector(c) = ClusterStart(disk, c) /\ ClusterSector(c) \in Int
<1>1. volume = Volume(BootSector(disk))
  BY DEF Mounted, NoDisk, NoVolume
<1>2. volume.data_sector = RootStart(disk) + RootSectors(disk)
  BY <1>1, VolumeIs
<1>3. (c - 2) * disk.sectors_per_cluster \in Int
  BY ImageFacts
<1> QED BY <1>2, <1>3, LayoutFacts DEF ClusterSector, ClusterStart

(* get_next_cluster reads the entry of the cluster, in whichever sector of *)
(* the table it lies.                                                      *)
LEMMA NextClusterIs ==
    ASSUME disk \in Images, Mounted, volume.fat_active, NEW c \in Nat
    PROVE  NextCluster(c) = Link(disk, c)
<1>1. volume = Volume(BootSector(disk))
  BY DEF Mounted, NoDisk, NoVolume
<1>2. volume.is_fat32 <=> disk.fat32
  BY <1>1, VolumeIs
<1>3. PICK e \in {2, 4} : e = EntryBytes(disk)
  BY DEF EntryBytes
<1>4. e = IF volume.is_fat32 THEN 4 ELSE 2
  BY <1>2, <1>3 DEF EntryBytes
<1>5. PICK x \in Nat : x = c * e
  BY <1>3, SMT
<1>6. x \div e = c
  <2>1. 0 \in 0..(e - 1) /\ e \in Nat \ {0} /\ x + 0 = x
    BY <1>3
  <2> QED BY <1>5, <2>1, DivIs
<1>7. ((Reserved + (x \div SectorBytes)) - Reserved) * SectorBytes
          + (x % SectorBytes) = x
  <2>1. PICK n \in Nat \ {0} : n = SectorBytes
    BY SectorBytesAssumption
  <2>2. PICK a \in Nat : a = x \div n
    BY SMT
  <2>3. PICK b \in 0..(n - 1) : b = x % n
    BY SMT
  <2>4. x = n * a + b
    BY <2>2, <2>3, SMT
  <2>5. n * a = a * n
    BY SMT
  <2>6. (Reserved + a) - Reserved = a
    BY DEF Reserved
  <2>7. ((Reserved + a) - Reserved) * n + b = x
    BY <2>4, <2>5, <2>6
  <2> QED BY <2>1, <2>2, <2>3, <2>7, Zenon
<1>8. NextCluster(c) = TableEntry(disk, Reserved + (x \div SectorBytes),
                                  x % SectorBytes)
  BY <1>4, <1>5, Zenon DEF NextCluster
<1>9. TableEntry(disk, Reserved + (x \div SectorBytes), x % SectorBytes)
          = Link(disk, (((Reserved + (x \div SectorBytes)) - Reserved)
                            * SectorBytes + (x % SectorBytes))
                          \div EntryBytes(disk))
  BY Zenon DEF TableEntry
<1> QED BY <1>3, <1>6, <1>7, <1>8, <1>9, Zenon

-----------------------------------------------------------------------------
(* The chain of a file.                                                    *)

(* Every set of numbers that is not empty has a least one.                 *)
LEMMA LeastExists ==
    ASSUME NEW S \in SUBSET Nat, S # {}
    PROVE  \E x \in S : \A y \in S : x <= y
<1> DEFINE less == {p \in Nat \X Nat : p[1] < p[2]}
<1>1. IsWellFoundedOn(less, Nat)
  BY NatLessThanWellFounded DEF OpToRel
<1> HIDE DEF less
<1>2. PICK x \in S : \A y \in S : ~(<<y, x>> \in less)
  BY <1>1, WFMin
<1>3. ASSUME NEW y \in S PROVE x <= y
  <2>1. y < x => <<y, x>> \in less
    BY DEF less
  <2> QED BY <1>2, <2>1
<1> QED BY <1>3

(* The k-th cluster, if c has those before it.                             *)
Linked(d, first, c, k) == IF k = 0 THEN first ELSE Link(d, c[k - 1])

(* There are chains of any length: the definition of Chain defines         *)
(* something.                                                              *)
LEMMA ChainsExist ==
    ASSUME NEW d, NEW first, NEW m \in Nat
    PROVE  \E c : c = [k \in 0..m |-> Linked(d, first, c, k)]
<1> DEFINE IsChain(c, n) == c = [k \in 0..n |-> Linked(d, first, c, k)]
           Missing == {n \in Nat : ~(\E c : IsChain(c, n))}
<1>1. SUFFICES ASSUME Missing # {} PROVE FALSE
  OBVIOUS
<1> HIDE DEF IsChain
<1>2. PICK n \in Missing : \A i \in Missing : n <= i
  BY <1>1, LeastExists
<1>3. n # 0
  <2> DEFINE c0 == [k \in 0..0 |-> first]
  <2>1. \A k \in 0..0 : Linked(d, first, c0, k) = first
    BY DEF Linked
  <2>2. IsChain(c0, 0)
    BY <2>1 DEF IsChain
  <2> QED BY <2>2
<1>4. n - 1 \in Nat /\ n - 1 \notin Missing
  BY <1>2, <1>3
<1>5. PICK c : IsChain(c, n - 1)
  BY <1>4
<1>6. c = [k \in 0..(n - 1) |-> Linked(d, first, c, k)]
  BY <1>5 DEF IsChain
<1> DEFINE e == [k \in 0..n |-> Linked(d, first, c, k)]
<1>7. ASSUME NEW k \in 0..(n - 1) PROVE e[k] = c[k]
  <2>1. k \in 0..n
    BY <1>2, <1>3
  <2> QED BY <1>6, <2>1
<1> HIDE DEF e
<1>8. \A k \in 0..n : Linked(d, first, c, k) = Linked(d, first, e, k)
  <2>1. ASSUME NEW k \in 0..n, k # 0 PROVE c[k - 1] = e[k - 1]
    <3>1. k - 1 \in 0..(n - 1)
      BY <1>2, <2>1
    <3> QED BY <1>7, <3>1
  <2> QED BY <2>1 DEF Linked
<1>9. e = [k \in 0..n |-> Linked(d, first, e, k)]
  BY <1>8 DEF e
<1> QED BY <1>2, <1>9 DEF IsChain

(* The equation Chain is defined by.                                       *)
LEMMA ChainIs ==
    ASSUME NEW d, NEW first, NEW size \in Nat, NEW k \in 0..size
    PROVE  Chain(d, first, size)[k] =
               IF k = 0 THEN first ELSE Link(d, Chain(d, first, size)[k - 1])
<1>1. \E c : c = [i \in 0..size |-> Linked(d, first, c, i)]
  BY ChainsExist
<1>2. Chain(d, first, size)
          = [i \in 0..size |-> Linked(d, first, Chain(d, first, size), i)]
  BY <1>1 DEF Chain, Linked
<1> DEFINE c == Chain(d, first, size)
<1> HIDE DEF c
<1>3. c = [i \in 0..size |-> Linked(d, first, c, i)]
  BY <1>2 DEF c
<1>4. c[k] = Linked(d, first, c, k)
  BY <1>3
<1> QED BY <1>4 DEF c, Linked

(* Behind the first cluster each is the one its predecessor links to.      *)
LEMMA ChainGoesOn ==
    ASSUME NEW d, NEW first, NEW size \in Nat, NEW k \in 0..size, k # 0
    PROVE  Chain(d, first, size)[k] = Link(d, Chain(d, first, size)[k - 1])
BY ChainIs

(* What an entry holds.                                                    *)
LEMMA EntryFacts ==
    ASSUME NEW e \in Entries
    PROVE  e.first \in 0..EndOfChain /\ e.size \in Nat
<1>1. CASE e \in DirectoryEntry
  BY <1>1 DEF DirectoryEntry
<1>2. CASE e = NoEntry
  <2>1. e.first = 0 /\ e.size = 0
    BY <1>2 DEF NoEntry
  <2> QED BY <2>1 DEF EndOfChain
<1> QED BY <1>1, <1>2 DEF Entries

(* What the commands' variables are.                                       *)
LEMMA CommandFacts ==
    ASSUME CommandsOK
    PROVE  /\ Wanted \in Nat /\ FileSize = Wanted
           /\ cmd.entry \in Entries /\ cmd.entry.first \in 0..EndOfChain
           /\ cmd.cluster \in Nat /\ cmd.s \in Nat /\ cmd.bytes_read \in Nat
           /\ Len(out) \in Nat /\ out \in Seq(Piece) /\ disk \in Images
           /\ DOMAIN out = 1..Len(out)
<1>1. /\ cmd.entry \in Entries /\ cmd.max_size \in Nat
      /\ cmd.cluster \in Nat /\ cmd.s \in Nat /\ cmd.bytes_read \in Nat
      /\ out \in Seq(Piece) /\ disk \in Images
  BY DEF CommandsOK
<1> QED BY <1>1, EntryFacts DEF Wanted, FileSize

(* And in the next state.                                                  *)
LEMMA CommandFactsNext ==
    ASSUME CommandsOK'
    PROVE  /\ Wanted' \in Nat /\ FileSize' = Wanted'
           /\ cmd'.bytes_read \in Nat /\ cmd'.cluster \in Nat
           /\ Len(out') \in Nat /\ disk' \in Images
           /\ cmd'.entry.first \in 0..EndOfChain
<1>1. /\ cmd'.entry \in Entries /\ cmd'.max_size \in Nat
      /\ cmd'.cluster \in Nat /\ cmd'.bytes_read \in Nat
      /\ out' \in Seq(Piece) /\ disk' \in Images
  BY DEF CommandsOK
<1> QED BY <1>1, EntryFacts DEF Wanted, FileSize

-----------------------------------------------------------------------------
(* What the steps have in common.                                          *)

(* What is expected of the k-th sector that is copied.                     *)
Expected(k) ==
    [sector |-> SectorOf(cmd.entry, k),
     bytes |-> IF k * SectorBytes <= Wanted THEN SectorBytes
               ELSE Wanted % SectorBytes]

(* The file that is meant stays the same.                                  *)
LEMMA FileStays ==
    ASSUME disk' = disk, cmd'.max_size = cmd.max_size,
           cmd'.entry = cmd.entry
    PROVE  /\ Wanted' = Wanted /\ FileSize' = FileSize
           /\ ChainOf(cmd.entry)' = ChainOf(cmd.entry)
           /\ \A k : Expected(k)' = Expected(k)
<1>1. Wanted' = Wanted /\ FileSize' = FileSize
  BY DEF Wanted, FileSize
<1>2. ChainOf(cmd.entry)' = ChainOf(cmd.entry)
  BY <1>1 DEF ChainOf
<1>3. ASSUME NEW k PROVE SectorOf(cmd.entry, k)' = SectorOf(cmd.entry, k)
  BY <1>2 DEF SectorOf
<1> QED BY <1>1, <1>2, <1>3 DEF Expected

(* What fat_init finds stays the same.                                     *)
LEMMA VolumeStays ==
    ASSUME Mounted, disk' = disk, volume' = volume,
           \/ volume.fat_active
           \/ pc' \notin {"scan", "next", "copy", "follow"}
    PROVE  Mounted'
<1>1. Volume(BootSector(disk))' = Volume(BootSector(disk))
  BY DEF Volume
<1> QED BY <1>1 DEF Mounted

(* Before the first sector nothing wrong has been copied.                  *)
LEMMA NothingCopied ==
    ASSUME out' = <<>>
    PROVE  CopiesTheFile' /\ out' \in Seq(Piece)
BY DEF CopiesTheFile

(* What has been copied stays right.                                       *)
LEMMA CopiedStays ==
    ASSUME CopiesTheFile, out' = out, disk' = disk,
           cmd'.max_size = cmd.max_size, cmd'.entry = cmd.entry
    PROVE  CopiesTheFile'
<1>1. out = [k \in DOMAIN out |-> Expected(k)]
  BY DEF CopiesTheFile, Expected
<1>2. out' = [k \in DOMAIN out' |-> Expected(k)']
  BY <1>1, FileStays
<1> QED BY <1>2 DEF CopiesTheFile, Expected

-----------------------------------------------------------------------------
(* The ends of commands.                                                   *)

(* The command ends without printing a file.                               *)
LEMMA Answered ==
    ASSUME FatInv, NEW said, said # "printed", Answer(said),
           disk' = disk, volume' = volume, out' = out
    PROVE  FatInv'
<1>1. pc' = "shell" /\ outcome' = said /\ cmd' = cmd
  BY DEF Answer
<1>2. CommandsOK'
  BY <1>1 DEF FatInv, CommandsOK
<1>3. Mounted'
  BY <1>1, VolumeStays DEF FatInv
<1>4. CopiesTheFile'
  BY <1>1, CopiedStays DEF FatInv
<1>5. PrintedComplete'
  BY <1>1 DEF PrintedComplete
<1> QED BY <1>1, <1>2, <1>3, <1>4, <1>5 DEF FatInv, Fresh

(* A scan of the directory begins.                                         *)
LEMMA Begun ==
    ASSUME FatInv, NEW op \in {"list", "size", "read"},
           NEW name \in Names \cup {""}, NEW max_size \in Nat,
           BeginScan(op, name, max_size), volume.fat_active,
           disk' = disk, volume' = volume, out' = <<>>
    PROVE  FatInv'
<1>1. /\ pc' = "scan" /\ outcome' = "none"
      /\ cmd' = [op |-> op, name |-> name, max_size |-> max_size,
                 entry |-> NoEntry, cluster |-> disk.root_cluster, s |-> 0,
                 bytes_read |-> 0]
  BY DEF BeginScan
<1>2. disk \in Images /\ disk.root_cluster \in Nat
  BY ImageFacts DEF FatInv, CommandsOK
<1>3. NoEntry \in Entries
  BY DEF Entries
<1>4. CommandsOK'
  BY <1>1, <1>2, <1>3, NothingCopied DEF CommandsOK
<1>5. Mounted'
  BY VolumeStays DEF FatInv
<1>6. PrintedComplete'
  BY <1>1 DEF PrintedComplete
<1>7. cmd'.bytes_read = 0
  BY <1>1
<1> QED BY <1>1, <1>4, <1>5, <1>6, <1>7, NothingCopied DEF FatInv, Fresh

(* What is at least a units is so after division.                          *)
LEMMA DivAtLeast ==
    ASSUME NEW n \in Nat \ {0}, NEW a \in Nat, NEW v \in Nat, a * n <= v
    PROVE  a \in 0..(v \div n)
<1>1. PICK q \in Nat : q = v \div n
  BY SMT
<1>2. PICK r \in 0..(n - 1) : r = v % n
  BY SMT
<1>3. v = n * q + r
  BY <1>1, <1>2, SMT
<1>4. n * q = q * n
  BY SMT
<1>5. SUFFICES ASSUME q + 1 <= a PROVE FALSE
  BY <1>1
<1>6. (q + 1) * n <= a * n
  BY <1>5, Scales
<1>7. (q + 1) * n = q * n + n
  BY SMT
<1> QED BY <1>2, <1>3, <1>4, <1>6, <1>7

(* The loop comes to the j-th cluster of the file, all before it copied:   *)
(* it goes on, or it ends with the file or with its chain.                 *)
LEMMA AtCluster ==
    ASSUME CommandsOK', Mounted', CopiesTheFile', volume'.fat_active,
           NEW j \in Nat, NEW spc \in Nat \ {0},
           spc = disk'.sectors_per_cluster,
           Len(out') = j * spc, cmd'.s = 0,
           \/ cmd'.bytes_read = Wanted'
           \/ /\ cmd'.bytes_read = Len(out') * SectorBytes
              /\ cmd'.bytes_read < Wanted' /\ j \in 0..Wanted'
              /\ ChainOf(cmd.entry)'[j] = cmd'.cluster
              /\ cmd'.cluster \in 0..EndOfChain,
           GoToData(cmd'.cluster)
    PROVE  FatInv'
<1>1. /\ Wanted' \in Nat /\ FileSize' = Wanted' /\ Len(out') \in Nat
      /\ cmd'.bytes_read \in Nat
  BY CommandFactsNext
<1>2. CASE cmd'.bytes_read = Wanted'
  <2>1. pc' = "shell" /\ outcome' = "printed"
    BY <1>1, <1>2 DEF GoToData
  <2>2. PrintedComplete'
    BY <1>2 DEF PrintedComplete
  <2> QED BY <2>1, <2>2 DEF FatInv, Fresh
<1>3. CASE cmd'.bytes_read # Wanted'
  <2>1. /\ cmd'.bytes_read = Len(out') * SectorBytes
        /\ cmd'.bytes_read < Wanted' /\ j \in 0..Wanted'
        /\ ChainOf(cmd.entry)'[j] = cmd'.cluster
        /\ cmd'.cluster \in 0..EndOfChain
    BY <1>3
  <2>2. ~(cmd'.bytes_read >= FileSize')
    BY <1>1, <2>1
  <2>3. CASE cmd'.cluster \in {0, EndOfChain}
    <3>1. pc' = "shell" /\ outcome' = "printed"
      BY <2>3 DEF GoToData, EndOfChain
    <3>2. PICK n \in Nat \ {0} : n = SectorBytes
      BY SectorBytesAssumption
    <3>3. PICK u \in Nat \ {0} : u = n * spc
      BY SMT
    <3>4. j * u = (j * spc) * n
      BY <3>3, SMT
    <3>5. Wanted' - 1 \in Nat /\ j * u <= Wanted' - 1
      <4>1. PICK w \in Nat : w = Wanted'
        BY <1>1
      <4>2. PICK x \in Nat : x = (j * spc) * n
        BY SMT
      <4>3. x < w
        BY <2>1, <3>2, <4>1, <4>2
      <4>4. w - 1 \in Nat /\ x <= w - 1
        BY <4>3
      <4> QED BY <3>4, <4>1, <4>2, <4>4
    <3>6. j \in 0..((Wanted' - 1) \div u)
      BY <3>5, DivAtLeast
    <3>7. ChainTooShort'
      BY <2>1, <2>3, <3>2, <3>3, <3>6 DEF ChainTooShort
    <3>8. PrintedComplete'
      BY <3>7 DEF PrintedComplete
    <3> QED BY <3>1, <3>8 DEF FatInv, Fresh
  <2>4. CASE cmd'.cluster \notin {0, EndOfChain}
    <3>1. ~(cmd'.cluster = 0 \/ cmd'.cluster >= EndOfChain)
      <4>1. PICK c \in 0..EndOfChain : c = cmd'.cluster
        BY <2>1
      <4>2. c # 0 /\ c # EndOfChain
        BY <2>4, <4>1
      <4>3. ~(c = 0 \/ c >= EndOfChain)
        BY <4>2 DEF EndOfChain
      <4> QED BY <4>1, <4>3
    <3>2. pc' = "copy" /\ outcome' = "none"
      BY <2>2, <3>1 DEF GoToData
    <3>3. Len(out') = j * spc + 0
      BY <1>1
    <3>4. Copying(j)'
      BY <2>1, <3>2, <3>3 DEF Copying
    <3>5. PrintedComplete'
      BY <3>2 DEF PrintedComplete
    <3> QED BY <2>1, <3>2, <3>4, <3>5 DEF FatInv, Fresh
  <2> QED BY <2>3, <2>4
<1> QED BY <1>2, <1>3

-----------------------------------------------------------------------------
(* The scan of the directory.                                              *)

(* The scan is over: the command ends, the file is read, or its loop       *)
(* begins at the first cluster of the entry.                               *)
LEMMA EndScanKeeps ==
    ASSUME FatInv, pc \in {"scan", "next"}, NEW entry \in Entries,
           EndScan(entry), disk' = disk, volume' = volume, out' = out
    PROVE  FatInv'
<1>1. /\ CommandsOK /\ volume.fat_active /\ out' = <<>>
      /\ cmd.bytes_read = 0 /\ Mounted
  BY DEF FatInv, Fresh, Mounted
<1>2. entry.first \in 0..EndOfChain /\ entry.first \in Nat /\ entry.size \in Nat
  BY EntryFacts DEF EndOfChain
<1>3. CASE cmd.op = "list" /\ Answer("listed")
  BY <1>3, Answered
<1>4. CASE cmd.op = "size" /\ Answer("not found")
  BY <1>4, Answered
<1>5. CASE cmd.op = "size" /\ Answer("no memory")
  BY <1>5, Answered
<1>6. CASE cmd.op = "size" /\ BeginScan("read", cmd.name, entry.size)
  <2>1. cmd.name \in Names \cup {""}
    BY <1>1 DEF CommandsOK
  <2> QED BY <1>1, <1>2, <1>6, <2>1, Begun
<1>7. CASE cmd.op = "read" /\ Answer("failed")
  BY <1>7, Answered
<1>8. CASE /\ cmd' = [cmd EXCEPT !.entry = entry, !.cluster = entry.first,
                                 !.s = 0]
           /\ GoToData(entry.first)
  <2>1. pc' \in {"shell", "copy"}
    BY <1>8 DEF GoToData
  <2>2. CommandsOK'
    BY <1>1, <1>2, <1>8, <2>1 DEF CommandsOK
  <2>3. /\ cmd'.entry = entry /\ cmd'.cluster = entry.first /\ cmd'.s = 0
        /\ cmd'.bytes_read = 0
    BY <1>1, <1>8 DEF CommandsOK
  <2>4. PICK w \in Nat : w = Wanted'
    BY <2>2, CommandFactsNext
  <2>5. ChainOf(cmd.entry)'[0] = entry.first
    <3>1. ChainOf(cmd.entry)' = Chain(disk', entry.first, w)
      BY <2>3, <2>4 DEF ChainOf
    <3>2. 0 \in 0..w
      OBVIOUS
    <3> QED BY <3>1, <3>2, ChainIs
  <2>6. PICK spc \in Nat \ {0} : spc = disk'.sectors_per_cluster
    BY <1>1, ImageFacts DEF CommandsOK
  <2>7. Len(out') = 0 * spc /\ 0 = Len(out') * SectorBytes
    <3>1. Len(out') = 0
      BY <1>1
    <3>2. 0 * spc = 0 /\ 0 * SectorBytes = 0
      BY SectorBytesAssumption
    <3> QED BY <3>1, <3>2
  <2>8. Mounted' /\ volume'.fat_active
    BY <1>1, VolumeStays
  <2>9. 0 = w \/ (0 < w /\ 0 \in 0..w)
    OBVIOUS
  <2>10. GoToData(cmd'.cluster)
    BY <1>8, <2>3
  <2> HIDE <1>8
  <2>11. CopiesTheFile'
    BY <1>1, NothingCopied
  <2> QED BY <1>2, <2>2, <2>3, <2>4, <2>5, <2>6, <2>7, <2>8, <2>9, <2>10,
             <2>11, AtCluster
<1> QED BY <1>3, <1>4, <1>5, <1>6, <1>7, <1>8 DEF EndScan

(* The scan goes on.                                                       *)
LEMMA ScanGoesOn ==
    ASSUME FatInv, pc \in {"scan", "next"}, pc' \in {"scan", "next"},
           outcome' = outcome, out' = out, disk' = disk, volume' = volume,
           NEW e \in Entries, NEW c \in Nat, NEW s \in Nat,
           cmd' = [cmd EXCEPT !.entry = e, !.cluster = c, !.s = s]
    PROVE  FatInv'
<1>1. /\ CommandsOK /\ volume.fat_active /\ out' = <<>> /\ Mounted
      /\ outcome' = "none"
  BY DEF FatInv, Fresh, Mounted
<1>2. CommandsOK' /\ cmd'.bytes_read = cmd.bytes_read
  BY <1>1 DEF CommandsOK
<1>3. Mounted'
  BY <1>1, VolumeStays
<1>4. PrintedComplete'
  BY <1>1 DEF PrintedComplete
<1> QED BY <1>1, <1>2, <1>3, <1>4, NothingCopied DEF FatInv, Fresh

SectorEntries == DirectoryEntry \cup {EndEntry}

(* The sectors of the directory hold entries.                              *)
LEMMA RootSectorIs ==
    ASSUME disk \in Images, NEW k
    PROVE  RootSector(disk, k) \in Seq(SectorEntries)
<1>1. disk.directory \in Seq(Seq(DirectoryEntry))
  BY ImageFacts
<1>2. \A i \in DOMAIN disk.directory : disk.directory[i] \in Seq(DirectoryEntry)
  BY <1>1
<1>3. ASSUME NEW i \in DOMAIN disk.directory
      PROVE  disk.directory[i] \in Seq(SectorEntries)
  BY <1>2 DEF SectorEntries
<1>4. <<EndEntry>> \in Seq(SectorEntries)
  BY DEF SectorEntries
<1> QED BY <1>3, <1>4 DEF RootSector

LEMMA SectorIs ==
    ASSUME disk \in Images, NEW sector
    PROVE  DirectorySector(disk, sector) \in Seq(SectorEntries)
<1>1. \A k : RootSector(disk, k) \in Seq(SectorEntries)
  BY RootSectorIs
<1> QED BY <1>1 DEF DirectorySector

(* A search finds an entry of the directory.                               *)
LEMMA FoundIs ==
    ASSUME NEW entries \in Seq(SectorEntries), NEW name,
           Matching(entries, name) # {}
    PROVE  /\ entries[Min(Matching(entries, name))] \in Entries \ {NoEntry}
           /\ Min(Matching(entries, name)) \in Matching(entries, name)
<1> DEFINE found == Matching(entries, name)
<1>1. found \subseteq 1..Len(entries) /\ Len(entries) \in Nat
  BY DEF Matching, BeforeEnd
<1>2. found \in SUBSET Nat
  BY <1>1
<1> HIDE DEF found
<1>3. \E x \in found : \A y \in found : x <= y
  BY <1>2, LeastExists DEF found
<1>4. Min(found) \in found
  BY <1>3 DEF Min
<1>5. entries[Min(found)] \in DirectoryEntry
  <2>1. PICK i \in 1..Len(entries) : i = Min(found)
    BY <1>1, <1>4
  <2>2. entries[i] \in SectorEntries
    OBVIOUS
  <2>3. entries[i].kind # "end"
    <3>1. \A j \in 1..i : entries[j].kind # "end"
      BY <1>4, <2>1 DEF found, Matching, BeforeEnd
    <3> QED BY <3>1
  <2>4. entries[i] # EndEntry
    <3>1. EndEntry.kind = "end"
      BY DEF EndEntry
    <3> QED BY <2>3, <3>1
  <2> QED BY <2>1, <2>2, <2>4 DEF SectorEntries
<1>6. entries[Min(found)] # NoEntry
  <2>1. PICK e \in DirectoryEntry : e = entries[Min(found)]
    BY <1>5
  <2>2. e.kind \in {"file", "deleted", "long", "end"}
    BY DEF DirectoryEntry
  <2>3. NoEntry.kind = "none"
    BY DEF NoEntry
  <2>4. e # NoEntry
    BY <2>2, <2>3
  <2> QED BY <2>1, <2>4
<1> QED BY <1>4, <1>5, <1>6 DEF found, Entries

(* Where nothing is assigned.                                              *)
LEMMA CommandSame ==
    ASSUME CommandsOK
    PROVE  /\ cmd = [cmd EXCEPT !.entry = cmd.entry, !.cluster = cmd.cluster,
                                !.s = cmd.s]
           /\ cmd.entry \in Entries /\ cmd.cluster \in Nat /\ cmd.s \in Nat
BY DEF CommandsOK

(* The next sector of the directory, or the end of a FAT16 one.            *)
LEMMA NextSectorKeeps ==
    ASSUME FatInv, pc = "scan", NextSector, disk' = disk, volume' = volume,
           out' = out
    PROVE  FatInv'
<1>1. CommandsOK
  BY DEF FatInv
<1>2. CASE cmd' = [cmd EXCEPT !.s = @ + 1] /\ UNCHANGED <<pc, outcome>>
  <2>1. cmd' = [cmd EXCEPT !.entry = cmd.entry, !.cluster = cmd.cluster,
                           !.s = cmd.s + 1]
    BY <1>1, <1>2 DEF CommandsOK
  <2>2. cmd.s + 1 \in Nat
    BY <1>1, CommandSame
  <2>3. pc' = "scan" /\ outcome' = outcome
    BY <1>2
  <2>4. cmd.cluster \in Nat /\ cmd.entry \in Entries
    BY <1>1, CommandSame
  <2> HIDE <1>2
  <2> QED BY <2>1, <2>2, <2>3, <2>4, ScanGoesOn
<1>3. CASE pc' = "next" /\ UNCHANGED <<cmd, outcome>>
  BY <1>1, <1>3, CommandSame, ScanGoesOn
<1>4. CASE EndScan(NoEntry)
  BY <1>4, EndScanKeeps DEF Entries
<1> QED BY <1>2, <1>3, <1>4 DEF NextSector

(* One sector of the directory.                                            *)
LEMMA ScanKeeps ==
    ASSUME FatInv, Scan
    PROVE  FatInv'
<1>1. /\ CommandsOK /\ pc = "scan" /\ disk' = disk /\ volume' = volume
      /\ out' = out
  BY DEF FatInv, Scan
<1>2. disk \in Images
  BY <1>1 DEF CommandsOK
<1>3. PICK entries \in Seq(SectorEntries) :
          \/ Answer("listed")
          \/ NextSector
          \/ /\ Matching(entries, cmd.name) # {}
             /\ \/ /\ cmd' = [cmd EXCEPT !.entry =
                                 entries[Min(Matching(entries, cmd.name))]]
                   /\ pc' = "next" /\ UNCHANGED outcome
                \/ EndScan(entries[Min(Matching(entries, cmd.name))])
  <2>1. PICK sector :
            sector = (IF volume.is_fat32 THEN ClusterSector(cmd.cluster)
                      ELSE volume.root_dir_sector) + cmd.s
    OBVIOUS
  <2>2. DirectorySector(disk, sector) \in Seq(SectorEntries)
    BY <1>2, SectorIs
  <2>3. PICK entries : entries = DirectorySector(disk, sector)
    OBVIOUS
  <2> QED BY <2>1, <2>2, <2>3, Zenon DEF Scan
<1>4. CASE Answer("listed")
  BY <1>1, <1>4, Answered
<1>5. CASE NextSector
  BY <1>1, <1>5, NextSectorKeeps
<1>6. CASE Matching(entries, cmd.name) # {}
  <2>1. PICK e \in Entries : e = entries[Min(Matching(entries, cmd.name))]
    BY <1>6, FoundIs
  <2>2. CASE EndScan(e)
    BY <1>1, <2>2, EndScanKeeps
  <2>3. CASE /\ cmd' = [cmd EXCEPT !.entry = e]
             /\ pc' = "next" /\ UNCHANGED outcome
    <3>1. cmd' = [cmd EXCEPT !.entry = e, !.cluster = cmd.cluster,
                             !.s = cmd.s]
      BY <1>1, <2>3 DEF CommandsOK
    <3>2. pc' = "next" /\ outcome' = outcome
      BY <2>3
    <3>3. cmd.cluster \in Nat /\ cmd.s \in Nat
      BY <1>1, CommandSame
    <3> HIDE <2>3
    <3> QED BY <1>1, <3>1, <3>2, <3>3, ScanGoesOn
  <2> QED BY <1>3, <1>4, <1>5, <2>1, <2>2, <2>3
<1> QED BY <1>3, <1>4, <1>5, <1>6

(* A sector of the directory cannot be read.                               *)
LEMMA ScanFailsKeeps ==
    ASSUME FatInv, ScanFails
    PROVE  FatInv'
<1>1. /\ CommandsOK /\ pc = "scan" /\ disk' = disk /\ volume' = volume
      /\ out' = out
  BY DEF FatInv, ScanFails
<1>2. CASE pc' = "next" /\ UNCHANGED <<cmd, outcome>>
  BY <1>1, <1>2, CommandSame, ScanGoesOn
<1>3. CASE EndScan(NoEntry)
  BY <1>1, <1>3, EndScanKeeps DEF Entries
<1> QED BY <1>2, <1>3 DEF ScanFails

(* The next cluster of a FAT32 directory, or the end of the scan.          *)
LEMMA NextDirectoryClusterKeeps ==
    ASSUME FatInv, NextDirectoryCluster
    PROVE  FatInv'
<1>1. /\ CommandsOK /\ pc = "next" /\ disk' = disk /\ volume' = volume
      /\ out' = out /\ Mounted /\ volume.fat_active
  BY DEF FatInv, Mounted, NextDirectoryCluster
<1>2. disk \in Images /\ cmd.entry \in Entries /\ cmd.cluster \in Nat
  BY <1>1 DEF CommandsOK
<1>3. NextCluster(cmd.cluster) \in 0..EndOfChain
  BY <1>1, <1>2, NextClusterIs, ImageFacts
<1>4. PICK c \in 0..EndOfChain : GoToDirectory(c)
  <2>1. EndOfChain \in 0..EndOfChain
    BY DEF EndOfChain
  <2> QED BY <1>3, <2>1 DEF NextDirectoryCluster
<1>5. c \in Nat
  BY DEF EndOfChain
<1>6. CASE EndScan(cmd.entry)
  BY <1>1, <1>2, <1>6, EndScanKeeps
<1>7. CASE /\ pc' = "scan" /\ UNCHANGED outcome
           /\ cmd' = [cmd EXCEPT !.cluster = c, !.s = 0]
  <2>1. cmd' = [cmd EXCEPT !.entry = cmd.entry, !.cluster = c, !.s = 0]
    BY <1>1, <1>7 DEF CommandsOK
  <2> QED BY <1>1, <1>2, <1>5, <1>7, <2>1, ScanGoesOn
<1> QED BY <1>4, <1>6, <1>7 DEF GoToDirectory

-----------------------------------------------------------------------------
(* The loop of fat_read_file.                                              *)

(* Where the next sector of the file is, and how much of it belongs to the *)
(* file.                                                                   *)
LEMMA NextIsExpected ==
    ASSUME FatInv, NEW j \in 0..Wanted, Copying(j), pc = "copy",
           NEW rest, rest = FileSize - cmd.bytes_read
    PROVE  Expected(Len(out) + 1) =
               [sector |-> ClusterSector(cmd.cluster) + cmd.s,
                bytes |-> IF rest < SectorBytes THEN rest ELSE SectorBytes]
<1>1. /\ Wanted \in Nat /\ FileSize = Wanted /\ Len(out) \in Nat
      /\ cmd.s \in Nat /\ cmd.cluster \in Nat /\ disk \in Images
      /\ Mounted /\ volume.fat_active
  BY CommandFacts DEF FatInv, Mounted
<1>2. PICK n \in Nat : n = Len(out)
  BY <1>1
<1>3. PICK spc \in Nat \ {0} : spc = disk.sectors_per_cluster
  BY <1>1, ImageFacts
<1>4. /\ n = j * spc + cmd.s /\ cmd.s \in 0..(spc - 1)
      /\ cmd.cluster = ChainOf(cmd.entry)[j]
      /\ cmd.bytes_read = n * SectorBytes /\ n * SectorBytes < Wanted
  BY <1>1, <1>2, <1>3 DEF Copying
<1>5. SectorOf(cmd.entry, n + 1) = ClusterSector(cmd.cluster) + cmd.s
  <2>1. (n + 1) - 1 = n
    BY SMT
  <2>2. n \div spc = j /\ n % spc = cmd.s
    <3>1. j \in Nat
      BY <1>1
    <3>2. (j * spc + cmd.s) \div spc = j /\ (j * spc + cmd.s) % spc = cmd.s
      BY <1>4, <3>1, DivIs
    <3> QED BY <1>4, <3>2, Zenon
  <2>3. ClusterStart(disk, cmd.cluster) = ClusterSector(cmd.cluster)
    BY <1>1, ClusterSectorIs
  <2> QED BY <1>3, <1>4, <2>1, <2>2, <2>3, Zenon DEF SectorOf
<1>6. (IF (n + 1) * SectorBytes <= Wanted THEN SectorBytes
       ELSE Wanted % SectorBytes)
          = IF rest < SectorBytes THEN rest ELSE SectorBytes
  <2>1. PICK b \in Nat \ {0} : b = SectorBytes
    BY SectorBytesAssumption
  <2>2. PICK w \in Nat : w = Wanted
    BY <1>1
  <2>3. PICK x \in Nat : x = n * b
    BY SMT
  <2>4. (n + 1) * b = x + b
    BY <2>3, SMT
  <2>5. rest = w - x /\ x < w
    BY <1>1, <1>4, <2>1, <2>2, <2>3
  <2>6. CASE rest < b
    <3>1. rest \in 0..(b - 1) /\ w = x + rest
      BY <2>5, <2>6
    <3>2. w % b = rest
      BY <2>3, <3>1, DivIs
    <3>3. ~(x + b <= w)
      BY <2>5, <2>6
    <3> QED BY <2>1, <2>2, <2>4, <2>6, <3>2, <3>3
  <2>7. CASE ~(rest < b)
    <3>1. x + b <= w
      BY <2>5, <2>7
    <3> QED BY <2>1, <2>2, <2>4, <2>7, <3>1
  <2> QED BY <2>6, <2>7
<1> QED BY <1>2, <1>5, <1>6 DEF Expected

(* One sector more has been copied.                                        *)
LEMMA CopySectorKeeps ==
    ASSUME FatInv, CopySector
    PROVE  FatInv'
<1> DEFINE rest == FileSize - cmd.bytes_read
           n == IF rest < SectorBytes THEN rest ELSE SectorBytes
           piece == [sector |-> ClusterSector(cmd.cluster) + cmd.s,
                     bytes |-> n]
<1>1. /\ pc = "copy" /\ out' = Append(out, piece)
      /\ cmd' = [cmd EXCEPT !.bytes_read = cmd.bytes_read + n,
                            !.s = cmd.s + 1]
      /\ pc' = IF cmd.s + 1 < disk.sectors_per_cluster /\ n < rest
               THEN "copy" ELSE "follow"
      /\ disk' = disk /\ volume' = volume /\ outcome' = outcome
      /\ CommandsOK
  BY DEF CopySector, FatInv, CommandsOK
<1>2. /\ Wanted \in Nat /\ FileSize = Wanted /\ Len(out) \in Nat
      /\ cmd.s \in Nat /\ cmd.cluster \in Nat /\ disk \in Images
      /\ cmd.bytes_read \in Nat /\ out \in Seq(Piece)
      /\ Mounted /\ volume.fat_active /\ outcome = "none" /\ CopiesTheFile
  BY <1>1, CommandFacts DEF FatInv, Fresh, Mounted
<1>3. PICK j \in 0..Wanted : Copying(j)
  BY <1>1 DEF FatInv
<1>4. PICK spc \in Nat \ {0} : spc = disk.sectors_per_cluster
  BY <1>2, ImageFacts
<1>5. PICK b \in Nat \ {0} : b = SectorBytes
  BY SectorBytesAssumption
<1>6. PICK l \in Nat : l = Len(out)
  BY <1>2
<1>7. PICK x \in Nat : x = l * b
  BY SMT
<1>8. /\ l = j * spc + cmd.s /\ cmd.s < spc
      /\ cmd.cluster = ChainOf(cmd.entry)[j]
      /\ cmd.bytes_read = x /\ x < Wanted
  BY <1>1, <1>3, <1>4, <1>5, <1>6, <1>7 DEF Copying
<1>9. PICK w \in Nat : w = Wanted
  BY <1>2
<1>10. rest = w - x /\ rest \in Nat \ {0}
  BY <1>2, <1>8, <1>9
<1>11. n \in Nat /\ n = (IF rest < b THEN rest ELSE b) /\ n <= rest
  BY <1>5, <1>10
<1>12. piece = Expected(l + 1)
  BY <1>1, <1>3, <1>6, NextIsExpected
<1>13. piece \in Piece
  <2>1. ClusterSector(cmd.cluster) \in Int
    BY <1>2, ClusterSectorIs
  <2>2. ClusterSector(cmd.cluster) + cmd.s \in Int
    BY <1>2, <2>1
  <2> QED BY <1>11, <2>2 DEF Piece
<1> HIDE DEF piece, n, rest
<1>14. /\ out' \in Seq(Piece) /\ Len(out') = l + 1
       /\ \A k \in 1..l : out'[k] = out[k]
       /\ out'[l + 1] = piece
  BY <1>1, <1>2, <1>6, <1>13, AppendProperties
<1>15. cmd.bytes_read + n \in Nat /\ cmd.s + 1 \in Nat
  BY <1>2, <1>11
<1>16. CommandsOK'
  BY <1>1, <1>14, <1>15 DEF CommandsOK
<1>17. /\ cmd'.s = cmd.s + 1 /\ cmd'.bytes_read = x + n
       /\ cmd'.cluster = cmd.cluster /\ cmd'.entry = cmd.entry
       /\ cmd'.max_size = cmd.max_size
  BY <1>1, <1>8 DEF CommandsOK
<1>18. Wanted' = w /\ ChainOf(cmd.entry)' = ChainOf(cmd.entry)
       /\ \A k : Expected(k)' = Expected(k)
  BY <1>1, <1>9, <1>17, FileStays
<1>19. CopiesTheFile'
  <2>1. \A k \in 1..l : out[k] = Expected(k)
    <3>1. out = [k \in DOMAIN out |-> Expected(k)]
      BY <1>2 DEF CopiesTheFile, Expected
    <3> QED BY <1>2, <1>6, <3>1
  <2>2. DOMAIN out' = 1..(l + 1)
    BY <1>14
  <2>3. \A k \in 1..(l + 1) : out'[k] = Expected(k)
    <3>1. \A k \in 1..(l + 1) : k \in 1..l \/ k = l + 1
      OBVIOUS
    <3> QED BY <1>12, <1>14, <2>1, <3>1
  <2>4. out' = [k \in DOMAIN out' |-> Expected(k)]
    BY <1>14, <2>2, <2>3
  <2>5. out' = [k \in DOMAIN out' |-> Expected(k)']
    BY <1>18, <2>4
  <2> QED BY <2>5 DEF CopiesTheFile, Expected
<1>20. Mounted'
  BY <1>1, <1>2, VolumeStays
<1>21. pc' \in {"copy", "follow"} /\ outcome' = "none"
  BY <1>1, <1>2
<1>22. PrintedComplete'
  BY <1>21 DEF PrintedComplete
<1>23. Copying(j)'
  <2>1. (l + 1) * b = x + b
    BY <1>7, SMT
  <2>2. PICK f \in Nat : f = j * spc
    BY <1>3, SMT
  <2>3. l + 1 = f + (cmd.s + 1)
    BY <1>2, <1>8, <2>2
  <2>4. CASE n = rest
    <3>1. x + n = w /\ pc' = "follow"
      BY <1>1, <1>10, <1>11, <2>4
    <3> QED BY <1>1, <1>4, <1>8, <1>14, <1>17, <1>18, <2>2, <2>3, <3>1
            DEF Copying
  <2>5. CASE n # rest
    <3>1. n = b /\ n < rest /\ x + n < w
      BY <1>10, <1>11, <2>5
    <3>2. IF cmd.s + 1 < spc THEN pc' = "copy" ELSE pc' = "follow"
      BY <1>1, <1>4, <3>1
    <3>3. (pc' = "copy" => cmd.s + 1 < spc)
          /\ (pc' = "follow" => cmd.s + 1 = spc)
      BY <1>2, <1>8, <3>2
    <3> QED BY <1>1, <1>4, <1>5, <1>8, <1>14, <1>17, <1>18, <2>1, <2>2, <2>3,
               <3>1, <3>3 DEF Copying
  <2> QED BY <2>4, <2>5
<1>24. j \in 0..Wanted'
  BY <1>9, <1>18
<1> QED BY <1>16, <1>19, <1>20, <1>21, <1>22, <1>23, <1>24 DEF FatInv, Fresh

(* A sector of the file cannot be read: fat_read_file returns false.       *)
LEMMA CopyFailsKeeps ==
    ASSUME FatInv, CopyFails
    PROVE  FatInv'
BY Answered DEF CopyFails

(* The loop goes from one cluster to the next.                             *)
LEMMA FollowChainKeeps ==
    ASSUME FatInv, FollowChain
    PROVE  FatInv'
<1>1. /\ pc = "follow" /\ disk' = disk /\ volume' = volume /\ out' = out
      /\ CommandsOK
  BY DEF FatInv, FollowChain
<1>2. /\ Wanted \in Nat /\ FileSize = Wanted /\ Len(out) \in Nat
      /\ cmd.s \in Nat /\ cmd.cluster \in Nat /\ disk \in Images
      /\ cmd.bytes_read \in Nat /\ out \in Seq(Piece)
      /\ Mounted /\ volume.fat_active /\ outcome = "none" /\ CopiesTheFile
  BY <1>1, CommandFacts DEF FatInv, Fresh, Mounted
<1> DEFINE Moves(c) == /\ cmd' = [cmd EXCEPT !.cluster = c, !.s = 0]
                       /\ GoToData(c)
           GoesTo(c) ==
             /\ Moves(c)
             /\ \/ c = Link(disk, cmd.cluster)
                \/ c = EndOfChain /\ "chain" \in errors'
<1>3. PICK readable \in BOOLEAN :
          /\ Moves(IF readable THEN NextCluster(cmd.cluster) ELSE EndOfChain)
          /\ errors' = IF readable THEN errors ELSE errors \cup {"chain"}
  BY Zenon DEF FollowChain
<1> HIDE DEF Moves
<1>4. \E c \in 0..EndOfChain : GoesTo(c)
  <2>1. CASE readable
    <3>1. PICK c : c = IF readable THEN NextCluster(cmd.cluster)
                       ELSE EndOfChain
      OBVIOUS
    <3>2. c = NextCluster(cmd.cluster)
      BY <2>1, <3>1
    <3>3. c = Link(disk, cmd.cluster)
      BY <1>2, <3>2, NextClusterIs
    <3>4. c \in 0..EndOfChain
      BY <1>2, <3>3, ImageFacts
    <3>5. Moves(c)
      BY <1>3, <3>1
    <3>6. GoesTo(c)
      BY <3>3, <3>5
    <3> HIDE DEF GoesTo
    <3> QED BY <3>4, <3>6
  <2>2. CASE ~readable
    <3>1. "chain" \in errors'
      BY <1>3, <2>2
    <3>2. EndOfChain \in 0..EndOfChain
      BY DEF EndOfChain
    <3>3. GoesTo(EndOfChain)
      BY <1>3, <2>2, <3>1
    <3> HIDE DEF GoesTo
    <3> QED BY <3>2, <3>3
  <2> QED BY <2>1, <2>2
<1> HIDE DEF GoesTo
<1>5. PICK c \in 0..EndOfChain : GoesTo(c)
  BY <1>4
<1> USE DEF GoesTo, Moves
<1>6. pc' \in {"shell", "copy"} /\ c \in Nat
  BY <1>5 DEF GoToData, EndOfChain
<1>7. CommandsOK'
  BY <1>1, <1>5, <1>6 DEF CommandsOK
<1>8. /\ cmd'.cluster = c /\ cmd'.s = 0 /\ cmd'.bytes_read = cmd.bytes_read
      /\ cmd'.entry = cmd.entry /\ cmd'.max_size = cmd.max_size
  BY <1>1, <1>5 DEF CommandsOK
<1>9. Mounted' /\ volume'.fat_active
  BY <1>1, <1>2, VolumeStays
<1>10. CopiesTheFile'
  BY <1>1, <1>2, <1>8, CopiedStays
<1>11. Wanted' = Wanted /\ ChainOf(cmd.entry)' = ChainOf(cmd.entry)
      /\ FileSize' = Wanted
  BY <1>1, <1>2, <1>8, FileStays
<1>12. CASE c = EndOfChain /\ "chain" \in errors'
  <2>1. pc' = "shell" /\ outcome' = "printed"
    BY <1>5, <1>12 DEF GoToData, EndOfChain
  <2>2. PrintedComplete'
    BY <1>12 DEF PrintedComplete
  <2> QED BY <1>7, <1>9, <1>10, <2>1, <2>2 DEF FatInv, Fresh
<1>13. CASE cmd.bytes_read = Wanted
  <2>1. pc' = "shell" /\ outcome' = "printed"
    BY <1>2, <1>5, <1>8, <1>11, <1>13 DEF GoToData
  <2>2. PrintedComplete'
    BY <1>8, <1>11, <1>13 DEF PrintedComplete
  <2> QED BY <1>7, <1>9, <1>10, <2>1, <2>2 DEF FatInv, Fresh
<1>14. CASE c = Link(disk, cmd.cluster) /\ cmd.bytes_read # Wanted
  <2>1. PICK j \in 0..Wanted : Copying(j)
    BY <1>1 DEF FatInv
  <2>2. PICK spc \in Nat \ {0} : spc = disk.sectors_per_cluster
    BY <1>2, ImageFacts
  <2>3. /\ Len(out) = j * spc + spc /\ cmd.cluster = ChainOf(cmd.entry)[j]
        /\ cmd.bytes_read = Len(out) * SectorBytes /\ cmd.bytes_read < Wanted
    BY <1>1, <1>14, <2>1, <2>2 DEF Copying
  <2>4. PICK i \in Nat : i = j + 1
    BY <2>1
  <2>5. Len(out) = i * spc
    BY <2>3, <2>4, SMT
  <2>6. i \in 0..Wanted
    <3>1. PICK l \in Nat : l = Len(out)
      BY <1>2
    <3>2. PICK b \in Nat \ {0} : b = SectorBytes
      BY SectorBytesAssumption
    <3>3. i <= l
      <4>1. 1 * i <= spc * i
        BY Scales
      <4>2. spc * i = i * spc /\ 1 * i = i
        BY SMT
      <4> QED BY <2>5, <3>1, <4>1, <4>2
    <3>4. l <= l * b
      <4>1. 1 * l <= b * l
        BY Scales
      <4>2. b * l = l * b /\ 1 * l = l
        BY SMT
      <4> QED BY <4>1, <4>2
    <3>5. PICK x \in Nat : x = l * b
      BY SMT
    <3> QED BY <1>2, <2>3, <3>1, <3>2, <3>3, <3>4, <3>5
  <2>7. ChainOf(cmd.entry)[i] = c
    <3>1. i # 0 /\ i - 1 = j
      BY <2>1, <2>4
    <3>2. ChainOf(cmd.entry)[i] = Link(disk, ChainOf(cmd.entry)[i - 1])
      <4>1. PICK w \in Nat : w = Wanted
        BY <1>2
      <4>2. ChainOf(cmd.entry) = Chain(disk, cmd.entry.first, w)
        BY <4>1 DEF ChainOf
      <4>3. i \in 0..w
        BY <2>6, <4>1
      <4> QED BY <3>1, <4>2, <4>3, ChainGoesOn
    <3> QED BY <1>14, <2>3, <3>1, <3>2
  <2> HIDE <1>14
  <2>8. /\ spc = disk'.sectors_per_cluster /\ Len(out') = i * spc
        /\ cmd'.bytes_read = Len(out') * SectorBytes
        /\ cmd'.bytes_read < Wanted' /\ i \in 0..Wanted'
        /\ ChainOf(cmd.entry)'[i] = cmd'.cluster
        /\ cmd'.cluster \in 0..EndOfChain /\ GoToData(cmd'.cluster)
    BY <1>1, <1>5, <1>8, <1>11, <2>2, <2>3, <2>5, <2>6, <2>7
  <2> QED BY <1>7, <1>8, <1>9, <1>10, <2>8, AtCluster
<1> QED BY <1>5, <1>12, <1>13, <1>14

-----------------------------------------------------------------------------
(* The other steps, and the theorems.                                      *)

(* ata_init and fat_init.                                                  *)
LEMMA MountKeeps ==
    ASSUME FatInv, AtaInit \/ FatInit
    PROVE  FatInv'
<1>1. /\ pc \in {"boot", "mount"} /\ pc' \in {"mount", "shell"}
      /\ disk' = disk /\ cmd' = cmd /\ out' = out /\ outcome' = outcome
      /\ errors' = errors
  BY DEF AtaInit, FatInit
<1>2. /\ CommandsOK /\ Mounted /\ out = <<>> /\ cmd.bytes_read = 0
      /\ outcome = "none"
  BY <1>1 DEF FatInv, Fresh
<1>3. volume' \in {NoDisk, NoVolume, volume, Volume(BootSector(disk))}
  BY DEF AtaInit, FatInit
<1>4. Volume(BootSector(disk))' = Volume(BootSector(disk))
  BY <1>1 DEF Volume
<1>5. Mounted'
  BY <1>1, <1>2, <1>3, <1>4 DEF Mounted
<1>6. CommandsOK'
  BY <1>1, <1>2 DEF CommandsOK
<1>7. PrintedComplete'
  BY <1>1, <1>2 DEF PrintedComplete
<1> QED BY <1>1, <1>2, <1>5, <1>6, <1>7, NothingCopied DEF FatInv, Fresh

(* A command of the shell begins.                                          *)
LEMMA CommandKeeps ==
    ASSUME FatInv, Command
    PROVE  FatInv'
<1>1. /\ pc = "shell" /\ out' = <<>> /\ disk' = disk /\ volume' = volume
      /\ CommandsOK /\ Mounted
  BY DEF FatInv, Command
<1>2. CASE volume.fat_active /\ BeginScan("list", "", 0)
  BY <1>1, <1>2, Begun
<1>3. ASSUME NEW name \in Names, volume.fat_active,
             BeginScan("size", name, 0)
      PROVE  FatInv'
  BY <1>1, <1>3, Begun
<1>4. CASE ~volume.fat_active /\ Answer("inactive")
  <2>1. pc' = "shell" /\ outcome' = "inactive" /\ cmd' = cmd
    BY <1>4 DEF Answer
  <2>2. CommandsOK'
    BY <1>1, <2>1, NothingCopied DEF CommandsOK
  <2>3. Mounted'
    BY <1>1, <2>1, VolumeStays
  <2>4. PrintedComplete'
    BY <2>1 DEF PrintedComplete
  <2> QED BY <1>1, <2>1, <2>2, <2>3, <2>4, NothingCopied DEF FatInv, Fresh
<1> QED BY <1>2, <1>3, <1>4 DEF Command

(* At boot there is no volume and nothing has been read.                   *)
LEMMA InitHolds ==
    ASSUME Init
    PROVE  FatInv
<1>1. /\ disk \in Images /\ volume = NoDisk /\ pc = "boot" /\ out = <<>>
      /\ outcome = "none"
      /\ cmd = [op |-> "none", name |-> "", max_size |-> 0,
                entry |-> NoEntry, cluster |-> 0, s |-> 0, bytes_read |-> 0]
  BY DEF Init
<1>2. NoEntry \in Entries /\ out \in Seq(Piece)
  <2>1. out = <<>>
    BY <1>1
  <2> QED BY <2>1 DEF Entries
<1>3. CommandsOK
  BY <1>1, <1>2 DEF CommandsOK
<1>4. Mounted /\ Fresh
  BY <1>1 DEF Mounted, Fresh
<1>5. CopiesTheFile
  <2>1. out = <<>>
    BY <1>1
  <2> QED BY <2>1 DEF CopiesTheFile
<1>6. PrintedComplete
  BY <1>1 DEF PrintedComplete
<1> QED BY <1>1, <1>3, <1>4, <1>5, <1>6 DEF FatInv

(* A step that changes nothing.                                            *)
LEMMA StutterKeeps ==
    ASSUME FatInv, UNCHANGED vars
    PROVE  FatInv'
<1>1. /\ disk' = disk /\ volume' = volume /\ pc' = pc /\ cmd' = cmd
      /\ out' = out /\ outcome' = outcome /\ errors' = errors
  BY DEF vars
<1>2. CommandsOK' /\ Fresh'
  BY <1>1 DEF FatInv, CommandsOK, Fresh
<1>3. Mounted'
  BY <1>1, VolumeStays DEF FatInv, Mounted
<1>4. Wanted' = Wanted /\ ChainOf(cmd.entry)' = ChainOf(cmd.entry)
  BY <1>1, FileStays
<1>5. CopiesTheFile'
  BY <1>1, CopiedStays DEF FatInv
<1>6. PrintedComplete'
  BY <1>1, <1>4 DEF FatInv, PrintedComplete, ChainTooShort
<1>7. ASSUME NEW j \in 0..Wanted, Copying(j) PROVE Copying(j)'
  BY <1>1, <1>4, <1>7 DEF Copying
<1> QED BY <1>1, <1>2, <1>3, <1>4, <1>5, <1>6, <1>7 DEF FatInv

(* Every step keeps the invariant.                                         *)
LEMMA NextKeeps ==
    ASSUME FatInv, [Next]_vars
    PROVE  FatInv'
<1>1. CASE AtaInit \/ FatInit
  BY <1>1, MountKeeps
<1>2. CASE Scan
  BY <1>2, ScanKeeps
<1>3. CASE ScanFails
  BY <1>3, ScanFailsKeeps
<1>4. CASE NextDirectoryCluster
  BY <1>4, NextDirectoryClusterKeeps
<1>5. CASE CopySector
  BY <1>5, CopySectorKeeps
<1>6. CASE CopyFails
  BY <1>6, CopyFailsKeeps
<1>7. CASE FollowChain
  BY <1>7, FollowChainKeeps
<1>8. CASE Command
  BY <1>8, CommandKeeps
<1>9. CASE UNCHANGED vars
  BY <1>9, StutterKeeps
<1> QED BY <1>1, <1>2, <1>3, <1>4, <1>5, <1>6, <1>7, <1>8, <1>9
        DEF Next, Step

(* The reader keeps its place in the file, on every disk.                  *)
THEOREM FatInvariant == Spec => []FatInv
BY InitHolds, NextKeeps, PTL DEF Spec

(* fat_read_file copies the file's own sectors in order, and no more of    *)
(* them than belongs to the file and fits into the buffer.                 *)
THEOREM FatCopiesTheFile == Spec => []CopiesTheFile
<1>1. FatInv => CopiesTheFile
  BY DEF FatInv
<1> QED BY <1>1, FatInvariant, PTL

(* A file that is printed or mapped is complete, unless its chain ended    *)
(* early or could not be read.                                             *)
THEOREM FatPrintedComplete == Spec => []PrintedComplete
<1>1. FatInv => PrintedComplete
  BY DEF FatInv
<1> QED BY <1>1, FatInvariant, PTL

-----------------------------------------------------------------------------
(* Where a scan of the directory stands.                                   *)

(* The sector of the directory that is read next, counted from one.        *)
Place ==
    (IF disk.fat32 /\ cmd.cluster # disk.root_cluster
     THEN disk.sectors_per_cluster ELSE 0) + cmd.s + 1

InDirectory ==
    IF disk.fat32
    THEN /\ cmd.s < disk.sectors_per_cluster
         /\ \/ cmd.cluster = disk.root_cluster
            \/ /\ cmd.cluster = disk.root_cluster + 1
               /\ Link(disk, disk.root_cluster) = disk.root_cluster + 1
    ELSE cmd.s < Len(disk.directory)

Matches(k) == Matching(RootSector(disk, k), cmd.name)

(* The k-th sector does not end the scan.                                  *)
Nothing(k) ==
    IF cmd.op = "list" THEN ~HasEnd(RootSector(disk, k)) ELSE Matches(k) = {}

Listed(n) == [k \in 1..n |-> Shown(RootSector(disk, k))]

(* The first n sectors have been read; or the whole directory at least     *)
(* once, and the scan goes on in a circle.                                 *)
Passed(n) ==
    \/ /\ \A k \in 1..n : Nothing(k)
       /\ cmd.op = "list" => listed = Listed(n)
    \/ RootCircular /\ \A k \in 1..DirectoryEnd : Nothing(k)

(* The entry is one of that name in the first sector that has any.         *)
Found(entry) ==
    \E k \in 1..DirectoryEnd :
        /\ \A i \in 1..(k - 1) : Matches(i) = {}
        /\ \E m \in Matches(k) : entry = RootSector(disk, k)[m]

Scanning ==
    /\ InDirectory
    /\ pc = "scan" => cmd.entry = NoEntry /\ Passed(Place - 1)
    /\ pc = "next" =>
          /\ disk.fat32
          /\ \/ /\ cmd.entry = NoEntry
                /\ cmd.s + 1 = disk.sectors_per_cluster /\ Passed(Place)
             \/ cmd.entry # NoEntry /\ cmd.op # "list" /\ Found(cmd.entry)

DirectoryInv ==
    /\ errors = {} /\ pc \in {"scan", "next"} => Scanning
    /\ AnswersFromDirectory

(* How many sectors the directory has.                                     *)
LEMMA EndFacts ==
    ASSUME disk \in Images
    PROVE  /\ DirectoryEnd \in Nat \ {0}
           /\ ~disk.fat32 => DirectoryEnd = Len(disk.directory)
           /\ disk.fat32 =>
                 DirectoryEnd = disk.sectors_per_cluster
                     + (IF Link(disk, disk.root_cluster) = disk.root_cluster + 1
                        THEN disk.sectors_per_cluster ELSE 0)
<1>1. PICK spc \in Nat \ {0} : spc = disk.sectors_per_cluster
  BY ImageFacts
<1>2. 2 * spc = spc + spc /\ spc + 0 = spc
  OBVIOUS
<1>3. ~disk.fat32 => Len(disk.directory) \in Nat \ {0}
  BY ImageFacts, RootFacts
<1> QED BY <1>1, <1>2, <1>3 DEF DirectoryEnd

(* The place is one of the directory.                                      *)
LEMMA PlaceFacts ==
    ASSUME CommandsOK, InDirectory
    PROVE  Place \in 1..DirectoryEnd
<1>1. disk \in Images /\ cmd.s \in Nat
  BY DEF CommandsOK
<1>2. PICK spc \in Nat \ {0} : spc = disk.sectors_per_cluster
  BY <1>1, ImageFacts
<1>3. CASE ~disk.fat32
  <2>1. cmd.s < Len(disk.directory) /\ Place = cmd.s + 1
    BY <1>1, <1>3 DEF InDirectory, Place
  <2>2. PICK n \in Nat : n = Len(disk.directory) /\ n = DirectoryEnd
    BY <1>1, <1>3, EndFacts
  <2> QED BY <1>1, <2>1, <2>2
<1>4. CASE disk.fat32 /\ cmd.cluster = disk.root_cluster
  <2>1. cmd.s < spc /\ Place = cmd.s + 1
    BY <1>1, <1>2, <1>4 DEF InDirectory, Place
  <2>2. DirectoryEnd \in {spc, spc + spc}
    BY <1>1, <1>2, <1>4, EndFacts
  <2> QED BY <1>1, <2>1, <2>2
<1>5. CASE disk.fat32 /\ cmd.cluster # disk.root_cluster
  <2>1. /\ cmd.s < spc /\ Place = spc + cmd.s + 1
        /\ Link(disk, disk.root_cluster) = disk.root_cluster + 1
    BY <1>1, <1>2, <1>5 DEF InDirectory, Place
  <2>2. DirectoryEnd = spc + spc
    BY <1>1, <1>2, <1>5, <2>1, EndFacts
  <2> QED BY <1>1, <2>1, <2>2
<1> QED BY <1>3, <1>4, <1>5

(* What fat_init has found, when it has found a volume.                    *)
LEMMA VolumeFacts ==
    ASSUME disk \in Images, Mounted, volume.fat_active
    PROVE  /\ volume.is_fat32 <=> disk.fat32
           /\ volume.root_dir_sector = RootStart(disk)
           /\ volume.root_dir_sectors = RootSectors(disk)
<1>1. volume = Volume(BootSector(disk))
  BY DEF Mounted, NoDisk, NoVolume
<1> QED BY <1>1, VolumeIs

(* The sector that is read is that one of the directory.                   *)
LEMMA SectorRead ==
    ASSUME CommandsOK, Mounted, volume.fat_active, InDirectory
    PROVE  DirectorySector(disk,
               (IF volume.is_fat32 THEN ClusterSector(cmd.cluster)
                ELSE volume.root_dir_sector) + cmd.s)
             = RootSector(disk, Place)
<1>1. disk \in Images /\ cmd.s \in Nat /\ cmd.cluster \in Nat
  BY DEF CommandsOK
<1>2. PICK spc \in Nat \ {0} : spc = disk.sectors_per_cluster
  BY <1>1, ImageFacts
<1> DEFINE first == IF disk.fat32 THEN ClusterStart(disk, disk.root_cluster)
                    ELSE RootStart(disk)
           sector == (IF volume.is_fat32 THEN ClusterSector(cmd.cluster)
                      ELSE volume.root_dir_sector) + cmd.s
<1>3. sector - first + 1 = Place
  <2>1. CASE ~disk.fat32
    <3>1. PICK x \in Int : x = RootStart(disk)
      BY <1>1, LayoutFacts
    <3>2. first = x /\ sector = x + cmd.s /\ Place = 0 + cmd.s + 1
      BY <1>1, <2>1, <3>1, VolumeFacts, Zenon DEF Place
    <3> HIDE DEF first, sector
    <3> QED BY <1>1, <3>2
  <2>2. CASE disk.fat32
    <3>1. PICK a \in Int : a = RootStart(disk) + RootSectors(disk)
      BY <1>1, LayoutFacts
    <3>2. PICK r \in Nat : r = disk.root_cluster
      BY <1>1, ImageFacts
    <3>3. PICK x \in Int : x = (r - 2) * spc
      BY SMT
    <3>4. first = a + x
      BY <1>2, <2>2, <3>1, <3>2, <3>3, Zenon DEF ClusterStart
    <3>5. sector = ClusterStart(disk, cmd.cluster) + cmd.s
      BY <1>1, <2>2, ClusterSectorIs, VolumeFacts, Zenon
    <3>6. CASE cmd.cluster = r
      <4>1. sector = a + x + cmd.s
        BY <1>2, <3>1, <3>3, <3>5, <3>6, Zenon DEF ClusterStart
      <4>2. Place = 0 + cmd.s + 1
        BY <3>2, <3>6 DEF Place
      <4> HIDE DEF first, sector
      <4> QED BY <1>1, <3>4, <4>1, <4>2
    <3>7. CASE cmd.cluster = r + 1
      <4>1. PICK y \in Int : y = (cmd.cluster - 2) * spc
        BY <1>1, SMT
      <4>2. y = x + spc
        <5>1. cmd.cluster - 2 = (r - 2) + 1
          BY <3>7
        <5>2. ((r - 2) + 1) * spc = (r - 2) * spc + spc
          BY SMT
        <5> QED BY <3>3, <4>1, <5>1, <5>2, Zenon
      <4>3. sector = a + y + cmd.s
        BY <1>2, <3>1, <3>5, <4>1, Zenon DEF ClusterStart
      <4>4. Place = spc + cmd.s + 1
        BY <1>2, <2>2, <3>2, <3>7 DEF Place
      <4> HIDE DEF first, sector
      <4> QED BY <1>1, <3>4, <4>2, <4>3, <4>4
    <3> QED BY <2>2, <3>2, <3>6, <3>7 DEF InDirectory
  <2> QED BY <2>1, <2>2
<1>4. DirectorySector(disk, sector) = RootSector(disk, sector - first + 1)
  BY DEF DirectorySector
<1> HIDE DEF first, sector
<1>5. DirectorySector(disk, sector) = RootSector(disk, Place)
  BY <1>3, <1>4, Zenon
<1> QED BY <1>5 DEF sector

(* The directory stays what it is.                                         *)
LEMMA DirectoryStays ==
    ASSUME disk' = disk
    PROVE  /\ DirectoryEnd' = DirectoryEnd /\ Directory' = Directory
           /\ Listing' = Listing /\ RootCircular' = RootCircular
           /\ \A n : Listed(n)' = Listed(n)
<1>1. DirectoryEnd' = DirectoryEnd /\ RootCircular' = RootCircular
  BY DEF DirectoryEnd, RootCircular
<1>2. Directory' = Directory
  BY <1>1 DEF Directory
<1>3. Listing' = Listing
  BY <1>2 DEF Listing
<1>4. ASSUME NEW n PROVE Listed(n)' = Listed(n)
  BY DEF Listed
<1> QED BY <1>1, <1>2, <1>3, <1>4

(* And what is looked for in it.                                           *)
LEMMA SearchStays ==
    ASSUME disk' = disk, cmd'.name = cmd.name, cmd'.op = cmd.op
    PROVE  /\ \A k : Matches(k)' = Matches(k) /\ Nothing(k)' = Nothing(k)
           /\ \A k : FoundEmpty(k)' = FoundEmpty(k)
<1>1. ASSUME NEW k PROVE Matches(k)' = Matches(k)
  BY DEF Matches
<1>2. ASSUME NEW k PROVE Nothing(k)' = Nothing(k)
  BY <1>1 DEF Nothing
<1>3. ASSUME NEW k PROVE FoundEmpty(k)' = FoundEmpty(k)
  BY DEF FoundEmpty
<1> QED BY <1>1, <1>2, <1>3

(* The loops see the entries in use.                                       *)
LEMMA SeenIs ==
    ASSUME disk \in Images, NEW k, NEW entries, entries = RootSector(disk, k)
    PROVE  /\ Shown(entries) = [i \in InUse(entries, {"file"}) |-> entries[i]]
           /\ \A name : Matching(entries, name) =
                  {i \in InUse(entries, {"file", "long"}) :
                      entries[i].name = name}
<1>1. entries \in Seq(SectorEntries)
  BY RootSectorIs
<1>2. PICK n \in Nat : DOMAIN entries = 1..n
  BY <1>1
<1>3. ASSUME NEW i \in DOMAIN entries
      PROVE  entries[i].kind \in {"file", "deleted", "long", "end"}
  <2>1. PICK e : e = entries[i]
    OBVIOUS
  <2>2. e \in DirectoryEntry \/ e = EndEntry
    BY <1>1, <2>1 DEF SectorEntries
  <2>3. e \in DirectoryEntry => e.kind \in {"file", "deleted", "long", "end"}
    BY DEF DirectoryEntry
  <2>4. EndEntry.kind = "end"
    BY DEF EndEntry
  <2> QED BY <2>1, <2>2, <2>3, <2>4
<1>4. ASSUME NEW i \in DOMAIN entries
      PROVE  i \in BeforeEnd(entries) <=>
                 /\ entries[i].kind # "end"
                 /\ ~\E j \in 1..(i - 1) : entries[j].kind = "end"
  <2>1. \A j : j \in 1..i <=> j = i \/ j \in 1..(i - 1)
    BY <1>2
  <2> QED BY <2>1, Zenon DEF BeforeEnd
<1>5. BeforeEnd(entries) \subseteq DOMAIN entries
  BY DEF BeforeEnd
<1>6. {j \in BeforeEnd(entries) : entries[j].kind = "file"}
          = InUse(entries, {"file"})
  BY <1>4, <1>5 DEF InUse
<1>7. ASSUME NEW name
      PROVE  Matching(entries, name) = {i \in InUse(entries, {"file", "long"}) :
                                           entries[i].name = name}
  BY <1>3, <1>4, <1>5 DEF InUse, Matching
<1> QED BY <1>6, <1>7 DEF Shown

(* What is listed up to the end mark, or the end of the directory, is the  *)
(* listing.                                                                *)
LEMMA ListingIs ==
    ASSUME disk \in Images, NEW n \in 1..DirectoryEnd,
           \A k \in 1..(n - 1) : ~HasEnd(RootSector(disk, k)),
           n = DirectoryEnd \/ HasEnd(RootSector(disk, n))
    PROVE  Listing = Listed(n)
<1>1. PICK end \in Nat : end = DirectoryEnd
  BY EndFacts
<1>2. n \in Nat /\ n <= end
  BY <1>1
<1>3. ASSUME NEW k \in 1..end PROVE k \in Directory <=> k <= n
  <2>1. CASE k <= n
    <3>1. \A i \in 1..(k - 1) : i \in 1..(n - 1)
      BY <1>2, <2>1
    <3> QED BY <1>1, <2>1, <3>1 DEF Directory
  <2>2. CASE ~(k <= n)
    <3>1. n \in 1..(k - 1)
      BY <1>2, <2>2
    <3>2. HasEnd(RootSector(disk, n))
      BY <1>1, <1>2, <2>2
    <3> QED BY <2>2, <3>1, <3>2 DEF Directory
  <2> QED BY <2>1, <2>2
<1>4. Directory \subseteq 1..end
  BY <1>1 DEF Directory
<1>5. Directory = 1..n
  <2>1. \A k : k \in 1..n <=> (k \in 1..end /\ k <= n)
    BY <1>2
  <2> QED BY <1>3, <1>4, <2>1, Zenon
<1>6. ASSUME NEW k \in 1..n PROVE Listing[k] = Shown(RootSector(disk, k))
  BY <1>5, SeenIs DEF Listing
<1>7. Listing = [k \in 1..n |-> Listing[k]]
  BY <1>5 DEF Listing
<1> QED BY <1>6, <1>7 DEF Listed

(* One sector more is listed.                                              *)
LEMMA AppendListed ==
    ASSUME NEW n \in Nat
    PROVE  Append(Listed(n), Shown(RootSector(disk, n + 1))) = Listed(n + 1)
<1> DEFINE all == {Shown(RootSector(disk, k)) : k \in Nat}
           last == Shown(RootSector(disk, n + 1))
<1>1. /\ \A k \in 1..n : Listed(n)[k] = Shown(RootSector(disk, k))
      /\ \A k \in 1..n : Shown(RootSector(disk, k)) \in all
      /\ last \in all
      /\ DOMAIN Listed(n) = 1..n
  BY DEF Listed
<1>2. Listed(n) \in [1..n -> all]
  BY <1>1 DEF Listed
<1> HIDE DEF all, last
<1>3. Listed(n) \in Seq(all) /\ Len(Listed(n)) = n
  <2>1. PICK f \in [1..n -> all] : f = Listed(n)
    BY <1>2
  <2>2. f \in Seq(all) /\ Len(f) = n
    BY SeqDef, LenProperties
  <2> QED BY <2>1, <2>2
<1>4. PICK f : f = Append(Listed(n), last)
  OBVIOUS
<1>5. /\ f \in Seq(all) /\ Len(f) = n + 1
      /\ \A k \in 1..n : f[k] = Listed(n)[k]
      /\ f[n + 1] = last
  BY <1>1, <1>3, <1>4, AppendProperties
<1>6. \A k \in 1..(n + 1) : f[k] = Shown(RootSector(disk, k))
  <2>1. \A k \in 1..(n + 1) : k \in 1..n \/ k = n + 1
    OBVIOUS
  <2> QED BY <1>1, <1>5, <2>1 DEF last
<1>7. f = [k \in 1..(n + 1) |-> f[k]]
  BY <1>5
<1>8. f = Listed(n + 1)
  BY <1>6, <1>7 DEF Listed
<1> QED BY <1>4, <1>8 DEF last

(* The scan has come one sector further.                                   *)
LEMMA PassedMore ==
    ASSUME NEW n \in Nat, Passed(n), Nothing(n + 1),
           disk' = disk, cmd'.name = cmd.name, cmd'.op = cmd.op,
           cmd.op = "list" =>
               listed' = Append(listed, Shown(RootSector(disk, n + 1)))
    PROVE  Passed(n + 1)'
<1>1. CASE RootCircular /\ \A k \in 1..DirectoryEnd : Nothing(k)
  BY <1>1, DirectoryStays, SearchStays DEF Passed
<1>2. CASE /\ \A k \in 1..n : Nothing(k)
           /\ cmd.op = "list" => listed = Listed(n)
  <2>1. \A k \in 1..(n + 1) : Nothing(k)'
    <3>1. \A k \in 1..(n + 1) : k \in 1..n \/ k = n + 1
      OBVIOUS
    <3> QED BY <1>2, <3>1, SearchStays
  <2>2. cmd'.op = "list" => listed' = Listed(n + 1)
    BY <1>2, AppendListed
  <2> QED BY <2>1, <2>2, DirectoryStays DEF Passed
<1> QED BY <1>1, <1>2 DEF Passed

(* The scan goes on elsewhere.                                             *)
LEMMA PassedStays ==
    ASSUME NEW n, Passed(n), listed' = listed,
           disk' = disk, cmd'.name = cmd.name, cmd'.op = cmd.op
    PROVE  Passed(n)'
<1>1. /\ DirectoryEnd' = DirectoryEnd /\ RootCircular' = RootCircular
      /\ Listed(n)' = Listed(n) /\ \A k : Nothing(k)' = Nothing(k)
  BY DirectoryStays, SearchStays
<1> QED BY <1>1 DEF Passed

(* What a search for a file's size finds, if it finds none.                *)
Absent ==
    \A k \in Directory : \A m \in DOMAIN Listing[k] :
        Listing[k][m].name = cmd.name => FoundEmpty(k)

(* A file is not found if no file has that name or the first one is empty. *)
LEMMA AbsentIs ==
    ASSUME disk \in Images, NEW entry, entry.size = 0,
           Found(entry) \/ \A k \in 1..DirectoryEnd : Matches(k) = {}
    PROVE  Absent
<1>1. SUFFICES ASSUME NEW k \in Directory, NEW m \in DOMAIN Listing[k],
                      Listing[k][m].name = cmd.name
               PROVE  FoundEmpty(k)
  BY DEF Absent
<1>2. k \in 1..DirectoryEnd /\ DirectoryEnd \in Nat
  BY EndFacts DEF Directory
<1>3. Listing[k] = Shown(RootSector(disk, k))
  BY SeenIs DEF Listing
<1>4. m \in Matches(k)
  <2>1. PICK entries : entries = RootSector(disk, k)
    OBVIOUS
  <2>2. /\ m \in BeforeEnd(entries) /\ entries[m].kind = "file"
        /\ entries[m].name = cmd.name
    BY <1>1, <1>3, <2>1 DEF Shown
  <2> QED BY <2>1, <2>2 DEF Matches, Matching
<1>5. Found(entry)
  BY <1>2, <1>4
<1>6. PICK i \in 1..DirectoryEnd :
          /\ \A j \in 1..(i - 1) : Matches(j) = {}
          /\ \E n \in Matches(i) : entry = RootSector(disk, i)[n]
  BY <1>5 DEF Found
<1>7. i \in 1..k
  <2>1. SUFFICES ASSUME k < i PROVE FALSE
    BY <1>2
  <2>2. k \in 1..(i - 1)
    BY <1>2, <2>1
  <2> QED BY <1>4, <1>6, <2>2
<1>8. \E n \in InUse(RootSector(disk, i), {"file", "long"}) :
          /\ RootSector(disk, i)[n].name = cmd.name
          /\ RootSector(disk, i)[n].size = 0
  BY <1>6, SeenIs DEF Matches
<1> QED BY <1>7, <1>8 DEF FoundEmpty

-----------------------------------------------------------------------------
(* The scan knows what it has seen.                                        *)

(* What a sector that cannot be read leaves is not spoken of.              *)
LEMMA Unreadable ==
    ASSUME errors' # {}
    PROVE  DirectoryInv'
BY DEF DirectoryInv, AnswersFromDirectory

(* Nor are other answers.                                                  *)
LEMMA Otherwise ==
    ASSUME pc' \notin {"scan", "next"}, outcome' \notin {"listed", "not found"}
    PROVE  DirectoryInv'
BY DEF DirectoryInv, AnswersFromDirectory

(* A scan begins at the first sector.                                      *)
LEMMA Began ==
    ASSUME disk \in Images, disk' = disk, NEW op, NEW name, NEW max_size,
           BeginScan(op, name, max_size), op = "list" => listed' = <<>>
    PROVE  DirectoryInv'
<1>1. /\ pc' = "scan" /\ outcome' = "none"
      /\ cmd'.op = op /\ cmd'.entry = NoEntry /\ cmd'.s = 0
      /\ cmd'.cluster = disk.root_cluster
  BY DEF BeginScan
<1>2. disk.sectors_per_cluster \in Nat \ {0}
  BY ImageFacts
<1>3. ~disk.fat32 => Len(disk.directory) \in Nat \ {0}
  BY ImageFacts, RootFacts
<1>4. InDirectory'
  BY <1>1, <1>2, <1>3 DEF InDirectory
<1>5. Place' - 1 = 0
  <2>1. Place' = 0 + 0 + 1
    BY <1>1 DEF Place
  <2> QED BY <2>1
<1>6. cmd'.op = "list" => listed' = [k \in 1..0 |-> Shown(RootSector(disk, k))]
  BY <1>1
<1>7. Passed(0)'
  BY <1>6 DEF Passed, Listed
<1>8. Passed(Place - 1)'
  BY <1>5, <1>7 DEF Passed, Listed
<1>9. Scanning'
  BY <1>1, <1>4, <1>8 DEF Scanning
<1> QED BY <1>1, <1>9 DEF DirectoryInv, AnswersFromDirectory

(* A scan that is over is answered by what it has seen.                    *)
LEMMA EndScanAnswers ==
    ASSUME disk \in Images, disk' = disk, NEW entry, EndScan(entry),
           cmd.op = "list" => listed' = Listing,
           cmd.op # "list" /\ entry.size = 0 => Absent
    PROVE  DirectoryInv'
<1>1. CASE cmd.op = "list" /\ Answer("listed")
  <2>1. pc' = "shell" /\ outcome' = "listed"
    BY <1>1 DEF Answer
  <2>2. listed' = Listing'
    BY <1>1, DirectoryStays
  <2> QED BY <2>1, <2>2 DEF DirectoryInv, AnswersFromDirectory
<1>2. CASE cmd.op = "size" /\ entry.size = 0 /\ Answer("not found")
  <2>1. pc' = "shell" /\ outcome' = "not found" /\ cmd' = cmd
    BY <1>2 DEF Answer
  <2>2. Absent
    BY <1>2
  <2>3. /\ Directory' = Directory /\ Listing' = Listing
        /\ \A k : FoundEmpty(k)' = FoundEmpty(k)
    BY <2>1, DirectoryStays, SearchStays
  <2>4. \A k \in Directory' : \A m \in DOMAIN Listing'[k] :
            Listing'[k][m].name = cmd'.name => FoundEmpty(k)'
    BY <2>1, <2>2, <2>3 DEF Absent
  <2> QED BY <2>1, <2>4 DEF DirectoryInv, AnswersFromDirectory
<1>3. CASE cmd.op = "size" /\ Answer("no memory")
  BY <1>3, Otherwise DEF Answer
<1>4. CASE BeginScan("read", cmd.name, entry.size)
  BY <1>4, Began
<1>5. CASE cmd.op = "read" /\ Answer("failed")
  BY <1>5, Otherwise DEF Answer
<1>6. CASE GoToData(entry.first)
  <2>1. pc' \in {"shell", "copy"} /\ outcome' \in {"printed", "none"}
    BY <1>6 DEF GoToData
  <2> QED BY <2>1, Otherwise
<1> QED BY <1>1, <1>2, <1>3, <1>4, <1>5, <1>6 DEF EndScan

(* The end of the directory: nothing has been found in it.                 *)
LEMMA EndReached ==
    ASSUME disk \in Images, disk' = disk, EndScan(NoEntry),
           \A k \in 1..DirectoryEnd : Nothing(k),
           cmd.op = "list" => listed' = Listed(DirectoryEnd)
    PROVE  DirectoryInv'
<1>1. PICK end \in Nat \ {0} : end = DirectoryEnd
  BY EndFacts
<1>2. cmd.op = "list" => listed' = Listing
  <2>1. SUFFICES ASSUME cmd.op = "list" PROVE listed' = Listing
    OBVIOUS
  <2>2. \A k \in 1..(end - 1) : ~HasEnd(RootSector(disk, k))
    BY <1>1, <2>1 DEF Nothing
  <2>3. end \in 1..DirectoryEnd
    BY <1>1
  <2>4. Listing = Listed(end)
    BY <1>1, <2>2, <2>3, ListingIs
  <2> QED BY <1>1, <2>1, <2>4
<1>3. cmd.op # "list" => Absent
  <2>1. NoEntry.size = 0
    BY DEF NoEntry
  <2> QED BY <2>1, AbsentIs DEF Nothing
<1> QED BY <1>2, <1>3, EndScanAnswers

(* The next sector of the directory, or the end of a FAT16 one.            *)
LEMMA NextSectorAnswers ==
    ASSUME FatInv, pc = "scan", Scanning, NextSector, Nothing(Place),
           disk' = disk,
           cmd.op = "list" =>
               listed' = Append(listed, Shown(RootSector(disk, Place)))
    PROVE  DirectoryInv'
<1>1. /\ CommandsOK /\ Mounted /\ volume.fat_active /\ disk \in Images
      /\ outcome = "none" /\ cmd.s \in Nat
  BY DEF FatInv, Mounted, Fresh, CommandsOK
<1>2. InDirectory /\ cmd.entry = NoEntry /\ Passed(Place - 1)
  BY DEF Scanning
<1>3. PICK end \in Nat \ {0} : end = DirectoryEnd
  BY <1>1, EndFacts
<1>4. PICK p \in 1..end : p = Place
  BY <1>1, <1>2, <1>3, PlaceFacts
<1>5. PICK n \in Nat : n = p - 1 /\ n + 1 = p
  BY <1>4
<1>6. Passed(n)
  BY <1>2, <1>4, <1>5
<1>7. PICK spc \in Nat \ {0} : spc = disk.sectors_per_cluster
  BY <1>1, ImageFacts
<1>8. /\ disk.fat32 => DirectorySectors = spc
      /\ ~disk.fat32 => DirectorySectors = end
  BY <1>1, <1>3, <1>7, VolumeFacts, EndFacts DEF DirectorySectors, RootSectors
<1>9. ASSUME cmd'.op = cmd.op, cmd'.name = cmd.name PROVE Passed(p)'
  BY <1>4, <1>5, <1>6, <1>9, PassedMore
<1>10. CASE cmd.s + 1 < DirectorySectors
  <2>1. cmd' = [cmd EXCEPT !.s = cmd.s + 1] /\ pc' = pc /\ outcome' = outcome
    BY <1>10 DEF NextSector
  <2>2. /\ cmd'.op = cmd.op /\ cmd'.name = cmd.name /\ cmd'.s = cmd.s + 1
        /\ cmd'.cluster = cmd.cluster /\ cmd'.entry = cmd.entry
    BY <1>1, <2>1 DEF CommandsOK
  <2> HIDE <2>1
  <2>3. InDirectory'
    <3>1. ~disk.fat32 => DirectorySectors = Len(disk.directory)
      BY <1>1, <1>3, <1>8, EndFacts
    <3> QED BY <1>2, <1>7, <1>8, <1>10, <2>2, <3>1 DEF InDirectory
  <2>4. Place' - 1 = p
    <3>1. PICK x \in Nat : x = IF disk.fat32 /\ cmd.cluster # disk.root_cluster
                               THEN disk.sectors_per_cluster ELSE 0
      BY <1>7
    <3>2. Place = x + cmd.s + 1 /\ Place' = x + (cmd.s + 1) + 1
      BY <2>2, <3>1 DEF Place
    <3> QED BY <1>1, <1>4, <3>2
  <2>5. Passed(Place - 1)'
    <3>1. Passed(p)'
      BY <1>9, <2>2
    <3> QED BY <2>4, <3>1 DEF Passed, Listed
  <2>6. pc' = "scan" /\ outcome' = "none"
    BY <1>1, <2>1
  <2>7. Scanning'
    BY <1>2, <2>2, <2>3, <2>5, <2>6 DEF Scanning
  <2> QED BY <2>6, <2>7 DEF DirectoryInv, AnswersFromDirectory
<1>11. CASE ~(cmd.s + 1 < DirectorySectors) /\ disk.fat32
  <2>1. cmd' = cmd /\ pc' = "next" /\ outcome' = outcome
    BY <1>1, <1>11, VolumeFacts DEF NextSector
  <2>2. InDirectory' /\ Place' = p
    BY <1>2, <1>4, <2>1 DEF InDirectory, Place
  <2>3. cmd.s + 1 = spc
    BY <1>1, <1>2, <1>7, <1>8, <1>11 DEF InDirectory
  <2>4. Passed(Place)'
    <3>1. Passed(p)'
      BY <1>9, <2>1
    <3> QED BY <2>2, <3>1 DEF Passed, Listed
  <2>5. Scanning'
    BY <1>2, <1>7, <1>11, <2>1, <2>2, <2>3, <2>4 DEF Scanning
  <2> QED BY <1>1, <2>1, <2>5 DEF DirectoryInv, AnswersFromDirectory
<1>12. CASE ~(cmd.s + 1 < DirectorySectors) /\ ~disk.fat32
  <2>1. EndScan(NoEntry)
    BY <1>1, <1>12, VolumeFacts DEF NextSector
  <2>2. p = end
    <3>1. Place = 0 + cmd.s + 1
      BY <1>12 DEF Place
    <3> QED BY <1>1, <1>3, <1>4, <1>8, <1>12, <3>1
  <2>3. /\ \A k \in 1..n : Nothing(k)
        /\ cmd.op = "list" => listed = Listed(n)
    BY <1>6, <1>12 DEF Passed, RootCircular
  <2>4. \A k \in 1..end : Nothing(k)
    <3>1. \A k \in 1..end : k \in 1..n \/ k = p
      BY <1>5, <2>2
    <3> QED BY <1>4, <2>3, <3>1
  <2>5. cmd.op = "list" => listed' = Listed(end)
    BY <1>4, <1>5, <2>2, <2>3, AppendListed
  <2> QED BY <1>1, <1>3, <2>1, <2>4, <2>5, EndReached
<1> QED BY <1>10, <1>11, <1>12

(* One sector of the directory.                                            *)
LEMMA ScanAnswers ==
    ASSUME FatInv, DirectoryInv, Scan, errors = {}
    PROVE  DirectoryInv'
<1>1. /\ CommandsOK /\ Mounted /\ volume.fat_active /\ disk \in Images
      /\ pc = "scan" /\ outcome = "none" /\ disk' = disk /\ errors' = errors
  BY DEF FatInv, Mounted, Fresh, CommandsOK, Scan
<1>2. Scanning /\ InDirectory /\ cmd.entry = NoEntry /\ Passed(Place - 1)
  BY <1>1 DEF DirectoryInv, Scanning
<1>3. PICK entries : entries = RootSector(disk, Place)
  OBVIOUS
<1>4. /\ listed' = IF cmd.op = "list" THEN Append(listed, Shown(entries))
                   ELSE listed
      /\ \/ cmd.op = "list" /\ HasEnd(entries) /\ Answer("listed")
         \/ /\ cmd.op # "list" /\ Matching(entries, cmd.name) # {}
            /\ IF volume.is_fat32
               THEN /\ cmd' = [cmd EXCEPT !.entry =
                                  entries[Min(Matching(entries, cmd.name))]]
                    /\ pc' = "next" /\ UNCHANGED outcome
               ELSE EndScan(entries[Min(Matching(entries, cmd.name))])
         \/ /\ ~(cmd.op = "list" /\ HasEnd(entries))
            /\ ~(cmd.op # "list" /\ Matching(entries, cmd.name) # {})
            /\ NextSector
  <2>1. PICK sector :
            sector = (IF volume.is_fat32 THEN ClusterSector(cmd.cluster)
                      ELSE volume.root_dir_sector) + cmd.s
    OBVIOUS
  <2>2. DirectorySector(disk, sector) = entries
    BY <1>1, <1>2, <1>3, <2>1, SectorRead, Zenon
  <2> QED BY <2>1, <2>2, Zenon DEF Scan
<1>5. PICK end \in Nat \ {0} : end = DirectoryEnd
  BY <1>1, EndFacts
<1>6. PICK p \in 1..end : p = Place
  BY <1>1, <1>2, <1>5, PlaceFacts
<1>7. PICK n \in Nat : n = p - 1 /\ n + 1 = p
  BY <1>6
<1>8. Passed(n)
  BY <1>2, <1>6, <1>7
<1>9. cmd.op = "list" => listed' = Append(listed, Shown(RootSector(disk, Place)))
  BY <1>3, <1>4
(* What is found here ends the scan, so it has not gone in a circle.       *)
<1>10. ASSUME ~Nothing(p)
       PROVE  /\ \A k \in 1..n : Nothing(k)
              /\ cmd.op = "list" => listed = Listed(n)
  BY <1>5, <1>6, <1>8, <1>10 DEF Passed
<1>11. CASE cmd.op = "list" /\ HasEnd(entries) /\ Answer("listed")
  <2>1. ~Nothing(p)
    BY <1>3, <1>6, <1>11 DEF Nothing
  <2>2. listed' = Listed(p)
    BY <1>6, <1>7, <1>9, <1>10, <1>11, <2>1, AppendListed
  <2>3. \A k \in 1..(p - 1) : ~HasEnd(RootSector(disk, k))
    BY <1>7, <1>10, <1>11, <2>1 DEF Nothing
  <2>4. Listing = Listed(p)
    BY <1>1, <1>3, <1>5, <1>6, <1>11, <2>3, ListingIs
  <2>5. listed' = Listing'
    BY <1>1, <2>2, <2>4, DirectoryStays
  <2> QED BY <1>11, <2>5 DEF Answer, DirectoryInv, AnswersFromDirectory
<1>12. CASE cmd.op # "list" /\ Matching(entries, cmd.name) # {}
  <2>1. ~Nothing(p)
    BY <1>3, <1>6, <1>12 DEF Nothing, Matches
  <2>2. PICK e \in Entries \ {NoEntry} :
            /\ e = entries[Min(Matching(entries, cmd.name))]
            /\ Min(Matching(entries, cmd.name)) \in Matches(p)
    <3>1. entries \in Seq(SectorEntries)
      <4>1. RootSector(disk, Place)
                = DirectorySector(disk,
                      (IF volume.is_fat32 THEN ClusterSector(cmd.cluster)
                       ELSE volume.root_dir_sector) + cmd.s)
        BY <1>1, <1>2, SectorRead
      <4> QED BY <1>1, <1>3, <4>1, SectorIs
    <3> QED BY <1>3, <1>6, <1>12, <3>1, FoundIs DEF Matches
  <2>3. Found(e)
    <3>1. \A i \in 1..(p - 1) : Matches(i) = {}
      BY <1>7, <1>10, <1>12, <2>1 DEF Nothing
    <3>2. e = RootSector(disk, p)[Min(Matching(entries, cmd.name))]
      BY <1>3, <1>6, <2>2
    <3> QED BY <1>5, <2>2, <3>1, <3>2 DEF Found
  <2>4. CASE ~volume.is_fat32
    <3>1. EndScan(e)
      BY <1>4, <1>12, <2>2, <2>4
    <3>2. e.size = 0 => Absent
      BY <1>1, <2>3, AbsentIs
    <3> QED BY <1>1, <1>12, <3>1, <3>2, EndScanAnswers
  <2>5. CASE volume.is_fat32
    <3>1. cmd' = [cmd EXCEPT !.entry = e] /\ pc' = "next" /\ outcome' = "none"
      BY <1>1, <1>4, <1>12, <2>2, <2>5
    <3>2. /\ cmd'.op = cmd.op /\ cmd'.name = cmd.name /\ cmd'.s = cmd.s
          /\ cmd'.cluster = cmd.cluster /\ cmd'.entry = e
      BY <1>1, <3>1 DEF CommandsOK
    <3>3. InDirectory' /\ disk'.fat32
      BY <1>1, <1>2, <2>5, <3>2, VolumeFacts DEF InDirectory
    <3>4. Found(e)'
      <4>1. DirectoryEnd' = DirectoryEnd /\ \A k : Matches(k)' = Matches(k)
        BY <1>1, <3>2, DirectoryStays, SearchStays
      <4> QED BY <1>1, <2>3, <4>1 DEF Found
    <3>5. Scanning'
      <4>1. Found(cmd.entry)'
        BY <3>2, <3>4 DEF Found
      <4> QED BY <1>12, <2>2, <3>1, <3>2, <3>3, <4>1 DEF Scanning
    <3> QED BY <3>1, <3>5 DEF DirectoryInv, AnswersFromDirectory
  <2> QED BY <2>4, <2>5
<1>13. CASE /\ ~(cmd.op = "list" /\ HasEnd(entries))
            /\ ~(cmd.op # "list" /\ Matching(entries, cmd.name) # {})
            /\ NextSector
  <2>1. Nothing(Place)
    BY <1>3, <1>13 DEF Nothing, Matches
  <2> QED BY <1>1, <1>2, <1>9, <1>13, <2>1, NextSectorAnswers
<1> QED BY <1>4, <1>11, <1>12, <1>13

(* The link of a FAT32 directory's cluster.                                *)
LEMMA NextDirectoryClusterAnswers ==
    ASSUME FatInv, DirectoryInv, NextDirectoryCluster, errors' = {}
    PROVE  DirectoryInv'
<1>1. /\ CommandsOK /\ Mounted /\ volume.fat_active /\ disk \in Images
      /\ pc = "next" /\ outcome = "none" /\ disk' = disk /\ listed' = listed
      /\ cmd.cluster \in Nat /\ cmd.s \in Nat
  BY DEF FatInv, Mounted, Fresh, CommandsOK, NextDirectoryCluster
<1>2. errors = {} /\ GoToDirectory(Link(disk, cmd.cluster))
  BY <1>1, NextClusterIs DEF NextDirectoryCluster
<1>3. /\ InDirectory /\ disk.fat32
      /\ \/ /\ cmd.entry = NoEntry
            /\ cmd.s + 1 = disk.sectors_per_cluster /\ Passed(Place)
         \/ cmd.entry # NoEntry /\ cmd.op # "list" /\ Found(cmd.entry)
  BY <1>1, <1>2 DEF DirectoryInv, Scanning
<1>4. CASE cmd.entry # NoEntry
  <2>1. EndScan(cmd.entry)
    BY <1>2, <1>4 DEF GoToDirectory
  <2>2. cmd.entry.size = 0 => Absent
    BY <1>1, <1>3, <1>4, AbsentIs
  <2> QED BY <1>1, <1>3, <1>4, <2>1, <2>2, EndScanAnswers
<1>5. CASE cmd.entry = NoEntry
  <2>1. PICK r \in Nat : r = disk.root_cluster /\ r + 1 < EndOfChain
    BY <1>1, ImageFacts, RootFacts
  <2>2. PICK c : c = Link(disk, cmd.cluster)
    OBVIOUS
  <2>3. cmd.cluster \in {r, r + 1} /\ c \in {r, r + 1, EndOfChain}
    BY <1>1, <1>3, <2>1, <2>2, RootFacts DEF InDirectory
  <2>4. PICK spc \in Nat \ {0} : spc = disk.sectors_per_cluster
    BY <1>1, ImageFacts
  <2>5. /\ cmd.cluster = r => Place = spc
        /\ cmd.cluster = r + 1 => Place = spc + spc
    <3>1. cmd.s + 1 = spc /\ Passed(Place)
      BY <1>3, <1>5, <2>4
    <3>2. cmd.cluster = r => Place = 0 + cmd.s + 1
      BY <2>1 DEF Place
    <3>3. cmd.cluster = r + 1 => Place = spc + cmd.s + 1
      BY <1>3, <2>1, <2>4 DEF Place
    <3> QED BY <1>1, <3>1, <3>2, <3>3
  <2>6. ~(cmd.cluster = r /\ c = r + 1) => Place = DirectoryEnd
    <3>1. cmd.cluster = r /\ c # r + 1 => DirectoryEnd = spc + 0
      BY <1>1, <1>3, <2>1, <2>2, <2>4, EndFacts
    <3>2. cmd.cluster = r + 1 => DirectoryEnd = spc + spc
      BY <1>1, <1>3, <2>1, <2>4, EndFacts DEF InDirectory
    <3> QED BY <2>3, <2>5, <3>1, <3>2
  <2>7. Passed(Place)
    BY <1>3, <1>5
  <2>8. CASE c = EndOfChain
    <3>1. EndScan(NoEntry)
      BY <1>2, <1>5, <2>2, <2>8 DEF GoToDirectory, EndOfChain
    <3>2. ~RootCircular
      <4>1. c \notin {r, r + 1}
        BY <2>1, <2>8 DEF EndOfChain
      <4> QED BY <1>3, <2>1, <2>2, <2>3, <4>1 DEF RootCircular, InDirectory
    <3>3. Place = DirectoryEnd
      BY <2>1, <2>6, <2>8
    <3> QED BY <1>1, <2>7, <3>1, <3>2, <3>3, EndReached DEF Passed
  <2>9. CASE c # EndOfChain
    <3>1. c \in {r, r + 1} /\ ~(c >= EndOfChain)
      BY <2>1, <2>3, <2>9 DEF EndOfChain
    <3>2. /\ pc' = "scan" /\ outcome' = outcome
          /\ cmd' = [cmd EXCEPT !.cluster = c, !.s = 0]
      BY <1>2, <1>5, <2>2, <3>1 DEF GoToDirectory
    <3>3. /\ cmd'.op = cmd.op /\ cmd'.name = cmd.name /\ cmd'.s = 0
          /\ cmd'.cluster = c /\ cmd'.entry = NoEntry
      BY <1>1, <1>5, <3>2 DEF CommandsOK
    <3>4. InDirectory'
      <4>1. c = r + 1 => Link(disk, r) = r + 1
        BY <1>3, <2>1, <2>2, <2>3 DEF InDirectory
      <4> QED BY <1>1, <1>3, <2>1, <2>4, <3>1, <3>3, <4>1 DEF InDirectory
    <3>5. /\ c = r => Place' - 1 = 0
          /\ c = r + 1 => Place' - 1 = spc
      <4>1. c = r => Place' = 0 + 0 + 1
        BY <1>1, <2>1, <3>3 DEF Place
      <4>2. c = r + 1 => Place' = spc + 0 + 1
        BY <1>1, <1>3, <2>1, <2>4, <3>3 DEF Place
      <4> QED BY <4>1, <4>2
    <3>6. CASE cmd.cluster = r /\ c = r + 1
      <4>1. Passed(spc)
        BY <2>5, <2>7, <3>6
      <4>2. Passed(spc)'
        BY <1>1, <3>3, <4>1, PassedStays
      <4>3. Passed(Place - 1)'
        BY <3>5, <3>6, <4>2 DEF Passed, Listed
      <4>4. Scanning'
        BY <3>2, <3>3, <3>4, <4>3 DEF Scanning
      <4> QED BY <1>1, <3>2, <4>4 DEF DirectoryInv, AnswersFromDirectory
    <3>7. CASE ~(cmd.cluster = r /\ c = r + 1)
      <4>1. RootCircular
        BY <1>3, <2>1, <2>2, <2>3, <3>1, <3>7 DEF RootCircular, InDirectory
      <4>2. \A k \in 1..DirectoryEnd : Nothing(k)
        BY <2>6, <2>7, <3>7 DEF Passed
      <4>3. RootCircular' /\ \A k \in 1..DirectoryEnd' : Nothing(k)'
        BY <1>1, <3>3, <4>1, <4>2, DirectoryStays, SearchStays
      <4>4. Passed(Place - 1)'
        BY <4>3 DEF Passed
      <4>5. Scanning'
        BY <3>2, <3>3, <3>4, <4>4 DEF Scanning
      <4> QED BY <1>1, <3>2, <4>5 DEF DirectoryInv, AnswersFromDirectory
    <3> QED BY <3>6, <3>7
  <2> QED BY <2>8, <2>9
<1> QED BY <1>4, <1>5

(* Every step keeps it.                                                    *)
LEMMA DirectoryKept ==
    ASSUME FatInv, DirectoryInv, [Next]_vars
    PROVE  DirectoryInv'
<1>1. CASE AtaInit \/ FatInit
  <2>1. /\ pc \in {"boot", "mount"} /\ pc' \in {"mount", "shell"}
        /\ outcome' = outcome
    BY <1>1 DEF AtaInit, FatInit
  <2>2. outcome = "none"
    BY <2>1 DEF FatInv, Fresh
  <2> QED BY <2>1, <2>2, Otherwise
<1>2. CASE Scan
  <2>1. errors' = errors
    BY <1>2 DEF Scan
  <2> QED BY <1>2, <2>1, ScanAnswers, Unreadable
<1>3. CASE ScanFails
  <2>1. errors' # {}
    BY <1>3 DEF ScanFails
  <2> QED BY <2>1, Unreadable
<1>4. CASE NextDirectoryCluster
  BY <1>4, NextDirectoryClusterAnswers, Unreadable
<1>5. CASE CopySector
  <2>1. pc' \in {"copy", "follow"} /\ outcome' = outcome /\ pc = "copy"
    BY <1>5 DEF CopySector
  <2>2. outcome = "none"
    BY <2>1 DEF FatInv, Fresh
  <2> QED BY <2>1, <2>2, Otherwise
<1>6. CASE CopyFails
  BY <1>6, Otherwise DEF CopyFails, Answer
<1>7. CASE FollowChain
  <2>1. pc' \in {"shell", "copy"} /\ outcome' \in {"printed", "none"}
    BY <1>7 DEF FollowChain, GoToData
  <2> QED BY <2>1, Otherwise
<1>8. CASE Command
  <2>1. disk \in Images /\ disk' = disk /\ listed' = <<>>
    BY <1>8 DEF FatInv, CommandsOK, Command
  <2>2. CASE BeginScan("list", "", 0)
    BY <2>1, <2>2, Began
  <2>3. ASSUME NEW name \in Names, BeginScan("size", name, 0)
        PROVE  DirectoryInv'
    BY <2>1, <2>3, Began
  <2>4. CASE Answer("inactive")
    BY <2>4, Otherwise DEF Answer
  <2> QED BY <1>8, <2>2, <2>3, <2>4 DEF Command
<1>9. CASE UNCHANGED vars
  <2>1. /\ disk' = disk /\ cmd' = cmd /\ listed' = listed /\ pc' = pc
        /\ outcome' = outcome /\ errors' = errors
    BY <1>9 DEF vars
  <2>2. /\ DirectoryEnd' = DirectoryEnd /\ Directory' = Directory
        /\ Listing' = Listing /\ RootCircular' = RootCircular
        /\ \A n : Listed(n)' = Listed(n)
        /\ \A k : /\ Matches(k)' = Matches(k) /\ Nothing(k)' = Nothing(k)
                  /\ FoundEmpty(k)' = FoundEmpty(k)
    BY <2>1, DirectoryStays, SearchStays
  <2>3. Place' = Place /\ InDirectory' = InDirectory
    BY <2>1 DEF Place, InDirectory
  <2>4. Scanning => Scanning'
    <3>1. Passed(Place) => Passed(Place)'
      BY <2>1, <2>2, <2>3 DEF Passed
    <3>2. Passed(Place - 1) => Passed(Place - 1)'
      BY <2>1, <2>2, <2>3 DEF Passed
    <3>3. Found(cmd.entry) => Found(cmd.entry)'
      BY <2>1, <2>2 DEF Found
    <3> QED BY <2>1, <2>3, <3>1, <3>2, <3>3 DEF Scanning
  <2>5. AnswersFromDirectory'
    BY <2>1, <2>2 DEF DirectoryInv, AnswersFromDirectory
  <2> QED BY <2>1, <2>4, <2>5 DEF DirectoryInv
<1> QED BY <1>1, <1>2, <1>3, <1>4, <1>5, <1>6, <1>7, <1>8, <1>9
        DEF Next, Step

(* If every sector could be read, lsdisk has shown exactly the files of    *)
(* the directory, and a search has missed no file that is in it.           *)
THEOREM FatAnswersFromDirectory == Spec => []AnswersFromDirectory
<1>1. Init => DirectoryInv
  BY DEF Init, DirectoryInv, AnswersFromDirectory
<1>2. FatInv /\ DirectoryInv /\ [Next]_vars => DirectoryInv'
  BY DirectoryKept
<1>3. DirectoryInv => AnswersFromDirectory
  BY DEF DirectoryInv
<1> QED BY <1>1, <1>2, <1>3, FatInvariant, PTL DEF Spec

=============================================================================
