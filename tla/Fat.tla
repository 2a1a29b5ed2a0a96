---------------------------------- MODULE Fat ----------------------------------
(***************************************************************************)
(* The FAT16/FAT32 reader of src/kernel/fat.cpp, what the shell's lsdisk,  *)
(* catdisk and run do with it, and the sectors src/drivers/ata.cpp reads   *)
(* for it.                                                                 *)
(*                                                                         *)
(* Nothing writes to the disk, so its image is chosen once.  A command     *)
(* runs to its end in the keyboard interrupt; a step is one call of        *)
(* ata_read_sectors, which may fail, with what is done until the next one. *)
(* Sizes are scaled: a sector has SectorBytes bytes, a directory entry     *)
(* half of them, an entry of the table 2 bytes (FAT16) or 4 (FAT32).       *)
(***************************************************************************)
EXTENDS Integers, Sequences, SequencesExt

CONSTANTS
    SectorBytes,    \* 512
    Fat32Clusters,  \* 65525: a volume with fewer clusters is FAT16
    Images,         \* the disks there may be
    Names           \* the file names the shell is given

ASSUME SectorBytesAssumption ==
    SectorBytes \in Nat /\ SectorBytes >= 4 /\ SectorBytes % 4 = 0
ASSUME Fat32ClustersAssumption == Fat32Clusters \in Nat

VARIABLES
    disk,           \* the drive and the image on it
    volume,         \* what fat_init has found
    pc, cmd,        \* where the command stands, and its local variables
    out,            \* what has been copied: sectors and how much of each
    listed,         \* what has been listed, sector by sector
    outcome,        \* what the shell has said about the last command
    errors          \* what it could not read

vars == <<disk, volume, pc, cmd, out, listed, outcome, errors>>

NoDisk == [disk_present |-> FALSE, fat_active |-> FALSE]
NoVolume == [disk_present |-> TRUE, fat_active |-> FALSE]
NoEntry == [kind |-> "none", name |-> "", first |-> 0, size |-> 0]
EndEntry == [kind |-> "end", name |-> "", first |-> 0, size |-> 0]
EndOfChain == 1000      \* 0xFFF8 and above, or 0x0FFFFFF8 and above

DirectoryEntry ==
    [kind : {"file", "deleted", "long", "end"}, name : STRING,
     first : 0..EndOfChain, size : Nat]

(* The number of clusters makes the difference between FAT16 and FAT32.    *)
(* What a link says may be anything, also a cluster the disk does not have;*)
(* but a FAT32 directory has the cluster root_cluster and, if its link says*)
(* so, the one behind it, which may link to each other or themselves.      *)
ASSUME ImagesAssumption ==
    \A d \in Images :
        /\ d.fat32 = (d.clusters >= Fat32Clusters) /\ d.clusters \in Nat
        /\ d.sectors_per_cluster \in Nat \ {0}
        /\ d.root_cluster \in 0..(EndOfChain - 2)
        /\ \A c \in DOMAIN d.links : d.links[c] \in 0..EndOfChain
        /\ d.directory \in Seq(Seq(DirectoryEntry))
        /\ ~d.fat32 => d.directory # <<>>
        /\ d.fat32 =>
              \A c \in {d.root_cluster, d.root_cluster + 1} \cap DOMAIN d.links :
                 d.links[c] \in {d.root_cluster, d.root_cluster + 1, EndOfChain}

-----------------------------------------------------------------------------
(* The drive and its image: a table of links, the sectors of the root      *)
(* directory and the fields of the boot sector, laid out as the format     *)
(* demands.                                                                *)

Reserved == 1
FatCount == 2

Ceil(a, b) == (a + b - 1) \div b
EntryBytes(d) == IF d.fat32 THEN 4 ELSE 2
TableSectors(d) == Ceil((d.clusters + 2) * EntryBytes(d), SectorBytes)
RootSectors(d) == IF d.fat32 THEN 0 ELSE Len(d.directory)
RootStart(d) == Reserved + FatCount * TableSectors(d)
ClusterStart(d, c) ==
    RootStart(d) + RootSectors(d) + (c - 2) * d.sectors_per_cluster

BootSector(d) ==
    [root_entry_count |-> 2 * RootSectors(d),
     sectors_per_fat |-> TableSectors(d),
     total_sectors |-> ClusterStart(d, d.clusters + 2)]

Link(d, c) == IF c \in DOMAIN d.links THEN d.links[c] ELSE EndOfChain

TableEntry(d, sector, offset) ==
    Link(d, ((sector - Reserved) * SectorBytes + offset) \div EntryBytes(d))

(* The i-th sector of the directory; what no entry was ever put in is zero.*)
RootSector(d, i) ==
    IF i \in DOMAIN d.directory THEN d.directory[i] ELSE <<EndEntry>>

DirectorySector(d, sector) ==
    LET first == IF d.fat32 THEN ClusterStart(d, d.root_cluster)
                 ELSE RootStart(d)
    IN  RootSector(d, sector - first + 1)

-----------------------------------------------------------------------------
(* ata_init and fat_init.                                                  *)

Init ==
    /\ disk \in Images
    /\ volume = NoDisk
    /\ pc = "boot"
    /\ cmd = [op |-> "none", name |-> "", max_size |-> 0, entry |-> NoEntry,
              cluster |-> 0, s |-> 0, bytes_read |-> 0]
    /\ out = <<>> /\ listed = <<>>
    /\ outcome = "none"
    /\ errors = {}

(* ata_init: there is a disk if something answers IDENTIFY, is no packet   *)
(* device, reports no error and has data in time.                          *)
AtaInit ==
    /\ pc = "boot"
    /\ volume' = IF disk.drive \in {"absent", "packet", "error", "silent"}
                 THEN NoDisk ELSE NoVolume
    /\ pc' = "mount"
    /\ UNCHANGED <<disk, cmd, out, listed, outcome, errors>>

(* What fat_init makes of a boot sector.                                   *)
Volume(boot) ==
    LET root_dir_sectors == Ceil(boot.root_entry_count * (SectorBytes \div 2),
                                 SectorBytes)
        tables == Reserved + FatCount * boot.sectors_per_fat
        total_clusters == (boot.total_sectors - (tables + root_dir_sectors))
                              \div disk.sectors_per_cluster
        fat32 == total_clusters >= Fat32Clusters
    IN  [disk_present |-> TRUE, fat_active |-> TRUE,
         is_fat32 |-> fat32,
         root_dir_sector |-> tables,
         root_dir_sectors |-> root_dir_sectors,
         data_sector |-> IF fat32 THEN tables ELSE tables + root_dir_sectors]

(* fat_init: no volume if the first sector cannot be read or is not signed.*)
FatInit ==
    /\ pc = "mount"
    /\ volume' \in {volume} \cup
                  (IF volume.disk_present THEN {Volume(BootSector(disk))} ELSE {})
    /\ pc' = "shell"
    /\ UNCHANGED <<disk, cmd, out, listed, outcome, errors>>

-----------------------------------------------------------------------------
(* The operators of fat.cpp.                                               *)

(* get_cluster_sector.                                                     *)
ClusterSector(cluster) ==
    volume.data_sector + (cluster - 2) * disk.sectors_per_cluster

(* get_next_cluster, when the sector of the table can be read.             *)
NextCluster(cluster) ==
    LET fat_offset == cluster * (IF volume.is_fat32 THEN 4 ELSE 2)
    IN  TableEntry(disk, Reserved + fat_offset \div SectorBytes,
                   fat_offset % SectorBytes)

HasEnd(entries) == \E i \in DOMAIN entries : entries[i].kind = "end"

(* The places in a sector that a loop looks at: those before the end mark. *)
BeforeEnd(entries) ==
    {i \in DOMAIN entries : \A j \in 1..i : entries[j].kind # "end"}

(* Mutant of Shown: parts of long names are listed as files.               *)
ShownWithLongNames(entries) ==
    [i \in {j \in BeforeEnd(entries) : entries[j].kind # "deleted"} |->
        entries[i]]

(* The files of a sector that fat_list_root shows, at their places.        *)
Shown(entries) ==
    [i \in {j \in BeforeEnd(entries) : entries[j].kind = "file"} |->
        entries[i]]

(* The places of those the searches for a name take, which do not skip     *)
(* long names.                                                             *)
Matching(entries, name) ==
    {i \in BeforeEnd(entries) :
        entries[i].kind # "deleted" /\ entries[i].name = name}

-----------------------------------------------------------------------------
(* The commands of the shell.                                              *)

Answer(said) ==
    /\ pc' = "shell"
    /\ outcome' = said
    /\ UNCHANGED cmd

(* fat_list_root, fat_get_file_size and the first half of fat_read_file    *)
(* walk through the root directory in the same way.                        *)
BeginScan(op, name, max_size) ==
    /\ pc' = "scan"
    /\ cmd' = [op |-> op, name |-> name, max_size |-> max_size,
               entry |-> NoEntry, cluster |-> disk.root_cluster, s |-> 0,
               bytes_read |-> 0]
    /\ outcome' = "none"

(* lsdisk; catdisk, run and exec, which ask for the size first.            *)
Command ==
    /\ pc = "shell"
    /\ out' = <<>> /\ listed' = <<>> /\ errors' = {}
    /\ IF volume.fat_active
       THEN \/ BeginScan("list", "", 0)
            \/ \E name \in Names : BeginScan("size", name, 0)
       ELSE Answer("inactive")
    /\ UNCHANGED <<disk, volume>>

(* Mutant of FileSize: the size of the entry, whatever the buffer holds.   *)
FileSizeUnclipped == cmd.entry.size

(* file_size of fat_read_file: no more than the buffer takes.              *)
FileSize == IF cmd.max_size < cmd.entry.size THEN cmd.max_size
            ELSE cmd.entry.size

(* The loop of fat_read_file: it ends with the file or with its chain, be  *)
(* the file complete or not, and the answer is true either way.            *)
GoToData(cluster) ==
    IF cmd'.bytes_read >= FileSize' \/ cluster = 0 \/ cluster >= EndOfChain
    THEN pc' = "shell" /\ outcome' = "printed"
    ELSE pc' = "copy" /\ outcome' = "none"

(* The scan is over, with the entry of that name or without one.  When the *)
(* size was asked for, a buffer of that size is taken and the file read,   *)
(* which scans the directory once more.                                    *)
EndScan(entry) ==
    \/ cmd.op = "list" /\ Answer("listed")
    \/ cmd.op = "size" /\ entry.size = 0 /\ Answer("not found")
    \/ cmd.op = "size" /\ entry.size > 0 /\ Answer("no memory")
    \/ cmd.op = "size" /\ entry.size > 0 /\ BeginScan("read", cmd.name, entry.size)
    \/ cmd.op = "read" /\ entry = NoEntry /\ Answer("failed")
    \/ /\ cmd.op = "read" /\ entry # NoEntry
       /\ cmd' = [cmd EXCEPT !.entry = entry, !.cluster = entry.first, !.s = 0]
       /\ GoToData(entry.first)

(* The next sector of the directory; behind the last one of a cluster the  *)
(* link is asked for, behind that of a FAT16 root the scan is over.        *)
DirectorySectors ==
    IF volume.is_fat32 THEN disk.sectors_per_cluster ELSE volume.root_dir_sectors

NextSector ==
    IF cmd.s + 1 < DirectorySectors
    THEN cmd' = [cmd EXCEPT !.s = @ + 1] /\ UNCHANGED <<pc, outcome>>
    ELSE IF volume.is_fat32 THEN pc' = "next" /\ UNCHANGED <<cmd, outcome>>
         ELSE EndScan(NoEntry)

(* One directory sector.  A listing ends at the end mark; a search only    *)
(* skips the rest of that sector.  On FAT32 a search fetches the link      *)
(* before it tests whether the name has been found.                        *)
Scan ==
    LET entries == DirectorySector(disk,
                      (IF volume.is_fat32 THEN ClusterSector(cmd.cluster)
                       ELSE volume.root_dir_sector) + cmd.s)
        found == Matching(entries, cmd.name)
    IN  /\ pc = "scan"
        /\ listed' = IF cmd.op = "list" THEN Append(listed, Shown(entries))
                     ELSE listed
        /\ CASE cmd.op = "list" /\ HasEnd(entries) -> Answer("listed")
             [] cmd.op # "list" /\ found # {} ->
                    IF volume.is_fat32
                    THEN /\ cmd' = [cmd EXCEPT !.entry = entries[Min(found)]]
                         /\ pc' = "next" /\ UNCHANGED outcome
                    ELSE EndScan(entries[Min(found)])
             [] OTHER -> NextSector
        /\ UNCHANGED <<disk, volume, out, errors>>

(* A sector that cannot be read ends the scan of a FAT16 root, and sends   *)
(* one of FAT32 on to the next cluster.                                    *)
ScanFails ==
    /\ pc = "scan"
    /\ IF volume.is_fat32 THEN pc' = "next" /\ UNCHANGED <<cmd, outcome>>
       ELSE EndScan(NoEntry)
    /\ errors' = errors \cup {"directory"}
    /\ UNCHANGED <<disk, volume, out, listed>>

(* Mutant of GoToDirectory: the same cluster over again.                   *)
GoToDirectoryAgain(cluster) ==
    IF cmd.entry # NoEntry \/ cluster >= EndOfChain
    THEN EndScan(cmd.entry)
    ELSE /\ pc' = "scan"
         /\ cmd' = [cmd EXCEPT !.s = 0]
         /\ UNCHANGED outcome

GoToDirectory(cluster) ==
    IF cmd.entry # NoEntry \/ cluster >= EndOfChain
    THEN EndScan(cmd.entry)
    ELSE /\ pc' = "scan"
         /\ cmd' = [cmd EXCEPT !.cluster = cluster, !.s = 0]
         /\ UNCHANGED outcome

(* The link of a directory's cluster; one that cannot be read is the end.  *)
NextDirectoryCluster ==
    /\ pc = "next"
    /\ \/ GoToDirectory(NextCluster(cmd.cluster)) /\ UNCHANGED errors
       \/ GoToDirectory(EndOfChain) /\ errors' = errors \cup {"directory"}
    /\ UNCHANGED <<disk, volume, out, listed>>

(* One sector of the file.                                                 *)
CopySector ==
    LET rest == FileSize - cmd.bytes_read
        n == IF rest < SectorBytes THEN rest ELSE SectorBytes
    IN  /\ pc = "copy"
        /\ out' = Append(out, [sector |-> ClusterSector(cmd.cluster) + cmd.s,
                               bytes |-> n])
        /\ cmd' = [cmd EXCEPT !.bytes_read = @ + n, !.s = @ + 1]
        /\ pc' = IF cmd.s + 1 < disk.sectors_per_cluster /\ n < rest
                 THEN "copy" ELSE "follow"
        /\ UNCHANGED <<disk, volume, listed, outcome, errors>>

(* Mutant of CopyFails: what has been read so far is taken for the file.   *)
CopyFailsUnnoticed ==
    /\ pc = "copy"
    /\ Answer("printed")
    /\ errors' = errors \cup {"data"}
    /\ UNCHANGED <<disk, volume, out, listed>>

CopyFails ==
    /\ pc = "copy"
    /\ Answer("failed")
    /\ errors' = errors \cup {"data"}
    /\ UNCHANGED <<disk, volume, out, listed>>

(* The link of a file's cluster; one that cannot be read is the end.       *)
FollowChain ==
    /\ pc = "follow"
    /\ \E readable \in BOOLEAN :
          LET cluster == IF readable THEN NextCluster(cmd.cluster) ELSE EndOfChain
          IN  /\ cmd' = [cmd EXCEPT !.cluster = cluster, !.s = 0]
              /\ GoToData(cluster)
              /\ errors' = IF readable THEN errors ELSE errors \cup {"chain"}
    /\ UNCHANGED <<disk, volume, out, listed>>

Step ==
    \/ AtaInit \/ FatInit
    \/ Scan \/ ScanFails \/ NextDirectoryCluster
    \/ CopySector \/ CopyFails \/ FollowChain

Next == Step \/ Command

(* The drive answers every read, with the sector or with an error.         *)
Fairness == WF_vars(Step)

Spec == Init /\ [][Next]_vars /\ Fairness

-----------------------------------------------------------------------------
(* Properties.                                                             *)

TypeOK ==
    /\ disk \in Images
    /\ pc \in {"boot", "mount", "shell", "scan", "next", "copy", "follow"}
    /\ cmd.op \in {"none", "list", "size", "read"}
    /\ cmd.entry \in {NoEntry} \cup UNION {Range(sec) : sec \in Range(disk.directory)}
    /\ pc = "scan" => cmd.s < DirectorySectors
    /\ pc = "copy" => cmd.s < disk.sectors_per_cluster
    /\ cmd.cluster \in 0..(disk.clusters + 1) \cup {EndOfChain}
    /\ outcome \in {"none", "inactive", "listed", "not found", "no memory",
                   "failed", "printed"}
    /\ errors \subseteq {"directory", "data", "chain"}

(* What the format says: the clusters of a file, one after the other, and  *)
(* where its k-th sector is.                                               *)
Wanted == IF cmd.max_size < cmd.entry.size THEN cmd.max_size ELSE cmd.entry.size

Chain(d, first, size) ==
    LET c[k \in 0..size] == IF k = 0 THEN first ELSE Link(d, c[k - 1])
    IN  c

ChainOf(entry) == Chain(disk, entry.first, Wanted)

SectorOf(entry, k) ==
    LET spc == disk.sectors_per_cluster
    IN  ClusterStart(disk, ChainOf(entry)[(k - 1) \div spc]) + ((k - 1) % spc)

(* Every sector that fat_read_file copies is the next one of the file: it  *)
(* leaves out none, and reads no sector of another file nor of the tables, *)
(* whatever the size of a cluster and wherever its link is in the table.   *)
(* Of the last one it copies what belongs to the file, and never more than *)
(* the buffer was taken for, although the scan that finds the file may     *)
(* find another entry of that name than the one that asked for its size,   *)
(* when a sector was unreadable in one of them.                            *)
CopiesTheFile ==
    out = [k \in DOMAIN out |->
              [sector |-> SectorOf(cmd.entry, k),
               bytes |-> IF k * SectorBytes <= Wanted THEN SectorBytes
                         ELSE Wanted % SectorBytes]]

(* A file that the shell prints, or elf_load_from_disk maps, is complete,  *)
(* unless its chain is too short for its size or could not be read: then   *)
(* fat_read_file returns true all the same.                                *)
ChainTooShort ==
    \E k \in 0..((Wanted - 1) \div (SectorBytes * disk.sectors_per_cluster)) :
        ChainOf(cmd.entry)[k] \in {0, EndOfChain}

PrintedComplete ==
    outcome = "printed" => \/ cmd.bytes_read = Wanted
                           \/ "chain" \in errors \/ ChainTooShort

(* If no sector was unreadable, lsdisk shows the files of the directory,   *)
(* all of them, each once, in their order and nothing behind its end; and  *)
(* a file is not found only if it is not among them, or if it is empty or  *)
(* comes behind an empty one of that name.                                 *)
DirectoryEnd ==
    IF ~disk.fat32 THEN Len(disk.directory)
    ELSE IF Link(disk, disk.root_cluster) = disk.root_cluster + 1
         THEN 2 * disk.sectors_per_cluster
         ELSE disk.sectors_per_cluster

Directory == {k \in 1..DirectoryEnd :
                 \A i \in 1..(k - 1) : ~HasEnd(RootSector(disk, i))}

InUse(entries, kinds) ==
    {i \in DOMAIN entries : /\ entries[i].kind \in kinds
                            /\ ~\E j \in 1..(i - 1) : entries[j].kind = "end"}

Listing ==
    [k \in Directory |->
        LET entries == RootSector(disk, k)
        IN  [i \in InUse(entries, {"file"}) |-> entries[i]]]

FoundEmpty(k) ==
    \E i \in 1..k :
        LET entries == RootSector(disk, i)
        IN  \E m \in InUse(entries, {"file", "long"}) :
                entries[m].name = cmd.name /\ entries[m].size = 0

AnswersFromDirectory ==
    errors = {} =>
        /\ outcome = "listed" => listed = Listing
        /\ outcome = "not found" =>
              \A k \in Directory : \A m \in DOMAIN Listing[k] :
                 Listing[k][m].name = cmd.name => FoundEmpty(k)

(* Every command ends, unless the directory's own chain runs in a circle.  *)
(* A file's may: the count of bytes ends the loop.                         *)
RootCircular ==
    /\ disk.fat32
    /\ \/ Link(disk, disk.root_cluster) = disk.root_cluster
       \/ /\ Link(disk, disk.root_cluster) = disk.root_cluster + 1
          /\ Link(disk, disk.root_cluster + 1)
                \in {disk.root_cluster, disk.root_cluster + 1}

CommandEnds == pc # "shell" ~> (pc = "shell" \/ RootCircular)
=============================================================================
