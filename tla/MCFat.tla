-------------------------------- MODULE MCFat --------------------------------
(* Small disks for TLC: three clusters on FAT16, four on FAT32, directories *)
(* with deleted entries, long names, an end mark in either sector and an    *)
(* old entry behind it, and all tables up to what no file can tell apart.   *)
EXTENDS Fat

File(name, first, size) ==
    [kind |-> "file", name |-> name, first |-> first, size |-> size]
Deleted == [NoEntry EXCEPT !.kind = "deleted", !.name = "B"]
LongName == [NoEntry EXCEPT !.kind = "long"]

Directories(a, b) ==
    {<< <<a, b>>, <<EndEntry, EndEntry>> >>,
     << <<Deleted, a>>, <<b, EndEntry>> >>,
     << <<LongName, b>>, <<a, LongName>> >>,
     << <<a, File("B", 0, 0)>>, <<b, EndEntry>> >>,
     << <<a, EndEntry>>, <<File("A", 3, 12), EndEntry>> >>,
     << <<EndEntry, b>>, <<LongName, File("A", 3, 3)>> >>}

Image(drive, fat32, clusters, spc, links, directory) ==
    [drive |-> drive, fat32 |-> fat32, clusters |-> clusters,
     sectors_per_cluster |-> spc, root_cluster |-> 2, links |-> links,
     directory |-> directory]

Fat16Images ==
    {Image("ata", FALSE, 3, spc, links, dir) :
        spc \in {1, 2},
        links \in {f \in [2..4 -> {0, 2, 3, 4, EndOfChain}] :
                     f[2] \in {0, 4, EndOfChain} /\ f[4] \in {0, 2, 3}},
        dir \in UNION {Directories(File("A", 3, n), File("B", 4, 8)) :
                          n \in {3, 20}}}

Fat32Links ==
    {f \in [2..5 -> {0, 2, 3, 4, 5, EndOfChain}] :
        /\ <<f[2], f[3]>> \in {<<2, 2>>, <<3, 2>>, <<3, EndOfChain>>,
                               <<EndOfChain, 2>>}
        /\ f[4] \in {4, 5, EndOfChain} /\ f[5] \in {0, EndOfChain}}

(* The list of files grows for ever on a directory that runs in a circle   *)
(* unless every sector of it that can be read has an end mark.             *)
Fat32Images ==
    {image \in
        {Image("ata", TRUE, 4, spc, links, dir) :
            spc \in {1, 2}, links \in Fat32Links,
            dir \in UNION {Directories(File("A", 4, n), File("B", 5, 8)) :
                              n \in {3, 20}}} :
        \/ EndOfChain \in {image.links[2], image.links[3]}
        \/ HasEnd(image.directory[1]) /\ HasEnd(image.directory[2])}

NoDisks ==
    {Image(drive, FALSE, 3, 1, [c \in 2..4 |-> 0], << <<>>, <<>> >>) :
        drive \in {"absent", "packet", "error", "silent"}}

MCImages == Fat16Images \cup Fat32Images \cup NoDisks
=============================================================================
