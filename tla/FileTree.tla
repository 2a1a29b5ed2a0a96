------------------------------- MODULE FileTree -------------------------------
(***************************************************************************)
(* The RAM file system of src/kernel/fs.cpp and the shell's commands on it *)
(* (mkdir, touch, write), which run in the keyboard interrupt and so one   *)
(* after another.                                                          *)
(*                                                                         *)
(* Nodes are never given back, so vfs_alloc_node always takes the node     *)
(* behind those in use: vfs_nodes is a sequence, its length is vfs_count,  *)
(* and index i of the code is i + 1 here.  A path is cut at its slashes:   *)
(* "/d/g" is <<"", "d", "g">>, "/" is <<"", "">> and "g" is <<"g">>.       *)
(***************************************************************************)
EXTENDS Integers, Sequences, FiniteSets

CONSTANTS
    VFS_MAX_NODES,      \* 64
    Paths,              \* the paths the shell is given
    Buffers,            \* the blocks kmalloc has for file contents
    Chunks,             \* what is written by one command
    MaxSize             \* bound: the chunks in a file

ASSUME SizesAssumption == VFS_MAX_NODES \in Nat /\ VFS_MAX_NODES >= 3
ASSUME PathsAssumption == \A p \in Paths : Len(p) > 0
ASSUME MaxSizeAssumption == MaxSize \in Nat /\ MaxSize >= 1

None == 0           \* index -1, nullptr

ASSUME BuffersAssumption == None \notin Buffers

Root == 1
RootPath == <<"", "">>
DirPath == <<"", "documents">>
FilePath == <<"", "welcome.txt">>

VARIABLES
    vfs_nodes,
    allocated,      \* the buffers that are not free
    memory          \* the contents of the buffers that are not free

files == <<vfs_nodes, allocated, memory>>

Indexes == 0..VFS_MAX_NODES
AllPaths == Paths \cup {RootPath, DirPath, FilePath}
Node == [path : AllPaths, dir : BOOLEAN, data : Buffers \cup {None},
         first_child : Indexes, next_sibling : Indexes]

-----------------------------------------------------------------------------
(* Mutant of Find: the last node with that path.                           *)
FindLast(nodes, path) ==
    LET found == {i \in DOMAIN nodes : nodes[i].path = path}
    IN  IF found = {} THEN None
        ELSE CHOOSE i \in found : \A j \in found : j <= i

(* vfs_find_node: the first node with that path.                           *)
Find(nodes, path) ==
    LET found == {i \in DOMAIN nodes : nodes[i].path = path}
    IN  IF found = {} THEN None
        ELSE CHOOSE i \in found : \A j \in found : i <= j

Front(path) == SubSeq(path, 1, Len(path) - 1)
Name(path) == path[Len(path)]

(* A path without a slash, or with none but the first, is put in the root. *)
Parent(nodes, path) ==
    IF Len(path) = 1 \/ Front(path) = <<"">> THEN Root
    ELSE Find(nodes, Front(path))

(* Mutant of AddNode: the earlier children are not linked behind it.       *)
AddNodeAlone(nodes, path, dir) ==
    LET idx == Len(nodes) + 1
        parent == Parent(nodes, path)
        node == [path |-> path, dir |-> dir, data |-> None,
                 first_child |-> None, next_sibling |-> None]
    IN  Append(IF parent = None THEN nodes
               ELSE [nodes EXCEPT ![parent].first_child = idx], node)

(* vfs_mkdir and vfs_create: the new node becomes the first child of its   *)
(* parent, if there is one.  Neither looks for a node with that path.      *)
AddNode(nodes, path, dir) ==
    LET idx == Len(nodes) + 1
        parent == Parent(nodes, path)
        node == [path |-> path, dir |-> dir, data |-> None,
                 first_child |-> None,
                 next_sibling |-> IF parent = None THEN None
                                  ELSE nodes[parent].first_child]
    IN  Append(IF parent = None THEN nodes
               ELSE [nodes EXCEPT ![parent].first_child = idx], node)

(* fs_init, with one of its directories and one of its files.              *)
Init ==
    LET root == [path |-> RootPath, dir |-> TRUE, data |-> None,
                 first_child |-> None, next_sibling |-> None]
        nodes == AddNode(AddNode(<<root>>, DirPath, TRUE), FilePath, FALSE)
    IN  \E b \in Buffers, chunk \in Chunks :
           /\ vfs_nodes = [nodes EXCEPT ![Find(nodes, FilePath)].data = b]
           /\ allocated = {b}
           /\ memory = [x \in Buffers |-> IF x = b THEN <<chunk>> ELSE <<>>]

Create(path, dir) ==
    /\ Len(vfs_nodes) < VFS_MAX_NODES
    /\ vfs_nodes' = AddNode(vfs_nodes, path, dir)
    /\ UNCHANGED <<allocated, memory>>

CreateFails == Len(vfs_nodes) = VFS_MAX_NODES /\ UNCHANGED files

Mkdir(path) == Create(path, TRUE)
Touch(path) == Create(path, FALSE)

Content(node) == IF node.data = None THEN <<>> ELSE memory[node.data]

(* vfs_open: what there is at a path.                                      *)
Kind(p) ==
    LET i == Find(vfs_nodes, p)
    IN  IF i = None THEN "none" ELSE IF vfs_nodes[i].dir THEN "dir" ELSE "file"

(* Mutant of Write: the old buffer is not freed.                           *)
WriteWithoutFree(path, chunk) ==
    LET fd == Find(vfs_nodes, path)
        node == vfs_nodes[fd]
    IN  /\ Kind(path) = "file"
        /\ Len(Content(node)) < MaxSize
        /\ \E new_data \in Buffers \ allocated :
              /\ vfs_nodes' = [vfs_nodes EXCEPT ![fd].data = new_data]
              /\ allocated' = allocated \cup {new_data}
              /\ memory' = [memory EXCEPT
                               ![new_data] = Append(Content(node), chunk)]

(* The shell's write: vfs_open, then vfs_write copies the old content and  *)
(* the new chunk into a new buffer and frees the old one.                  *)
Write(path, chunk) ==
    LET fd == Find(vfs_nodes, path)
        node == vfs_nodes[fd]
    IN  /\ Kind(path) = "file"
        /\ Len(Content(node)) < MaxSize
        /\ \E new_data \in Buffers \ allocated :
              /\ vfs_nodes' = [vfs_nodes EXCEPT ![fd].data = new_data]
              /\ allocated' = (allocated \ {node.data}) \cup {new_data}
              /\ memory' = [b \in Buffers |->
                    CASE b = new_data -> Append(Content(node), chunk)
                      [] b = node.data -> <<>>
                      [] OTHER -> memory[b]]

(* No such file, a directory, or no memory: nothing changes.               *)
WriteFails(path) ==
    /\ Kind(path) # "file" \/ Buffers \subseteq allocated
    /\ UNCHANGED files

ShellCommand ==
    \/ \E p \in Paths : Mkdir(p) \/ Touch(p) \/ WriteFails(p)
    \/ \E p \in Paths, chunk \in Chunks : Write(p, chunk)
    \/ CreateFails

-----------------------------------------------------------------------------
(* The walk along next_sibling that vfs_list and api_list_files make; it   *)
(* is cut after one step more than there are nodes.                        *)
Walk(nodes) ==
    LET walk[n \in 0..(VFS_MAX_NODES + 1)] == [i \in Indexes |->
            IF n = 0 \/ i = None THEN <<>>
            ELSE <<i>> \o walk[n - 1][nodes[i].next_sibling]]
    IN  walk

Children(nodes, i) == Walk(nodes)[VFS_MAX_NODES + 1][nodes[i].first_child]

FilesTypeOK ==
    /\ vfs_nodes \in Seq(Node) /\ Len(vfs_nodes) \in 1..VFS_MAX_NODES
    /\ allocated \subseteq Buffers
    /\ memory \in [Buffers -> Seq(Chunks)]
    /\ \A b \in Buffers : Len(memory[b]) <= MaxSize

(* The walks end and list no node twice.  A node is listed in the          *)
(* directory its path names, and nowhere else, if that was there when the  *)
(* node was made; if not, no listing ever shows it, also when a node of    *)
(* the directory's name comes later.                                       *)
Elements(seq) == {seq[n] : n \in DOMAIN seq}

TreeOK ==
    \A i \in DOMAIN vfs_nodes : LET children == Children(vfs_nodes, i) IN
        /\ \A n \in 2..Len(children) : children[n - 1] > children[n]
        /\ Elements(children) =
              {j \in DOMAIN vfs_nodes :
                  i < j /\ i = Parent(vfs_nodes, vfs_nodes[j].path)}

(* Every buffer has one file and no buffer leaks, whichever writes fail.   *)
BuffersOwnedOnce ==
    LET owners(b) == {i \in DOMAIN vfs_nodes : vfs_nodes[i].data = b}
    IN  \A b \in Buffers :
           Cardinality(owners(b)) = IF b \in allocated THEN 1 ELSE 0

(* The paths behave as FileStore promises: a second node with the path of  *)
(* an earlier one does not hide it, a failed write leaves the content.     *)
Store == INSTANCE FileStore WITH
    store <- [p \in Paths |->
        LET i == Find(vfs_nodes, p)
        IN  [kind |-> Kind(p),
             content |-> IF i = None THEN <<>> ELSE Content(vfs_nodes[i])]]

ImplementsFileStore == Store!Spec
=============================================================================
