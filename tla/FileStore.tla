------------------------------ MODULE FileStore ------------------------------
(* What the file system promises the shell: a path, once created, keeps    *)
(* its kind, and a file's content only grows by what is written to it.     *)
EXTENDS Sequences

CONSTANTS Paths, Chunks

VARIABLE store      \* of each path: its kind, "none" if there is nothing at
                    \* it, and the chunks written to it

Create(p) ==
    /\ store[p].kind = "none"
    /\ \E k \in {"dir", "file"} : store' = [store EXCEPT ![p].kind = k]

Write(p) ==
    /\ store[p].kind = "file"
    /\ \E chunk \in Chunks :
          store' = [store EXCEPT ![p].content = Append(@, chunk)]

Next == \E p \in Paths : Create(p) \/ Write(p)

Init == \A p \in Paths : store[p].kind = "none" => store[p].content = <<>>

Spec == Init /\ [][Next]_store
=============================================================================
