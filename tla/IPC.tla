-------------------------------- MODULE IPC --------------------------------
(***************************************************************************)
(* Mailboxes and the message pool of src/kernel/ipc.cpp, one step for each *)
(* access to the shared structures.                                        *)
(*                                                                         *)
(* The callers are kernel tasks that run with interrupts enabled, and      *)
(* nothing in ipc.cpp keeps them apart.  Preemptive says whether the       *)
(* timer may come between two steps of a call, as it does in the kernel;   *)
(* without it calls follow each other.  A scan of the pool or of the       *)
(* mailboxes is one step.  sender_pid, receiver_pid and length go with the *)
(* payload; mailbox_count, which nothing reads, is left out.               *)
(***************************************************************************)
EXTENDS Integers, Sequences

CONSTANTS
    Tasks,              \* the tasks (pids) that use mailboxes
    NumMessages,        \* IPC_MAX_MESSAGES (64)
    NumMailboxes,       \* IPC_MAX_MAILBOXES (16)
    MaxSends,           \* bound: the number of calls of ipc_send
    Preemptive

Null == 0
Msgs == 1..NumMessages
Boxes == 1..NumMailboxes
Payloads == 1..MaxSends

ASSUME TasksAssumption == Tasks \subseteq Nat \ {Null}
ASSUME SizesAssumption ==
    NumMessages \in Nat /\ NumMailboxes \in Nat /\ MaxSends \in Nat
ASSUME PreemptiveAssumption == Preemptive \in BOOLEAN

VARIABLES
    msg_used,           \* the messages of msg_pool whose used is set
    msg_next, msg_data, \* the next and the content of each message
    box_used,           \* the mailboxes whose used is set
    owner_pid, head, tail, count,   \* the fields of each mailbox
    pc,                 \* the point of the call each task is in
    msg, box, dest, n,  \* the call's locals: message, mailbox, dest_pid,
                        \* and the value of count it has loaded
    calls,              \* how often ipc_send was called; names the payloads
    sent, received      \* the payloads whose ipc_send returned 0, and
                        \* those that ipc_receive has copied out

pool == <<msg_used, msg_next, msg_data>>
boxes == <<box_used, owner_pid, head, tail, count>>
locals == <<msg, box, dest, n>>
history == <<calls, sent, received>>
vars == <<pool, boxes, pc, locals, history>>

Points == {"idle",
           "claim", "fill", "lookup", "link", "link tail", "link head",
           "set tail", "load up", "store up",
           "take", "advance", "clear tail", "load down", "store down", "copy",
           "open"}

TypeOK ==
    /\ msg_used \subseteq Msgs
    /\ msg_next \in [Msgs -> Msgs \cup {Null}]
    /\ msg_data \in [Msgs -> Payloads \cup {Null}]
    /\ box_used \subseteq Boxes
    /\ owner_pid \in [Boxes -> Tasks \cup {Null}]
    /\ head \in [Boxes -> Msgs \cup {Null}]
    /\ tail \in [Boxes -> Msgs \cup {Null}]
    /\ count \in [Boxes -> Nat]
    /\ pc \in [Tasks -> Points]
    /\ msg \in [Tasks -> Msgs \cup {Null}]
    /\ box \in [Tasks -> Boxes \cup {Null}]
    /\ dest \in [Tasks -> Tasks \cup {Null}]
    /\ n \in [Tasks -> Nat]
    /\ calls \in 0..MaxSends
    /\ sent \subseteq Payloads /\ received \subseteq Payloads

(* ipc_init has run: nothing is in use.  (Nothing calls ipc_init, but the  *)
(* arrays lie in the zeroed data segment, which comes to the same.)        *)
Init ==
    /\ msg_used = {}
    /\ msg_next = [m \in Msgs |-> Null]
    /\ msg_data = [m \in Msgs |-> Null]
    /\ box_used = {}
    /\ owner_pid = [b \in Boxes |-> Null]
    /\ head = [b \in Boxes |-> Null]
    /\ tail = [b \in Boxes |-> Null]
    /\ count = [b \in Boxes |-> 0]
    /\ pc = [t \in Tasks |-> "idle"]
    /\ msg = [t \in Tasks |-> Null]
    /\ box = [t \in Tasks |-> Null]
    /\ dest = [t \in Tasks |-> Null]
    /\ n = [t \in Tasks |-> 0]
    /\ calls = 0 /\ sent = {} /\ received = {}

-----------------------------------------------------------------------------
(* The timer preempts a call only if Preemptive.                           *)
Runs(t) == Preemptive \/ \A u \in Tasks \ {t} : pc[u] = "idle"

At(t, point) == pc[t] = point /\ Runs(t)

Goto(t, point) == pc' = [pc EXCEPT ![t] = point]

First(S) == CHOOSE x \in S : \A y \in S : x <= y

BoxesOf(t) == {b \in box_used : owner_pid[b] = t}

(* The call returns: its locals are gone.                                  *)
Return(t) ==
    /\ Goto(t, "idle")
    /\ msg' = [msg EXCEPT ![t] = Null]
    /\ box' = [box EXCEPT ![t] = Null]
    /\ dest' = [dest EXCEPT ![t] = Null]
    /\ n' = [n EXCEPT ![t] = 0]

FreeMessage(m) ==
    /\ msg_used' = msg_used \ {m}
    /\ msg_next' = [msg_next EXCEPT ![m] = Null]
    /\ UNCHANGED msg_data

-----------------------------------------------------------------------------
(* ipc_send.                                                               *)

(* alloc_message finds the first message that is not in use ...            *)
SendBegin(t, d) ==
    /\ At(t, "idle")
    /\ calls < MaxSends
    /\ Msgs \ msg_used # {}
    /\ calls' = calls + 1
    /\ msg' = [msg EXCEPT ![t] = First(Msgs \ msg_used)]
    /\ dest' = [dest EXCEPT ![t] = d]
    /\ n' = [n EXCEPT ![t] = calls + 1]
    /\ Goto(t, "claim")
    /\ UNCHANGED <<pool, boxes, box, sent, received>>

(* ... or none: ipc_send returns -1.                                       *)
SendNoMessage(t) ==
    /\ At(t, "idle")
    /\ calls < MaxSends
    /\ Msgs \ msg_used = {}
    /\ calls' = calls + 1
    /\ UNCHANGED <<pool, boxes, pc, locals, sent, received>>

SendClaim(t) ==
    /\ At(t, "claim")
    /\ msg_used' = msg_used \cup {msg[t]}
    /\ msg_next' = [msg_next EXCEPT ![msg[t]] = Null]
    /\ Goto(t, "fill")
    /\ UNCHANGED <<msg_data, boxes, locals, history>>

SendFill(t) ==
    /\ At(t, "fill")
    /\ msg_data' = [msg_data EXCEPT ![msg[t]] = n[t]]
    /\ Goto(t, "lookup")
    /\ UNCHANGED <<msg_used, msg_next, boxes, locals, history>>

SendLookup(t) ==
    /\ At(t, "lookup")
    /\ BoxesOf(dest[t]) # {}
    /\ box' = [box EXCEPT ![t] = First(BoxesOf(dest[t]))]
    /\ msg_next' = [msg_next EXCEPT ![msg[t]] = Null]
    /\ Goto(t, "link")
    /\ UNCHANGED <<msg_used, msg_data, boxes, msg, dest, n, history>>

(* Mutant: the message is not given back.                                  *)
SendNoMailboxKeepsMessage(t) ==
    /\ At(t, "lookup")
    /\ BoxesOf(dest[t]) = {}
    /\ Return(t)
    /\ UNCHANGED <<pool, boxes, history>>

(* Nobody has a mailbox for that pid: the message is freed, -1 returned.   *)
SendNoMailbox(t) ==
    /\ At(t, "lookup")
    /\ BoxesOf(dest[t]) = {}
    /\ FreeMessage(msg[t])
    /\ Return(t)
    /\ UNCHANGED <<boxes, history>>

(* Mutant: the new message always becomes the head.                        *)
SendLinkAtHead(t) ==
    /\ At(t, "link")
    /\ Goto(t, "link head")
    /\ UNCHANGED <<pool, boxes, locals, history>>

SendLink(t) ==
    /\ At(t, "link")
    /\ Goto(t, IF tail[box[t]] # Null THEN "link tail" ELSE "link head")
    /\ UNCHANGED <<pool, boxes, locals, history>>

(* mailboxes[i].tail is read again for the write; if it is null by then    *)
(* the write goes astray.                                                  *)
SendLinkTail(t) ==
    /\ At(t, "link tail")
    /\ msg_next' = [m \in Msgs |-> IF m = tail[box[t]] THEN msg[t]
                                                       ELSE msg_next[m]]
    /\ Goto(t, "set tail")
    /\ UNCHANGED <<msg_used, msg_data, boxes, locals, history>>

SendLinkHead(t) ==
    /\ At(t, "link head")
    /\ head' = [head EXCEPT ![box[t]] = msg[t]]
    /\ Goto(t, "set tail")
    /\ UNCHANGED <<pool, box_used, owner_pid, tail, count, locals, history>>

SendSetTail(t) ==
    /\ At(t, "set tail")
    /\ tail' = [tail EXCEPT ![box[t]] = msg[t]]
    /\ Goto(t, "load up")
    /\ UNCHANGED <<pool, box_used, owner_pid, head, count, locals, history>>

(* count++, then return 0.  The payload is noted where the store is.       *)
SendLoad(t) ==
    /\ At(t, "load up")
    /\ sent' = sent \cup {n[t]}
    /\ n' = [n EXCEPT ![t] = count[box[t]]]
    /\ Goto(t, "store up")
    /\ UNCHANGED <<pool, boxes, msg, box, dest, calls, received>>

SendStore(t) ==
    /\ At(t, "store up")
    /\ count' = [count EXCEPT ![box[t]] = n[t] + 1]
    /\ Return(t)
    /\ UNCHANGED <<pool, box_used, owner_pid, head, tail, history>>

-----------------------------------------------------------------------------
(* ipc_receive: the first of the task's mailboxes that is not empty; with  *)
(* none it returns -1.                                                     *)

Filled(t) == {b \in BoxesOf(t) : head[b] # Null}

ReceiveBegin(t) ==
    /\ At(t, "idle")
    /\ Filled(t) # {}
    /\ box' = [box EXCEPT ![t] = First(Filled(t))]
    /\ Goto(t, "take")
    /\ UNCHANGED <<pool, boxes, msg, dest, n, history>>

ReceiveNothing(t) ==
    /\ At(t, "idle")
    /\ Filled(t) = {}
    /\ UNCHANGED vars

(* Mutant: the message sent last is received first.                        *)
ReceiveTakeTail(t) ==
    /\ At(t, "take")
    /\ msg' = [msg EXCEPT ![t] = tail[box[t]]]
    /\ Goto(t, "advance")
    /\ UNCHANGED <<pool, boxes, box, dest, n, history>>

ReceiveTake(t) ==
    /\ At(t, "take")
    /\ msg' = [msg EXCEPT ![t] = head[box[t]]]
    /\ Goto(t, "advance")
    /\ UNCHANGED <<pool, boxes, box, dest, n, history>>

ReceiveAdvance(t) ==
    /\ At(t, "advance")
    /\ head' = [head EXCEPT ![box[t]] = msg_next[msg[t]]]
    /\ Goto(t, IF msg_next[msg[t]] = Null THEN "clear tail" ELSE "load down")
    /\ UNCHANGED <<pool, box_used, owner_pid, tail, count, locals, history>>

ReceiveClearTail(t) ==
    /\ At(t, "clear tail")
    /\ tail' = [tail EXCEPT ![box[t]] = Null]
    /\ Goto(t, "load down")
    /\ UNCHANGED <<pool, box_used, owner_pid, head, count, locals, history>>

ReceiveLoad(t) ==
    /\ At(t, "load down")
    /\ n' = [n EXCEPT ![t] = count[box[t]]]
    /\ Goto(t, "store down")
    /\ UNCHANGED <<pool, boxes, msg, box, dest, history>>

(* count is unsigned.                                                      *)
ReceiveStore(t) ==
    /\ At(t, "store down")
    /\ count' = [count EXCEPT ![box[t]] = n[t] - 1]
    /\ Goto(t, "copy")
    /\ UNCHANGED <<pool, box_used, owner_pid, head, tail, locals, history>>

ReceiveCopy(t) ==
    /\ At(t, "copy")
    /\ received' = received \cup {msg_data[msg[t]]}
    /\ FreeMessage(msg[t])
    /\ Return(t)
    /\ UNCHANGED <<boxes, calls, sent>>

-----------------------------------------------------------------------------
(* ipc_mailbox_create, called by a task for itself; with all mailboxes in  *)
(* use it returns -1.  No mailbox is ever given back.                      *)

CreateBegin(t) ==
    /\ At(t, "idle")
    /\ Boxes \ box_used # {}
    /\ box' = [box EXCEPT ![t] = First(Boxes \ box_used)]
    /\ Goto(t, "open")
    /\ UNCHANGED <<pool, boxes, msg, dest, n, history>>

CreateFails(t) ==
    /\ At(t, "idle")
    /\ Boxes \ box_used = {}
    /\ UNCHANGED vars

CreateOpen(t) ==
    /\ At(t, "open")
    /\ box_used' = box_used \cup {box[t]}
    /\ owner_pid' = [owner_pid EXCEPT ![box[t]] = t]
    /\ head' = [head EXCEPT ![box[t]] = Null]
    /\ tail' = [tail EXCEPT ![box[t]] = Null]
    /\ count' = [count EXCEPT ![box[t]] = 0]
    /\ Return(t)
    /\ UNCHANGED <<pool, history>>

-----------------------------------------------------------------------------
Next ==
    \E t \in Tasks :
        \/ \E d \in Tasks : SendBegin(t, d)
        \/ SendNoMessage(t)
        \/ SendClaim(t)
        \/ SendFill(t)
        \/ SendLookup(t)
        \/ SendNoMailbox(t)
        \/ SendLink(t)
        \/ SendLinkTail(t)
        \/ SendLinkHead(t)
        \/ SendSetTail(t)
        \/ SendLoad(t)
        \/ SendStore(t)
        \/ ReceiveBegin(t)
        \/ ReceiveNothing(t)
        \/ ReceiveTake(t)
        \/ ReceiveAdvance(t)
        \/ ReceiveClearTail(t)
        \/ ReceiveLoad(t)
        \/ ReceiveStore(t)
        \/ ReceiveCopy(t)
        \/ CreateBegin(t)
        \/ CreateFails(t)
        \/ CreateOpen(t)

Spec == Init /\ [][Next]_vars

-----------------------------------------------------------------------------
(* Properties.                                                             *)

(* The messages along next, cut off where the list runs in circles.        *)
Walk(next) ==
    LET walk[k \in 0..NumMessages] == [m \in Msgs \cup {Null} |->
            IF k = 0 \/ m = Null THEN <<>> ELSE <<m>> \o walk[k - 1][next[m]]]
    IN  walk

Chain(m) == Walk(msg_next)[NumMessages][m]

Elements(s) == {s[i] : i \in 1..Len(s)}

Queued == UNION {Elements(Chain(head[b])) : b \in Boxes}

Held(t) == IF pc[t] \in {"idle", "claim"} THEN {} ELSE {msg[t]} \ {Null}

(* A payload whose ipc_send returned 0 is received, or still to be found   *)
(* in a mailbox or in the hands of the call that is receiving it.          *)
NoMessageLost ==
    sent \subseteq received
        \cup {msg_data[m] : m \in Queued \cup UNION {Held(t) : t \in Tasks}}

(* Every message in use is in a mailbox or in the hands of a call, and no  *)
(* message that is free is in a mailbox: the pool does not run dry.        *)
PoolConserved ==
    /\ Queued \subseteq msg_used
    /\ msg_used \subseteq Queued \cup UNION {Held(t) : t \in Tasks}

(* Mailboxes are queues: a message joins its receiver's queue where it is  *)
(* linked and leaves it where head advances.                               *)
Mailbox(t) == IF BoxesOf(t) = {} THEN Null ELSE First(BoxesOf(t))

QueueOf(t) ==
    IF Mailbox(t) = Null THEN <<>>
    ELSE LET c == Chain(head[Mailbox(t)])
         IN  [i \in 1..Len(c) |-> msg_data[c[i]]]

Queues == INSTANCE MessageQueues WITH queue <- [t \in Tasks |-> QueueOf(t)]

ImplementsMessageQueues == Queues!Spec
=============================================================================
