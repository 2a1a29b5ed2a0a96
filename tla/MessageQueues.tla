---------------------------- MODULE MessageQueues ----------------------------
(***************************************************************************)
(* What mailboxes promise: each task that has one receives, in order and   *)
(* once, the messages that were sent to it.                                *)
(***************************************************************************)
EXTENDS Sequences

CONSTANTS Tasks, Payloads

VARIABLE queue      \* the messages on their way to each task

Init == queue = [t \in Tasks |-> <<>>]

Send(t, m) == queue' = [queue EXCEPT ![t] = Append(@, m)]

Receive(t) ==
    /\ queue[t] # <<>>
    /\ queue' = [queue EXCEPT ![t] = Tail(@)]

Next == \E t \in Tasks : Receive(t) \/ \E m \in Payloads : Send(t, m)

Spec == Init /\ [][Next]_queue
=============================================================================
