----------------------------- MODULE IPCProofs -----------------------------
(***************************************************************************)
(* Theorems about IPC for every number of tasks, messages and mailboxes,   *)
(* when calls follow each other.                                           *)
(***************************************************************************)
EXTENDS IPC, FiniteSetTheorems, SequenceTheorems, WellFoundedInduction, TLAPS

-----------------------------------------------------------------------------
(* The invariant.  q gives the messages queued in each mailbox, which the  *)
(* lists of the pool hold.                                                 *)

(* s is the list that begins with message m.                               *)
IsList(next, m, s) ==
    /\ m = IF s = <<>> THEN Null ELSE s[1]
    /\ \A i \in 1..Len(s) :
          next[s[i]] = IF i = Len(s) THEN Null ELSE s[i + 1]

InQueues(q) == UNION {Elements(q[b]) : b \in Boxes}

(* No message is queued twice.                                             *)
Apart(q) ==
    \A a, b \in Boxes : \A i \in 1..Len(q[a]), j \in 1..Len(q[b]) :
        q[a][i] = q[b][j] => a = b /\ i = j

QueueType == [Boxes -> Seq(Msgs)]

Lists(q) == \A b \in Boxes : IsList(msg_next, head[b], q[b])

(* t is at one of the points, in a call that works on mailbox b.           *)
Working(t, points, b) == pc[t] \in points /\ box[t] = b

LastOf(s) == IF s = <<>> THEN Null ELSE s[Len(s)]

Tails(q) == \A b \in Boxes :
    (\A t \in Tasks : ~Working(t, {"set tail", "clear tail"}, b))
        => tail[b] = LastOf(q[b])

Adding == {"set tail", "load up", "store up"}
Taking == {"clear tail", "load down", "store down"}

(* count is the length of the queue, but for the call that is changing it. *)
Counts(q) ==
    /\ \A b \in Boxes :
          (\A t \in Tasks : ~Working(t, Adding \cup Taking, b))
              => count[b] = Len(q[b])
    /\ \A t \in Tasks :
          /\ pc[t] \in Adding => count[box[t]] = Len(q[box[t]]) - 1
          /\ pc[t] \in Taking => count[box[t]] = Len(q[box[t]]) + 1
          /\ pc[t] \in {"store up", "store down"} => n[t] = count[box[t]]

(* The mailboxes in use come first, and only the first mailbox of a task   *)
(* ever holds messages.                                                    *)
Owners(q) ==
    /\ \A b \in box_used, c \in Boxes : c < b => c \in box_used
    /\ \A b \in Boxes : q[b] # <<>> =>
          b \in box_used /\ b = First(BoxesOf(owner_pid[b]))

PoolOK(q) ==
    /\ InQueues(q) \subseteq msg_used
    /\ msg_used \subseteq InQueues(q) \cup UNION {Held(t) : t \in Tasks}

Written(q) == \A m \in InQueues(q) : msg_data[m] \in Payloads

(* A call that receives has taken its message off the queue.               *)
Delivering(t) == pc[t] \in Taking \cup {"copy"}

(* Held says too much to stay true: a message that is being filled still   *)
(* has its old payload.                                                    *)
Accounted(q) ==
    \A p \in sent :
        \/ p \in received
        \/ \E m \in InQueues(q) : msg_data[m] = p
        \/ \E t \in Tasks : Delivering(t) /\ msg_data[msg[t]] = p

(* Calls follow each other.                                                *)
Alone == \A t, u \in Tasks : t # u => pc[t] = "idle" \/ pc[u] = "idle"

Sending == {"claim", "fill", "lookup", "link", "link tail", "link head"}
Filling == {"lookup", "link", "link tail", "link head", "set tail", "load up"}
Linking == {"link", "link tail", "link head", "set tail", "load up", "store up"}

(* What a call has found out when it is at each point.                     *)
SendLocals(q, t) ==
    /\ pc[t] \in Sending \cup Adding => msg[t] \in Msgs /\ dest[t] \in Tasks
    /\ pc[t] \in Sending \cup {"set tail", "load up"} => n[t] \in Payloads
    /\ pc[t] = "claim" => msg[t] \notin msg_used
    /\ pc[t] \in Sending \ {"claim"} =>
          /\ msg[t] \in msg_used \ InQueues(q)
          /\ msg_next[msg[t]] = Null
    /\ pc[t] \in Filling => msg_data[msg[t]] = n[t]
    /\ pc[t] \in Linking =>
          BoxesOf(dest[t]) # {} /\ box[t] = First(BoxesOf(dest[t]))
    /\ pc[t] = "link tail" => q[box[t]] # <<>>
    /\ pc[t] = "link head" => q[box[t]] = <<>>
    /\ pc[t] \in Adding => q[box[t]] # <<>> /\ LastOf(q[box[t]]) = msg[t]

ReceiveLocals(q, t) ==
    /\ pc[t] \in {"take", "advance"} \cup Taking => box[t] \in BoxesOf(t)
    /\ pc[t] \in {"idle", "take", "open"} => msg[t] = Null
    /\ pc[t] \in {"take", "advance"} => q[box[t]] # <<>>
    /\ pc[t] = "advance" => msg[t] = q[box[t]][1]
    /\ pc[t] = "clear tail" => q[box[t]] = <<>>
    /\ pc[t] \in Taking \cup {"copy"} =>
          msg[t] \in msg_used \ InQueues(q) /\ msg_data[msg[t]] \in Payloads
    /\ pc[t] = "open" =>
          box[t] \in Boxes \ box_used /\ box[t] = First(Boxes \ box_used)

Inv(q) ==
    /\ TypeOK /\ Alone
    /\ Lists(q) /\ Apart(q) /\ Tails(q) /\ Counts(q) /\ Owners(q)
    /\ PoolOK(q) /\ Written(q) /\ Accounted(q)
    /\ \A t \in Tasks : SendLocals(q, t) /\ ReceiveLocals(q, t)

IPCInv == \E q \in QueueType : Inv(q)

-----------------------------------------------------------------------------
(* The same invariant seen by a task that runs: all others are idle.       *)
TailsFor(q, t) == \A b \in Boxes :
    ~Working(t, {"set tail", "clear tail"}, b) => tail[b] = LastOf(q[b])

CountsFor(q, t) ==
    /\ \A b \in Boxes :
          ~Working(t, Adding \cup Taking, b) => count[b] = Len(q[b])
    /\ pc[t] \in Adding => count[box[t]] = Len(q[box[t]]) - 1
    /\ pc[t] \in Taking => count[box[t]] = Len(q[box[t]]) + 1
    /\ pc[t] \in {"store up", "store down"} => n[t] = count[box[t]]

PoolFor(q, t) ==
    /\ InQueues(q) \subseteq msg_used
    /\ msg_used \subseteq InQueues(q) \cup Held(t)

AccountedFor(q, t) ==
    \A p \in sent :
        \/ p \in received
        \/ \E m \in InQueues(q) : msg_data[m] = p
        \/ Delivering(t) /\ msg_data[msg[t]] = p

Others(t) == \A u \in Tasks \ {t} : pc[u] = "idle" /\ msg[u] = Null

InvFor(q, t) ==
    /\ TypeOK /\ Others(t)
    /\ Lists(q) /\ Apart(q) /\ Owners(q)
    /\ TailsFor(q, t) /\ CountsFor(q, t)
    /\ PoolFor(q, t) /\ Written(q) /\ AccountedFor(q, t)
    /\ SendLocals(q, t) /\ ReceiveLocals(q, t)

(* What the calls hold is what the task that runs holds.                   *)
LEMMA HeldFor ==
    ASSUME NEW t \in Tasks, Others(t)
    PROVE  UNION {Held(u) : u \in Tasks} = Held(t)
  BY DEF Others, Held

(* When the other tasks hold nothing, what is held is what t holds.        *)
LEMMA HeldForNext ==
    ASSUME NEW t \in Tasks, Others(t)'
    PROVE  (UNION {Held(u) : u \in Tasks})' = Held(t)'
  BY DEF Others, Held

(* A task that runs sees the invariant, and what it leaves is one.         *)
LEMMA InvForRunner ==
    ASSUME ~Preemptive, NEW q, Inv(q), NEW t \in Tasks, Runs(t)
    PROVE  InvFor(q, t)
<1>1. Others(t)
  BY DEF Runs, Others, Inv, ReceiveLocals
<1>2. UNION {Held(u) : u \in Tasks} = Held(t)
  BY <1>1, HeldFor
<1>3. PoolFor(q, t)
  BY <1>2 DEF Inv, PoolOK, PoolFor
<1>4. AccountedFor(q, t)
  BY <1>1 DEF Inv, Accounted, AccountedFor, Delivering, Others, Taking
<1>5. \A u \in Tasks, b \in Boxes,
         points \in {{"set tail", "clear tail"}, Adding \cup Taking} :
          u # t => ~Working(u, points, b)
  BY <1>1 DEF Others, Working, Adding, Taking
<1>6. TailsFor(q, t)
  BY <1>5 DEF Inv, Tails, TailsFor
<1>7. CountsFor(q, t)
  BY <1>5 DEF Inv, Counts, CountsFor
<1>8. QED
  BY <1>1, <1>3, <1>4, <1>6, <1>7 DEF Inv, InvFor

(* The invariant of a state in which t runs is an invariant of the state.  *)
LEMMA InvAfterRunner ==
    ASSUME NEW q, NEW t \in Tasks, InvFor(q, t)'
    PROVE  Inv(q)'
<1>1. Others(t)' /\ TypeOK'
  BY DEF InvFor
<1>2. (UNION {Held(u) : u \in Tasks})' = Held(t)'
  BY <1>1, HeldForNext
<1>3. PoolOK(q)'
  BY <1>2 DEF InvFor, PoolOK, PoolFor
<1>4. Accounted(q)'
  BY DEF InvFor, Accounted, AccountedFor
<1>5. Tails(q)'
  BY DEF InvFor, Tails, TailsFor
<1>6. Counts(q)'
  <2>1. ASSUME NEW u \in Tasks, u # t PROVE pc'[u] \notin Adding \cup Taking
    <3>1. pc'[u] = "idle"
      BY <1>1, <2>1 DEF Others
    <3>2. QED
      BY <3>1 DEF Adding, Taking
  <2>2. QED
    BY <2>1 DEF InvFor, Counts, CountsFor, Adding, Taking
<1>7. Alone'
  BY <1>1 DEF Others, Alone
<1>8. ASSUME NEW u \in Tasks PROVE SendLocals(q, u)' /\ ReceiveLocals(q, u)'
  <2>1. CASE u = t
    BY <2>1 DEF InvFor
  <2>2. CASE u # t
    <3>1. pc'[u] = "idle" /\ msg'[u] = Null
      BY <1>1, <2>2 DEF Others, InvFor
    <3>2. QED
      BY <3>1 DEF SendLocals, ReceiveLocals, Sending, Adding, Filling,
                  Linking, Taking
  <2>3. QED
    BY <2>1, <2>2
<1>9. QED
  BY <1>1, <1>3, <1>4, <1>5, <1>6, <1>7, <1>8 DEF Inv, InvFor

-----------------------------------------------------------------------------
(* First, and a message put at the end of one queue or taken from its head.*)

(* Every set of numbers that is not empty has a least one.                 *)
LEMMA LeastOne ==
    ASSUME NEW S \in SUBSET Nat, S # {}
    PROVE  \E x \in S : \A y \in S : x <= y
<1> DEFINE less == {p \in Nat \X Nat : p[1] < p[2]}
<1>1. IsWellFoundedOn(less, Nat)
  BY NatLessThanWellFounded DEF OpToRel
<1> HIDE DEF less
<1>2. PICK x \in S : \A y \in S : ~(<<y, x>> \in less)
  BY <1>1, WFMin
<1>3. ASSUME NEW y \in S PROVE x <= y
  <2>1. y < x => <<y, x>> \in less
    BY DEF less
  <2>2. QED
    BY <1>2, <2>1
<1>4. QED
  BY <1>3

(* First is the least number of a set.                                     *)
LEMMA FirstIs ==
    ASSUME NEW S \in SUBSET Nat, S # {}
    PROVE  First(S) \in S /\ \A y \in S : First(S) <= y
  BY LeastOne DEF First

(* And the only such.                                                      *)
LEMMA FirstUnique ==
    ASSUME NEW S \in SUBSET Nat, NEW x \in S, \A y \in S : x <= y
    PROVE  First(S) = x
<1>1. First(S) \in S /\ \A y \in S : First(S) <= y
  BY FirstIs
<1>2. First(S) <= x /\ x <= First(S) /\ First(S) \in Nat /\ x \in Nat
  BY <1>1
<1>3. QED
  BY <1>2

(* A message is in the queues if it has a place in one.                    *)
LEMMA InQueuesIs ==
    ASSUME NEW q \in QueueType, NEW m
    PROVE  m \in InQueues(q) <=>
               \E b \in Boxes : \E i \in 1..Len(q[b]) : q[b][i] = m
  BY DEF InQueues, Elements, QueueType

Added(q, b, m) == [q EXCEPT ![b] = Append(q[b], m)]

(* A message joins the queue of mailbox b.                                 *)
LEMMA QueueAdds ==
    ASSUME NEW q \in QueueType, Apart(q), NEW b \in Boxes,
           NEW m \in Msgs, m \notin InQueues(q),
           NEW r, r = Added(q, b, m)
    PROVE  /\ r \in QueueType /\ Apart(r)
           /\ InQueues(r) = InQueues(q) \cup {m}
           /\ \A a \in Boxes \ {b} : r[a] = q[a]
           /\ Len(r[b]) = Len(q[b]) + 1
           /\ r[b] # <<>> /\ LastOf(r[b]) = m
           /\ \A i \in 1..Len(q[b]) : r[b][i] = q[b][i]
           /\ r[b][Len(q[b]) + 1] = m
<1>1. q[b] \in Seq(Msgs) /\ Len(q[b]) \in Nat
  BY DEF QueueType
<1>2. r[b] = Append(q[b], m) /\ \A a \in Boxes \ {b} : r[a] = q[a]
  BY DEF QueueType, Added
<1>3. r \in QueueType
  BY <1>1, AppendProperties DEF QueueType, Added
<1>4. Len(r[b]) = Len(q[b]) + 1 /\ r[b][Len(q[b]) + 1] = m
  BY <1>1, <1>2, AppendProperties
<1>5. \A i \in 1..Len(q[b]) : r[b][i] = q[b][i]
  BY <1>1, <1>2, AppendProperties
<1>6. r[b] # <<>>
  BY <1>1, <1>2, AppendProperties
<1>7. LastOf(r[b]) = m
  BY <1>4, <1>6 DEF LastOf
<1>8. ASSUME NEW a \in Boxes, NEW i \in 1..Len(r[a])
      PROVE  \/ i \in 1..Len(q[a]) /\ r[a][i] = q[a][i]
             \/ a = b /\ i = Len(q[b]) + 1 /\ r[a][i] = m
  <2>1. CASE a = b
    BY <1>1, <1>4, <1>5, <2>1
  <2>2. CASE a # b
    BY <1>2, <2>2
  <2>3. QED
    BY <2>1, <2>2
<1>9. \A a \in Boxes : \A i \in 1..Len(q[a]) :
          i \in 1..Len(r[a]) /\ r[a][i] = q[a][i]
  BY <1>1, <1>2, <1>4, <1>5
<1>10. \A a \in Boxes : \A i \in 1..Len(q[a]) : q[a][i] # m
  BY InQueuesIs
<1>11. ASSUME NEW a \in Boxes, NEW c \in Boxes, NEW i \in 1..Len(r[a]),
              NEW j \in 1..Len(r[c]), r[a][i] = r[c][j]
       PROVE  a = c /\ i = j
  <2>1. CASE i \in 1..Len(q[a]) /\ r[a][i] = q[a][i]
    <3>1. r[a][i] # m
      BY <1>10, <2>1
    <3>2. j \in 1..Len(q[c]) /\ q[c][j] = r[c][j]
      BY <1>8, <1>11, <3>1
    <3>3. q[a][i] = q[c][j]
      BY <1>11, <2>1, <3>2
    <3>4. QED
      BY <2>1, <3>2, <3>3 DEF Apart
  <2>2. CASE a = b /\ i = Len(q[b]) + 1 /\ r[a][i] = m
    <3>1. r[c][j] = m
      BY <1>11, <2>2
    <3>2. c = b /\ j = Len(q[b]) + 1
      BY <1>8, <1>10, <3>1
    <3>3. QED
      BY <2>2, <3>2
  <2>3. QED
    BY <1>8, <2>1, <2>2
<1>12. Apart(r)
  BY <1>11 DEF Apart
<1>13. Len(q[b]) + 1 \in 1..Len(r[b])
  BY <1>1, <1>4
<1>14. \A x : x \in InQueues(r) <=> x \in InQueues(q) \cup {m}
  <2>1. ASSUME NEW x \in InQueues(r) PROVE x \in InQueues(q) \cup {m}
    <3>1. PICK a \in Boxes : \E i \in 1..Len(r[a]) : r[a][i] = x
      BY <1>3, <2>1, InQueuesIs
    <3>2. PICK i \in 1..Len(r[a]) : r[a][i] = x
      BY <3>1
    <3>3. x = m \/ \E j \in 1..Len(q[a]) : q[a][j] = x
      BY <1>8, <3>2
    <3>4. QED
      BY <3>3, InQueuesIs
  <2>2. ASSUME NEW x \in InQueues(q) PROVE x \in InQueues(r)
    <3>1. PICK a \in Boxes : \E i \in 1..Len(q[a]) : q[a][i] = x
      BY <2>2, InQueuesIs
    <3>2. PICK i \in 1..Len(q[a]) : q[a][i] = x
      BY <3>1
    <3>3. \E j \in 1..Len(r[a]) : r[a][j] = x
      BY <1>9, <3>2
    <3>4. QED
      BY <1>3, <3>3, InQueuesIs
  <2>3. m \in InQueues(r)
    <3>1. \E i \in 1..Len(r[b]) : r[b][i] = m
      BY <1>4, <1>13
    <3>2. QED
      BY <1>3, <3>1, InQueuesIs
  <2>4. QED
    BY <2>1, <2>2, <2>3
<1>15. InQueues(r) = InQueues(q) \cup {m}
  BY <1>14
<1>16. QED
  BY <1>2, <1>3, <1>4, <1>5, <1>6, <1>7, <1>12, <1>15

Shortened(q, b) == [q EXCEPT ![b] = Tail(q[b])]

(* The first message leaves the queue of mailbox b.                        *)
LEMMA QueueFalls ==
    ASSUME NEW q \in QueueType, Apart(q), NEW b \in Boxes, q[b] # <<>>,
           NEW r, r = Shortened(q, b)
    PROVE  /\ r \in QueueType /\ Apart(r)
           /\ InQueues(r) = InQueues(q) \ {q[b][1]}
           /\ \A a \in Boxes \ {b} : r[a] = q[a]
           /\ Len(r[b]) = Len(q[b]) - 1 /\ Len(q[b]) \in Nat \ {0}
           /\ r[b] = <<>> <=> Len(q[b]) = 1
           /\ \A i \in 1..Len(r[b]) : r[b][i] = q[b][i + 1]
<1>1. q[b] \in Seq(Msgs) /\ Len(q[b]) \in Nat
  BY DEF QueueType
<1>2. r[b] = Tail(q[b]) /\ \A a \in Boxes \ {b} : r[a] = q[a]
  BY DEF QueueType, Shortened
<1>3. Len(q[b]) # 0
  BY <1>1
<1>4. Tail(q[b]) \in Seq(Msgs) /\ Len(Tail(q[b])) = Len(q[b]) - 1
  BY <1>1, <1>3
<1>5. r \in QueueType
  BY <1>4 DEF QueueType, Shortened
<1>6. Len(r[b]) = Len(q[b]) - 1 /\ r[b] \in Seq(Msgs)
  BY <1>2, <1>4
<1>7. \A i \in 1..Len(r[b]) : r[b][i] = q[b][i + 1]
  <2>1. \A i \in 1..Len(Tail(q[b])) : Tail(q[b])[i] = q[b][i + 1]
    BY <1>1, HeadTailProperties
  <2>2. QED
    BY <1>2, <2>1
<1>8. r[b] = <<>> <=> Len(q[b]) = 1
  <2>1. r[b] = <<>> <=> Len(r[b]) = 0
    BY <1>6, EmptySeq
  <2>2. QED
    BY <1>1, <1>6, <2>1
<1>9. ASSUME NEW a \in Boxes, NEW i \in 1..Len(r[a])
      PROVE  \/ a # b /\ i \in 1..Len(q[a]) /\ r[a][i] = q[a][i]
             \/ a = b /\ i + 1 \in 2..Len(q[b]) /\ r[a][i] = q[b][i + 1]
  <2>1. CASE a = b
    BY <1>1, <1>3, <1>6, <1>7, <2>1
  <2>2. CASE a # b
    BY <1>2, <2>2
  <2>3. QED
    BY <2>1, <2>2
<1>10. 1 \in 1..Len(q[b]) /\ \A i \in 2..Len(q[b]) : i \in 1..Len(q[b]) /\ i # 1
  BY <1>1, <1>3
<1>11. ASSUME NEW a \in Boxes, NEW c \in Boxes, NEW i \in 1..Len(r[a]),
              NEW j \in 1..Len(r[c]), r[a][i] = r[c][j]
       PROVE  a = c /\ i = j
  <2>1. CASE a = b /\ c = b
    <3>1. /\ i + 1 \in 1..Len(q[b]) /\ r[a][i] = q[b][i + 1]
          /\ j + 1 \in 1..Len(q[b]) /\ r[c][j] = q[b][j + 1]
      <4>1. i + 1 \in 2..Len(q[b]) /\ r[a][i] = q[b][i + 1]
        BY <1>9, <2>1
      <4>2. j + 1 \in 2..Len(q[b]) /\ r[c][j] = q[b][j + 1]
        BY <1>9, <2>1
      <4>3. QED
        BY <1>10, <4>1, <4>2
    <3>2. i + 1 = j + 1
      <4>1. q[b][i + 1] = q[b][j + 1]
        BY <1>11, <3>1
      <4>2. QED
        BY <3>1, <4>1 DEF Apart
    <3>3. i \in Nat /\ j \in Nat
      BY <1>6, <2>1
    <3>4. QED
      BY <2>1, <3>2, <3>3
  <2>2. CASE ~(a = b /\ c = b)
    BY <1>9, <1>10, <1>11, <2>2 DEF Apart
  <2>3. QED
    BY <2>1, <2>2
<1>12. Apart(r)
  BY <1>11 DEF Apart
<1>13. ASSUME NEW a \in Boxes, NEW i \in 1..Len(q[a])
       PROVE  \/ a = b /\ i = 1
              \/ a = b /\ i - 1 \in 1..Len(r[b]) /\ r[b][i - 1] = q[b][i]
              \/ a # b /\ i \in 1..Len(r[a]) /\ r[a][i] = q[a][i]
  <2>1. CASE a = b /\ i # 1
    <3>1. i - 1 \in 1..Len(r[b]) /\ (i - 1) + 1 = i
      BY <1>1, <1>6, <2>1
    <3>2. QED
      BY <1>7, <2>1, <3>1
  <2>2. CASE a # b
    BY <1>2, <2>2
  <2>3. QED
    BY <2>1, <2>2
<1>14. \A x : x \in InQueues(r) <=> x \in InQueues(q) \ {q[b][1]}
  <2>1. ASSUME NEW x \in InQueues(r) PROVE x \in InQueues(q) \ {q[b][1]}
    <3>1. PICK a \in Boxes : \E i \in 1..Len(r[a]) : r[a][i] = x
      BY <1>5, <2>1, InQueuesIs
    <3>2. PICK i \in 1..Len(r[a]) : r[a][i] = x
      BY <3>1
    <3>3. \E j \in 1..Len(q[a]) : q[a][j] = x /\ (a # b \/ j # 1)
      BY <1>9, <1>10, <3>2
    <3>4. QED
      BY <1>10, <3>3, InQueuesIs DEF Apart
  <2>2. ASSUME NEW x \in InQueues(q) \ {q[b][1]} PROVE x \in InQueues(r)
    <3>1. PICK a \in Boxes : \E i \in 1..Len(q[a]) : q[a][i] = x
      BY <2>2, InQueuesIs
    <3>2. PICK i \in 1..Len(q[a]) : q[a][i] = x
      BY <3>1
    <3>3. ~(a = b /\ i = 1)
      BY <2>2, <3>2
    <3>4. \E j \in 1..Len(r[a]) : r[a][j] = x
      BY <1>13, <3>2, <3>3
    <3>5. QED
      BY <1>5, <3>4, InQueuesIs
  <2>3. QED
    BY <2>1, <2>2
<1>15. InQueues(r) = InQueues(q) \ {q[b][1]}
  BY <1>14
<1>16. QED
  BY <1>1, <1>2, <1>3, <1>5, <1>6, <1>7, <1>8, <1>12, <1>15

-----------------------------------------------------------------------------
(* Where a call works.                                                     *)

(* The mailboxes of a task, and the first of them.                         *)
LEMMA BoxesAreNumbers ==
    ASSUME TypeOK, NEW u
    PROVE  /\ BoxesOf(u) \in SUBSET Boxes /\ BoxesOf(u) \in SUBSET Nat
           /\ BoxesOf(u) # {} => /\ First(BoxesOf(u)) \in BoxesOf(u)
                                 /\ \A b \in BoxesOf(u) : First(BoxesOf(u)) <= b
<1>1. BoxesOf(u) \in SUBSET Boxes
  BY DEF TypeOK, BoxesOf
<1>2. BoxesOf(u) \in SUBSET Nat
  BY <1>1 DEF Boxes
<1>3. QED
  BY <1>1, <1>2, FirstIs

(* The mailbox a sender works on is its receiver's first.                  *)
LEMMA SenderAt ==
    ASSUME NEW q, NEW t \in Tasks, InvFor(q, t), pc[t] \in Linking
    PROVE  /\ box[t] \in BoxesOf(dest[t]) /\ box[t] \in Boxes
           /\ box[t] \in box_used
           /\ box[t] = First(BoxesOf(dest[t])) /\ owner_pid[box[t]] = dest[t]
<1>1. TypeOK
  BY DEF InvFor
<1>2. BoxesOf(dest[t]) # {} /\ box[t] = First(BoxesOf(dest[t]))
  BY DEF InvFor, SendLocals
<1>3. box[t] \in BoxesOf(dest[t]) /\ box[t] \in Boxes
  BY <1>1, <1>2, BoxesAreNumbers
<1>4. QED
  BY <1>2, <1>3 DEF BoxesOf

(* A receiver is at a mailbox of its own.                                  *)
LEMMA ReceiverAt ==
    ASSUME NEW q, NEW t \in Tasks, InvFor(q, t),
           pc[t] \in {"take", "advance"} \cup Taking
    PROVE  box[t] \in BoxesOf(t) /\ box[t] \in Boxes /\ box[t] \in box_used
           /\ owner_pid[box[t]] = t
<1>1. box[t] \in BoxesOf(t)
  BY DEF InvFor, ReceiveLocals
<1>2. QED
  BY <1>1, BoxesAreNumbers DEF InvFor, BoxesOf

(* What a receiver has taken off a queue is in no queue, and is claimed.   *)
LEMMA ReceiverHolds ==
    ASSUME NEW q, NEW t \in Tasks, InvFor(q, t), pc[t] \in Taking \cup {"copy"}
    PROVE  msg[t] \in msg_used \ InQueues(q) /\ msg[t] \in Msgs /\ msg[t] # Null
           /\ msg_data[msg[t]] \in Payloads
<1>1. \A m \in Msgs : m # Null
  BY DEF Msgs, Null
<1>2. QED
  BY <1>1 DEF InvFor, ReceiveLocals, TypeOK

(* What a sender has claimed is in no queue, and has no successor.         *)
LEMMA SenderHolds ==
    ASSUME NEW q, NEW t \in Tasks, InvFor(q, t), pc[t] \in Sending \cup Adding
    PROVE  /\ msg[t] \in Msgs /\ msg[t] # Null /\ dest[t] \in Tasks
           /\ pc[t] \notin {"claim"} \cup Adding =>
                 msg[t] \in msg_used \ InQueues(q) /\ msg_next[msg[t]] = Null
           /\ pc[t] # "store up" => n[t] \in Payloads /\ n[t] \in Nat
           /\ pc[t] \in Filling => msg_data[msg[t]] = n[t]
<1>1. pc[t] # "store up" => n[t] \in Payloads
  BY DEF InvFor, SendLocals, Sending, Adding
<1>2. n[t] \in Nat
  BY DEF InvFor, TypeOK
<1>3. \A m \in Msgs : m # Null
  BY DEF Msgs, Null
<1>4. QED
  BY <1>1, <1>2, <1>3 DEF InvFor, SendLocals, Sending, Adding

(* The messages of a mailbox that is not empty.                            *)
LEMMA QueuedAt ==
    ASSUME NEW q \in QueueType, NEW b \in Boxes, q[b] # <<>>, Lists(q)
    PROVE  /\ Len(q[b]) \in Nat \ {0}
           /\ q[b][1] \in Msgs /\ head[b] = q[b][1] /\ q[b][1] \in InQueues(q)
           /\ LastOf(q[b]) \in Msgs /\ LastOf(q[b]) = q[b][Len(q[b])]
           /\ LastOf(q[b]) \in InQueues(q)
<1>1. q[b] \in Seq(Msgs)
  BY DEF QueueType
<1>2. Len(q[b]) \in Nat \ {0}
  BY <1>1, EmptySeq
<1>3. 1 \in 1..Len(q[b]) /\ Len(q[b]) \in 1..Len(q[b])
  BY <1>2
<1>4. LastOf(q[b]) = q[b][Len(q[b])]
  BY DEF LastOf
<1>5. q[b][1] \in Msgs /\ LastOf(q[b]) \in Msgs
  BY <1>1, <1>3, <1>4, ElementOfSeq
<1>6. q[b][1] \in InQueues(q) /\ LastOf(q[b]) \in InQueues(q)
  BY <1>3, <1>4, InQueuesIs
<1>7. head[b] = q[b][1]
  BY DEF Lists, IsList
<1>8. QED
  BY <1>2, <1>4, <1>5, <1>6, <1>7

(* The lists stay while head and the links of queued messages do.          *)
LEMMA ListsStay ==
    ASSUME NEW q \in QueueType, Lists(q), head' = head,
           \A m \in InQueues(q) : msg_next'[m] = msg_next[m]
    PROVE  Lists(q)'
<1>1. ASSUME NEW b \in Boxes, NEW i \in 1..Len(q[b])
      PROVE  msg_next'[q[b][i]] = msg_next[q[b][i]]
  <2>1. q[b][i] \in InQueues(q)
    BY InQueuesIs
  <2>2. QED
    BY <2>1
<1>2. \A b \in Boxes : IsList(msg_next, head[b], q[b])
  BY DEF Lists
<1>3. \A b \in Boxes : IsList(msg_next', head'[b], q[b])
  BY <1>1, <1>2 DEF IsList
<1>4. QED
  BY <1>3 DEF Lists

-----------------------------------------------------------------------------
(* Each step of a call keeps the invariant.                                *)

(* The others stay where they are.                                         *)
LEMMA Moves ==
    ASSUME NEW t \in Tasks, TypeOK, Others(t), NEW p \in Points, Goto(t, p),
           NEW m, msg' = [msg EXCEPT ![t] = m]
    PROVE  pc'[t] = p /\ pc' \in [Tasks -> Points] /\ Others(t)'
  BY DEF TypeOK, Goto, Others

(* ipc_send claims the first free slot of the pool.                        *)
LEMMA SendClaimKeeps ==
    ASSUME NEW q \in QueueType, NEW t \in Tasks, InvFor(q, t), SendClaim(t)
    PROVE  InvFor(q, t)'
<1>1. TypeOK /\ Others(t) /\ pc[t] = "claim"
  BY DEF InvFor, SendClaim, At
<1>2. /\ msg[t] \in Msgs /\ msg[t] # Null /\ dest[t] \in Tasks
      /\ n[t] \in Payloads /\ n[t] \in Nat
  BY <1>1, SenderHolds DEF Sending, Adding, Filling
<1>3. msg[t] \notin InQueues(q)
  BY <1>1 DEF InvFor, PoolFor, SendLocals
<1>4. msg' = [msg EXCEPT ![t] = msg[t]]
  BY <1>1 DEF TypeOK, SendClaim, At, locals
<1>5. (pc'[t] = "fill") /\ pc' \in [Tasks -> Points] /\ Others(t)'
  BY <1>1, <1>4, Moves DEF SendClaim, At, Points
<1>6. \A m \in InQueues(q) : msg_next'[m] = msg_next[m]
  BY <1>1, <1>2, <1>3, <1>5 DEF TypeOK, SendClaim, At
<1>7. TypeOK'
  BY <1>1, <1>2, <1>3, <1>5
  DEF TypeOK, SendClaim, At, pool, boxes, locals, history
<1>8. Lists(q)' /\ Apart(q)'
  BY <1>6, ListsStay DEF InvFor, SendClaim, At, boxes, Apart
<1>9. Owners(q)'
  BY <1>1, <1>2, <1>3, <1>5 DEF InvFor, Owners, BoxesOf, SendClaim, At, boxes
<1>10. TailsFor(q, t)'
  BY <1>1, <1>2, <1>3, <1>5
  DEF InvFor, TailsFor, Working, TypeOK, SendClaim, At, boxes, locals, LastOf
<1>11. CountsFor(q, t)'
  BY <1>1, <1>2, <1>3, <1>5
  DEF InvFor, CountsFor, Working, TypeOK, SendClaim, At, boxes, locals, Adding,
      Taking
<1>12. PoolFor(q, t)'
  BY <1>1, <1>2, <1>3, <1>5
  DEF InvFor, PoolFor, Held, TypeOK, SendClaim, At, pool, locals
<1>13. AccountedFor(q, t)'
  BY <1>1, <1>2, <1>3, <1>5
  DEF InvFor, AccountedFor, Delivering, TypeOK, SendClaim, At, pool, locals,
      history, Taking
<1>14. Written(q)'
  BY <1>1, <1>2, <1>3, <1>5 DEF InvFor, Written, SendClaim, At, pool
<1>15. SendLocals(q, t)'
  BY <1>1, <1>2, <1>3, <1>5
  DEF InvFor, SendLocals, TypeOK, BoxesOf, SendClaim, At, pool, boxes, locals,
      Sending, Adding, Filling, Linking, Taking
<1>16. ReceiveLocals(q, t)'
  BY <1>1, <1>2, <1>3, <1>5, <1>4
  DEF InvFor, ReceiveLocals, TypeOK, BoxesOf, SendClaim, At, pool, boxes,
      locals, Taking
<1>17. QED
  BY <1>5, <1>7, <1>8, <1>9, <1>10, <1>11, <1>12, <1>13, <1>14, <1>15, <1>16
  DEF InvFor

(* It stores the payload.                                                  *)
LEMMA SendFillKeeps ==
    ASSUME NEW q \in QueueType, NEW t \in Tasks, InvFor(q, t), SendFill(t)
    PROVE  InvFor(q, t)'
<1>1. TypeOK /\ Others(t) /\ pc[t] = "fill"
  BY DEF InvFor, SendFill, At
<1>2. /\ msg[t] \in Msgs /\ msg[t] # Null /\ dest[t] \in Tasks
      /\ n[t] \in Payloads /\ n[t] \in Nat
      /\ msg[t] \in msg_used \ InQueues(q) /\ msg_next[msg[t]] = Null
  BY <1>1, SenderHolds DEF Sending, Adding, Filling
<1>3. msg' = [msg EXCEPT ![t] = msg[t]]
  BY <1>1 DEF TypeOK, SendFill, At, locals
<1>4. (pc'[t] = "lookup") /\ pc' \in [Tasks -> Points] /\ Others(t)'
  BY <1>1, <1>3, Moves DEF SendFill, At, Points
<1>5. msg_next' = msg_next
  BY <1>1, <1>2, <1>4 DEF SendFill, At, pool
<1>6. TypeOK'
  BY <1>1, <1>2, <1>4 DEF TypeOK, SendFill, At, pool, boxes, locals, history
<1>7. Lists(q)' /\ Apart(q)'
  BY <1>5, ListsStay DEF InvFor, SendFill, At, boxes, Apart
<1>8. Owners(q)'
  BY <1>1, <1>2, <1>4 DEF InvFor, Owners, BoxesOf, SendFill, At, boxes
<1>9. TailsFor(q, t)'
  BY <1>1, <1>2, <1>4
  DEF InvFor, TailsFor, Working, TypeOK, SendFill, At, boxes, locals, LastOf
<1>10. CountsFor(q, t)'
  BY <1>1, <1>2, <1>4
  DEF InvFor, CountsFor, Working, TypeOK, SendFill, At, boxes, locals, Adding,
      Taking
<1>11. PoolFor(q, t)'
  BY <1>1, <1>2, <1>4
  DEF InvFor, PoolFor, Held, TypeOK, SendFill, At, pool, locals
<1>12. AccountedFor(q, t)'
  BY <1>1, <1>2, <1>4
  DEF InvFor, AccountedFor, Delivering, TypeOK, SendFill, At, pool, locals,
      history, Taking
<1>13. Written(q)'
  BY <1>1, <1>2, <1>4 DEF InvFor, Written, SendFill, At, pool
<1>14. SendLocals(q, t)'
  BY <1>1, <1>2, <1>4
  DEF InvFor, SendLocals, TypeOK, BoxesOf, SendFill, At, pool, boxes, locals,
      Sending, Adding, Filling, Linking, Taking
<1>15. ReceiveLocals(q, t)'
  BY <1>1, <1>2, <1>4, <1>3
  DEF InvFor, ReceiveLocals, TypeOK, BoxesOf, SendFill, At, pool, boxes,
      locals, Taking
<1>16. QED
  BY <1>4, <1>6, <1>7, <1>8, <1>9, <1>10, <1>11, <1>12, <1>13, <1>14, <1>15
  DEF InvFor

(* It looks for a mailbox of the receiver.                                 *)
LEMMA SendLookupKeeps ==
    ASSUME NEW q \in QueueType, NEW t \in Tasks, InvFor(q, t), SendLookup(t)
    PROVE  InvFor(q, t)'
<1>1. TypeOK /\ Others(t) /\ pc[t] = "lookup"
  BY DEF InvFor, SendLookup, At
<1>2. /\ msg[t] \in Msgs /\ msg[t] # Null /\ dest[t] \in Tasks
      /\ n[t] \in Payloads /\ n[t] \in Nat
      /\ msg[t] \in msg_used \ InQueues(q) /\ msg_next[msg[t]] = Null
      /\ msg_data[msg[t]] = n[t]
  BY <1>1, SenderHolds DEF Sending, Adding, Filling
<1>3. First(BoxesOf(dest[t])) \in Boxes
  BY <1>1, BoxesAreNumbers DEF SendLookup
<1>4. msg' = [msg EXCEPT ![t] = msg[t]]
  BY <1>1 DEF TypeOK, SendLookup, At, locals
<1>5. (pc'[t] = "link") /\ pc' \in [Tasks -> Points] /\ Others(t)'
  BY <1>1, <1>4, Moves DEF SendLookup, At, Points
<1>6. \A m \in InQueues(q) : msg_next'[m] = msg_next[m]
  BY <1>1, <1>2, <1>3, <1>5 DEF TypeOK, SendLookup, At
<1>7. TypeOK'
  BY <1>1, <1>2, <1>3, <1>5
  DEF TypeOK, SendLookup, At, pool, boxes, locals, history
<1>8. Lists(q)' /\ Apart(q)'
  BY <1>6, ListsStay DEF InvFor, SendLookup, At, boxes, Apart
<1>9. Owners(q)'
  BY <1>1, <1>2, <1>3, <1>5 DEF InvFor, Owners, BoxesOf, SendLookup, At, boxes
<1>10. TailsFor(q, t)'
  BY <1>1, <1>2, <1>3, <1>5
  DEF InvFor, TailsFor, Working, TypeOK, SendLookup, At, boxes, locals, LastOf
<1>11. CountsFor(q, t)'
  BY <1>1, <1>2, <1>3, <1>5
  DEF InvFor, CountsFor, Working, TypeOK, SendLookup, At, boxes, locals,
      Adding, Taking
<1>12. PoolFor(q, t)'
  BY <1>1, <1>2, <1>3, <1>5
  DEF InvFor, PoolFor, Held, TypeOK, SendLookup, At, pool, locals
<1>13. AccountedFor(q, t)'
  BY <1>1, <1>2, <1>3, <1>5
  DEF InvFor, AccountedFor, Delivering, TypeOK, SendLookup, At, pool, locals,
      history, Taking
<1>14. Written(q)'
  BY <1>1, <1>2, <1>3, <1>5 DEF InvFor, Written, SendLookup, At, pool
<1>15. SendLocals(q, t)'
  BY <1>1, <1>2, <1>3, <1>5
  DEF InvFor, SendLocals, TypeOK, BoxesOf, SendLookup, At, pool, boxes, locals,
      Sending, Adding, Filling, Linking, Taking
<1>16. ReceiveLocals(q, t)'
  BY <1>1, <1>2, <1>3, <1>5, <1>4
  DEF InvFor, ReceiveLocals, TypeOK, BoxesOf, SendLookup, At, pool, boxes,
      locals, Taking
<1>17. QED
  BY <1>5, <1>7, <1>8, <1>9, <1>10, <1>11, <1>12, <1>13, <1>14, <1>15, <1>16
  DEF InvFor

(* There is none: it gives the slot back.                                  *)
LEMMA SendNoMailboxKeeps ==
    ASSUME NEW q \in QueueType, NEW t \in Tasks, InvFor(q, t), SendNoMailbox(t)
    PROVE  InvFor(q, t)'
<1>1. TypeOK /\ Others(t) /\ pc[t] = "lookup"
  BY DEF InvFor, SendNoMailbox, At
<1>2. /\ msg[t] \in Msgs /\ msg[t] # Null /\ dest[t] \in Tasks
      /\ n[t] \in Payloads /\ n[t] \in Nat
      /\ msg[t] \in msg_used \ InQueues(q) /\ msg_next[msg[t]] = Null
      /\ msg_data[msg[t]] = n[t]
  BY <1>1, SenderHolds DEF Sending, Adding, Filling
<1>3. msg' = [msg EXCEPT ![t] = Null]
  BY <1>1 DEF TypeOK, SendNoMailbox, At, FreeMessage, Return, locals
<1>4. (pc'[t] = "idle") /\ pc' \in [Tasks -> Points] /\ Others(t)'
  BY <1>1, <1>3, Moves DEF SendNoMailbox, At, FreeMessage, Return, Points
<1>5. \A m \in InQueues(q) : msg_next'[m] = msg_next[m]
  BY <1>1, <1>2, <1>4 DEF TypeOK, SendNoMailbox, At, FreeMessage, Return
<1>6. TypeOK'
  BY <1>1, <1>2, <1>4
  DEF TypeOK, SendNoMailbox, At, FreeMessage, Return, pool, boxes, locals,
      history
<1>7. Lists(q)' /\ Apart(q)'
  BY <1>5, ListsStay
  DEF InvFor, SendNoMailbox, At, FreeMessage, Return, boxes, Apart
<1>8. Owners(q)'
  BY <1>1, <1>2, <1>4
  DEF InvFor, Owners, BoxesOf, SendNoMailbox, At, FreeMessage, Return, boxes
<1>9. TailsFor(q, t)'
  BY <1>1, <1>2, <1>4
  DEF InvFor, TailsFor, Working, TypeOK, SendNoMailbox, At, FreeMessage,
      Return, boxes, locals, LastOf
<1>10. CountsFor(q, t)'
  BY <1>1, <1>2, <1>4
  DEF InvFor, CountsFor, Working, TypeOK, SendNoMailbox, At, FreeMessage,
      Return, boxes, locals, Adding, Taking
<1>11. PoolFor(q, t)'
  BY <1>1, <1>2, <1>4
  DEF InvFor, PoolFor, Held, TypeOK, SendNoMailbox, At, FreeMessage, Return,
      pool, locals
<1>12. AccountedFor(q, t)'
  BY <1>1, <1>2, <1>4
  DEF InvFor, AccountedFor, Delivering, TypeOK, SendNoMailbox, At, FreeMessage,
      Return, pool, locals, history, Taking
<1>13. Written(q)'
  BY <1>1, <1>2, <1>4
  DEF InvFor, Written, SendNoMailbox, At, FreeMessage, Return, pool
<1>14. SendLocals(q, t)'
  BY <1>1, <1>2, <1>4
  DEF InvFor, SendLocals, TypeOK, BoxesOf, SendNoMailbox, At, FreeMessage,
      Return, pool, boxes, locals, Sending, Adding, Filling, Linking, Taking
<1>15. ReceiveLocals(q, t)'
  BY <1>1, <1>2, <1>4, <1>3
  DEF InvFor, ReceiveLocals, TypeOK, BoxesOf, SendNoMailbox, At, FreeMessage,
      Return, pool, boxes, locals, Taking
<1>16. QED
  BY <1>4, <1>6, <1>7, <1>8, <1>9, <1>10, <1>11, <1>12, <1>13, <1>14, <1>15
  DEF InvFor

(* It hangs the message behind the tail, or makes it the head.             *)
LEMMA SendLinkKeeps ==
    ASSUME NEW q \in QueueType, NEW t \in Tasks, InvFor(q, t), SendLink(t)
    PROVE  InvFor(q, t)'
<1>1. TypeOK /\ Others(t) /\ pc[t] = "link"
  BY DEF InvFor, SendLink, At
<1>2. /\ msg[t] \in Msgs /\ msg[t] # Null /\ dest[t] \in Tasks
      /\ n[t] \in Payloads /\ n[t] \in Nat
      /\ msg[t] \in msg_used \ InQueues(q) /\ msg_next[msg[t]] = Null
      /\ msg_data[msg[t]] = n[t]
      /\ box[t] \in BoxesOf(dest[t]) /\ box[t] \in Boxes /\ box[t] \in box_used
      /\ box[t] = First(BoxesOf(dest[t])) /\ owner_pid[box[t]] = dest[t]
  BY <1>1, SenderHolds, SenderAt DEF Sending, Adding, Filling, Linking
<1>3. q[box[t]] = <<>> <=> tail[box[t]] = Null
  <2>1. tail[box[t]] = LastOf(q[box[t]])
    BY <1>1, <1>2 DEF InvFor, TailsFor, Working
  <2>2. q[box[t]] # <<>> => LastOf(q[box[t]]) \in Msgs
    BY <1>2, QueuedAt DEF InvFor
  <2>3. \A m \in Msgs : m # Null
    BY DEF Msgs, Null
  <2>4. QED
    BY <2>1, <2>2, <2>3 DEF LastOf
<1>4. msg' = [msg EXCEPT ![t] = msg[t]]
  BY <1>1 DEF TypeOK, SendLink, At, locals
<1>5. /\ pc'[t] = "link tail" \/ pc'[t] = "link head"
      /\ pc' \in [Tasks -> Points] /\ Others(t)'
  BY <1>1, <1>4, Moves DEF SendLink, At, Points
<1>6. pc'[t] = IF q[box[t]] = <<>> THEN "link head" ELSE "link tail"
  BY <1>1, <1>3 DEF SendLink, Goto, TypeOK
<1>7. msg_next' = msg_next
  BY <1>1, <1>2, <1>3, <1>5 DEF SendLink, At, pool
<1>8. TypeOK'
  BY <1>1, <1>2, <1>3, <1>5
  DEF TypeOK, SendLink, At, pool, boxes, locals, history
<1>9. Lists(q)' /\ Apart(q)'
  BY <1>7, ListsStay DEF InvFor, SendLink, At, boxes, Apart
<1>10. Owners(q)'
  BY <1>1, <1>2, <1>3, <1>5 DEF InvFor, Owners, BoxesOf, SendLink, At, boxes
<1>11. TailsFor(q, t)'
  BY <1>1, <1>2, <1>3, <1>5
  DEF InvFor, TailsFor, Working, TypeOK, SendLink, At, boxes, locals, LastOf
<1>12. CountsFor(q, t)'
  BY <1>1, <1>2, <1>3, <1>5
  DEF InvFor, CountsFor, Working, TypeOK, SendLink, At, boxes, locals, Adding,
      Taking
<1>13. PoolFor(q, t)'
  BY <1>1, <1>2, <1>3, <1>5
  DEF InvFor, PoolFor, Held, TypeOK, SendLink, At, pool, locals
<1>14. AccountedFor(q, t)'
  BY <1>1, <1>2, <1>3, <1>5
  DEF InvFor, AccountedFor, Delivering, TypeOK, SendLink, At, pool, locals,
      history, Taking
<1>15. Written(q)'
  BY <1>1, <1>2, <1>3, <1>5 DEF InvFor, Written, SendLink, At, pool
<1>16. SendLocals(q, t)'
  BY <1>1, <1>2, <1>3, <1>5, <1>6
  DEF InvFor, SendLocals, TypeOK, BoxesOf, SendLink, At, pool, boxes, locals,
      Sending, Adding, Filling, Linking, Taking
<1>17. ReceiveLocals(q, t)'
  BY <1>1, <1>2, <1>3, <1>5, <1>4
  DEF InvFor, ReceiveLocals, TypeOK, BoxesOf, SendLink, At, pool, boxes,
      locals, Taking
<1>18. QED
  BY <1>5, <1>8, <1>9, <1>10, <1>11, <1>12, <1>13, <1>14, <1>15, <1>16, <1>17
  DEF InvFor

(* It makes it the tail: what Added already counts as queued.              *)
LEMMA SendSetTailKeeps ==
    ASSUME NEW q \in QueueType, NEW t \in Tasks, InvFor(q, t), SendSetTail(t)
    PROVE  InvFor(q, t)'
<1>1. TypeOK /\ Others(t) /\ pc[t] = "set tail"
  BY DEF InvFor, SendSetTail, At
<1>2. /\ msg[t] \in Msgs /\ msg[t] # Null /\ dest[t] \in Tasks
      /\ n[t] \in Payloads /\ n[t] \in Nat
      /\ msg_data[msg[t]] = n[t]
      /\ box[t] \in BoxesOf(dest[t]) /\ box[t] \in Boxes /\ box[t] \in box_used
      /\ box[t] = First(BoxesOf(dest[t])) /\ owner_pid[box[t]] = dest[t]
  BY <1>1, SenderHolds, SenderAt DEF Sending, Adding, Filling, Linking
<1>3. q[box[t]] # <<>> /\ LastOf(q[box[t]]) = msg[t]
  BY <1>1 DEF InvFor, SendLocals, Adding
<1>4. msg' = [msg EXCEPT ![t] = msg[t]]
  BY <1>1 DEF TypeOK, SendSetTail, At, locals
<1>5. (pc'[t] = "load up") /\ pc' \in [Tasks -> Points] /\ Others(t)'
  BY <1>1, <1>4, Moves DEF SendSetTail, At, Points
<1>6. msg_next' = msg_next
  BY <1>1, <1>2, <1>3, <1>5 DEF SendSetTail, At, pool
<1>7. TypeOK'
  BY <1>1, <1>2, <1>3, <1>5
  DEF TypeOK, SendSetTail, At, pool, boxes, locals, history
<1>8. Lists(q)' /\ Apart(q)'
  BY <1>6, ListsStay DEF InvFor, SendSetTail, At, boxes, Apart
<1>9. Owners(q)'
  BY <1>1, <1>2, <1>3, <1>5 DEF InvFor, Owners, BoxesOf, SendSetTail, At, boxes
<1>10. TailsFor(q, t)'
  BY <1>1, <1>2, <1>3, <1>5
  DEF InvFor, TailsFor, Working, TypeOK, SendSetTail, At, boxes, locals, LastOf
<1>11. CountsFor(q, t)'
  BY <1>1, <1>2, <1>3, <1>5
  DEF InvFor, CountsFor, Working, TypeOK, SendSetTail, At, boxes, locals,
      Adding, Taking
<1>12. PoolFor(q, t)'
  BY <1>1, <1>2, <1>3, <1>5
  DEF InvFor, PoolFor, Held, TypeOK, SendSetTail, At, pool, locals
<1>13. AccountedFor(q, t)'
  BY <1>1, <1>2, <1>3, <1>5
  DEF InvFor, AccountedFor, Delivering, TypeOK, SendSetTail, At, pool, locals,
      history, Taking
<1>14. Written(q)'
  BY <1>1, <1>2, <1>3, <1>5 DEF InvFor, Written, SendSetTail, At, pool
<1>15. SendLocals(q, t)'
  BY <1>1, <1>2, <1>3, <1>5
  DEF InvFor, SendLocals, TypeOK, BoxesOf, SendSetTail, At, pool, boxes,
      locals, Sending, Adding, Filling, Linking, Taking
<1>16. ReceiveLocals(q, t)'
  BY <1>1, <1>2, <1>3, <1>5, <1>4
  DEF InvFor, ReceiveLocals, TypeOK, BoxesOf, SendSetTail, At, pool, boxes,
      locals, Taking
<1>17. QED
  BY <1>5, <1>7, <1>8, <1>9, <1>10, <1>11, <1>12, <1>13, <1>14, <1>15, <1>16
  DEF InvFor

(* It loads the count.                                                     *)
LEMMA SendLoadKeeps ==
    ASSUME NEW q \in QueueType, NEW t \in Tasks, InvFor(q, t), SendLoad(t)
    PROVE  InvFor(q, t)'
<1>1. TypeOK /\ Others(t) /\ pc[t] = "load up"
  BY DEF InvFor, SendLoad, At
<1>2. /\ msg[t] \in Msgs /\ msg[t] # Null /\ dest[t] \in Tasks
      /\ n[t] \in Payloads /\ n[t] \in Nat
      /\ msg_data[msg[t]] = n[t]
      /\ box[t] \in BoxesOf(dest[t]) /\ box[t] \in Boxes /\ box[t] \in box_used
      /\ box[t] = First(BoxesOf(dest[t])) /\ owner_pid[box[t]] = dest[t]
  BY <1>1, SenderHolds, SenderAt DEF Sending, Adding, Filling, Linking
<1>3. q[box[t]] # <<>> /\ LastOf(q[box[t]]) = msg[t]
  BY <1>1 DEF InvFor, SendLocals, Adding
<1>4. msg[t] \in InQueues(q) /\ count[box[t]] \in Nat
  BY <1>1, <1>2, <1>3, QueuedAt DEF InvFor, TypeOK
<1>5. msg' = [msg EXCEPT ![t] = msg[t]]
  BY <1>1 DEF TypeOK, SendLoad, At, locals
<1>6. (pc'[t] = "store up") /\ pc' \in [Tasks -> Points] /\ Others(t)'
  BY <1>1, <1>5, Moves DEF SendLoad, At, Points
<1>7. msg_next' = msg_next
  BY <1>1, <1>2, <1>3, <1>4, <1>6 DEF SendLoad, At, pool
<1>8. TypeOK'
  BY <1>1, <1>2, <1>3, <1>4, <1>6
  DEF TypeOK, SendLoad, At, pool, boxes, locals, history
<1>9. Lists(q)' /\ Apart(q)'
  BY <1>7, ListsStay DEF InvFor, SendLoad, At, boxes, Apart
<1>10. Owners(q)'
  BY <1>1, <1>2, <1>3, <1>4, <1>6
  DEF InvFor, Owners, BoxesOf, SendLoad, At, boxes
<1>11. TailsFor(q, t)'
  BY <1>1, <1>2, <1>3, <1>4, <1>6
  DEF InvFor, TailsFor, Working, TypeOK, SendLoad, At, boxes, locals, LastOf
<1>12. CountsFor(q, t)'
  BY <1>1, <1>2, <1>3, <1>4, <1>6
  DEF InvFor, CountsFor, Working, TypeOK, SendLoad, At, boxes, locals, Adding,
      Taking
<1>13. PoolFor(q, t)'
  BY <1>1, <1>2, <1>3, <1>4, <1>6
  DEF InvFor, PoolFor, Held, TypeOK, SendLoad, At, pool, locals
<1>14. AccountedFor(q, t)'
  BY <1>1, <1>2, <1>3, <1>4, <1>6
  DEF InvFor, AccountedFor, Delivering, TypeOK, SendLoad, At, pool, locals,
      history, Taking
<1>15. Written(q)'
  BY <1>1, <1>2, <1>3, <1>4, <1>6 DEF InvFor, Written, SendLoad, At, pool
<1>16. SendLocals(q, t)'
  BY <1>1, <1>2, <1>3, <1>4, <1>6
  DEF InvFor, SendLocals, TypeOK, BoxesOf, SendLoad, At, pool, boxes, locals,
      Sending, Adding, Filling, Linking, Taking
<1>17. ReceiveLocals(q, t)'
  BY <1>1, <1>2, <1>3, <1>4, <1>6, <1>5
  DEF InvFor, ReceiveLocals, TypeOK, BoxesOf, SendLoad, At, pool, boxes,
      locals, Taking
<1>18. QED
  BY <1>6, <1>8, <1>9, <1>10, <1>11, <1>12, <1>13, <1>14, <1>15, <1>16, <1>17
  DEF InvFor

(* It stores the count, one higher.                                        *)
LEMMA SendStoreKeeps ==
    ASSUME NEW q \in QueueType, NEW t \in Tasks, InvFor(q, t), SendStore(t)
    PROVE  InvFor(q, t)'
<1>1. TypeOK /\ Others(t) /\ pc[t] = "store up"
  BY DEF InvFor, SendStore, At
<1>2. /\ msg[t] \in Msgs /\ msg[t] # Null /\ dest[t] \in Tasks
      /\ box[t] \in BoxesOf(dest[t]) /\ box[t] \in Boxes /\ box[t] \in box_used
      /\ box[t] = First(BoxesOf(dest[t])) /\ owner_pid[box[t]] = dest[t]
  BY <1>1, SenderHolds, SenderAt DEF Sending, Adding, Filling, Linking
<1>3. q[box[t]] # <<>> /\ LastOf(q[box[t]]) = msg[t]
  BY <1>1 DEF InvFor, SendLocals, Adding
<1>4. msg[t] \in InQueues(q) /\ Len(q[box[t]]) \in Nat \ {0}
  BY <1>1, <1>2, <1>3, QueuedAt DEF InvFor
<1>5. n[t] = Len(q[box[t]]) - 1 /\ n[t] \in Nat /\ n[t] + 1 = Len(q[box[t]])
  <2>1. n[t] = count[box[t]]
    BY <1>1 DEF InvFor, CountsFor
  <2>2. count[box[t]] = Len(q[box[t]]) - 1
    BY <1>1 DEF InvFor, CountsFor, Adding
  <2>3. QED
    BY <1>4, <2>1, <2>2
<1>6. msg' = [msg EXCEPT ![t] = Null]
  BY <1>1 DEF TypeOK, SendStore, At, Return, locals
<1>7. (pc'[t] = "idle") /\ pc' \in [Tasks -> Points] /\ Others(t)'
  BY <1>1, <1>6, Moves DEF SendStore, At, Return, Points
<1>8. msg_next' = msg_next
  BY <1>1, <1>2, <1>3, <1>4, <1>5, <1>7 DEF SendStore, At, Return, pool
<1>9. TypeOK'
  BY <1>1, <1>2, <1>3, <1>4, <1>5, <1>7
  DEF TypeOK, SendStore, At, Return, pool, boxes, locals, history
<1>10. Lists(q)' /\ Apart(q)'
  BY <1>8, ListsStay DEF InvFor, SendStore, At, Return, boxes, Apart
<1>11. Owners(q)'
  BY <1>1, <1>2, <1>3, <1>4, <1>5, <1>7
  DEF InvFor, Owners, BoxesOf, SendStore, At, Return, boxes
<1>12. TailsFor(q, t)'
  BY <1>1, <1>2, <1>3, <1>4, <1>5, <1>7
  DEF InvFor, TailsFor, Working, TypeOK, SendStore, At, Return, boxes, locals,
      LastOf
<1>13. CountsFor(q, t)'
  BY <1>1, <1>2, <1>3, <1>4, <1>5, <1>7
  DEF InvFor, CountsFor, Working, TypeOK, SendStore, At, Return, boxes, locals,
      Adding, Taking
<1>14. PoolFor(q, t)'
  BY <1>1, <1>2, <1>3, <1>4, <1>5, <1>7
  DEF InvFor, PoolFor, Held, TypeOK, SendStore, At, Return, pool, locals
<1>15. AccountedFor(q, t)'
  BY <1>1, <1>2, <1>3, <1>4, <1>5, <1>7
  DEF InvFor, AccountedFor, Delivering, TypeOK, SendStore, At, Return, pool,
      locals, history, Taking
<1>16. Written(q)'
  BY <1>1, <1>2, <1>3, <1>4, <1>5, <1>7
  DEF InvFor, Written, SendStore, At, Return, pool
<1>17. SendLocals(q, t)'
  BY <1>1, <1>2, <1>3, <1>4, <1>5, <1>7
  DEF InvFor, SendLocals, TypeOK, BoxesOf, SendStore, At, Return, pool, boxes,
      locals, Sending, Adding, Filling, Linking, Taking
<1>18. ReceiveLocals(q, t)'
  BY <1>1, <1>2, <1>3, <1>4, <1>5, <1>7, <1>6
  DEF InvFor, ReceiveLocals, TypeOK, BoxesOf, SendStore, At, Return, pool,
      boxes, locals, Taking
<1>19. QED
  BY <1>7, <1>9, <1>10, <1>11, <1>12, <1>13, <1>14, <1>15, <1>16, <1>17, <1>18
  DEF InvFor

(* ipc_receive looks for a mailbox of its own with a message.              *)
LEMMA ReceiveBeginKeeps ==
    ASSUME NEW q \in QueueType, NEW t \in Tasks, InvFor(q, t), ReceiveBegin(t)
    PROVE  InvFor(q, t)'
<1>1. TypeOK /\ Others(t) /\ pc[t] = "idle"
  BY DEF InvFor, ReceiveBegin, At
<1>2. msg[t] = Null
  BY <1>1 DEF InvFor, ReceiveLocals
<1>3. First(Filled(t)) \in Filled(t)
  <2>1. Filled(t) \in SUBSET Nat
    BY <1>1, BoxesAreNumbers DEF Filled
  <2>2. QED
    BY <2>1, FirstIs DEF ReceiveBegin
<1>4. First(Filled(t)) \in BoxesOf(t) /\ First(Filled(t)) \in Boxes
      /\ q[First(Filled(t))] # <<>>
  <2>1. First(Filled(t)) \in BoxesOf(t) /\ head[First(Filled(t))] # Null
    BY <1>3 DEF Filled
  <2>2. First(Filled(t)) \in Boxes
    BY <1>1, <2>1, BoxesAreNumbers
  <2>3. QED
    BY <2>1, <2>2 DEF InvFor, Lists, IsList
<1>5. msg' = [msg EXCEPT ![t] = msg[t]]
  BY <1>1 DEF TypeOK, ReceiveBegin, At, locals
<1>6. (pc'[t] = "take") /\ pc' \in [Tasks -> Points] /\ Others(t)'
  BY <1>1, <1>5, Moves DEF ReceiveBegin, At, Points
<1>7. msg_next' = msg_next
  BY <1>1, <1>2, <1>3, <1>4, <1>6 DEF ReceiveBegin, At, pool
<1>8. TypeOK'
  BY <1>1, <1>2, <1>3, <1>4, <1>6
  DEF TypeOK, ReceiveBegin, At, pool, boxes, locals, history
<1>9. Lists(q)' /\ Apart(q)'
  BY <1>7, ListsStay DEF InvFor, ReceiveBegin, At, boxes, Apart
<1>10. Owners(q)'
  BY <1>1, <1>2, <1>3, <1>4, <1>6
  DEF InvFor, Owners, BoxesOf, ReceiveBegin, At, boxes
<1>11. TailsFor(q, t)'
  BY <1>1, <1>2, <1>3, <1>4, <1>6
  DEF InvFor, TailsFor, Working, TypeOK, ReceiveBegin, At, boxes, locals,
      LastOf
<1>12. CountsFor(q, t)'
  BY <1>1, <1>2, <1>3, <1>4, <1>6
  DEF InvFor, CountsFor, Working, TypeOK, ReceiveBegin, At, boxes, locals,
      Adding, Taking
<1>13. PoolFor(q, t)'
  BY <1>1, <1>2, <1>3, <1>4, <1>6
  DEF InvFor, PoolFor, Held, TypeOK, ReceiveBegin, At, pool, locals
<1>14. AccountedFor(q, t)'
  BY <1>1, <1>2, <1>3, <1>4, <1>6
  DEF InvFor, AccountedFor, Delivering, TypeOK, ReceiveBegin, At, pool, locals,
      history, Taking
<1>15. Written(q)'
  BY <1>1, <1>2, <1>3, <1>4, <1>6 DEF InvFor, Written, ReceiveBegin, At, pool
<1>16. SendLocals(q, t)'
  BY <1>1, <1>2, <1>3, <1>4, <1>6
  DEF InvFor, SendLocals, TypeOK, BoxesOf, ReceiveBegin, At, pool, boxes,
      locals, Sending, Adding, Filling, Linking, Taking
<1>17. ReceiveLocals(q, t)'
  BY <1>1, <1>2, <1>3, <1>4, <1>6, <1>5
  DEF InvFor, ReceiveLocals, TypeOK, BoxesOf, ReceiveBegin, At, pool, boxes,
      locals, Taking
<1>18. QED
  BY <1>6, <1>8, <1>9, <1>10, <1>11, <1>12, <1>13, <1>14, <1>15, <1>16, <1>17
  DEF InvFor

(* It takes the head.                                                      *)
LEMMA ReceiveTakeKeeps ==
    ASSUME NEW q \in QueueType, NEW t \in Tasks, InvFor(q, t), ReceiveTake(t)
    PROVE  InvFor(q, t)'
<1>1. TypeOK /\ Others(t) /\ pc[t] = "take"
  BY DEF InvFor, ReceiveTake, At
<1>2. /\ box[t] \in BoxesOf(t) /\ box[t] \in Boxes /\ box[t] \in box_used
      /\ owner_pid[box[t]] = t
  BY <1>1, ReceiverAt DEF Taking
<1>3. msg[t] = Null /\ q[box[t]] # <<>>
  BY <1>1 DEF InvFor, ReceiveLocals
<1>4. head[box[t]] = q[box[t]][1] /\ head[box[t]] \in Msgs
  BY <1>2, <1>3, QueuedAt DEF InvFor
<1>5. msg' = [msg EXCEPT ![t] = head[box[t]]]
  BY <1>1 DEF TypeOK, ReceiveTake, At, locals
<1>6. (pc'[t] = "advance") /\ pc' \in [Tasks -> Points] /\ Others(t)'
  BY <1>1, <1>5, Moves DEF ReceiveTake, At, Points
<1>7. msg_next' = msg_next
  BY <1>1, <1>2, <1>3, <1>4, <1>6 DEF ReceiveTake, At, pool
<1>8. TypeOK'
  BY <1>1, <1>2, <1>3, <1>4, <1>6
  DEF TypeOK, ReceiveTake, At, pool, boxes, locals, history
<1>9. Lists(q)' /\ Apart(q)'
  BY <1>7, ListsStay DEF InvFor, ReceiveTake, At, boxes, Apart
<1>10. Owners(q)'
  BY <1>1, <1>2, <1>3, <1>4, <1>6
  DEF InvFor, Owners, BoxesOf, ReceiveTake, At, boxes
<1>11. TailsFor(q, t)'
  BY <1>1, <1>2, <1>3, <1>4, <1>6
  DEF InvFor, TailsFor, Working, TypeOK, ReceiveTake, At, boxes, locals, LastOf
<1>12. CountsFor(q, t)'
  BY <1>1, <1>2, <1>3, <1>4, <1>6
  DEF InvFor, CountsFor, Working, TypeOK, ReceiveTake, At, boxes, locals,
      Adding, Taking
<1>13. PoolFor(q, t)'
  BY <1>1, <1>2, <1>3, <1>4, <1>6
  DEF InvFor, PoolFor, Held, TypeOK, ReceiveTake, At, pool, locals
<1>14. AccountedFor(q, t)'
  BY <1>1, <1>2, <1>3, <1>4, <1>6
  DEF InvFor, AccountedFor, Delivering, TypeOK, ReceiveTake, At, pool, locals,
      history, Taking
<1>15. Written(q)'
  BY <1>1, <1>2, <1>3, <1>4, <1>6 DEF InvFor, Written, ReceiveTake, At, pool
<1>16. SendLocals(q, t)'
  BY <1>1, <1>2, <1>3, <1>4, <1>6
  DEF InvFor, SendLocals, TypeOK, BoxesOf, ReceiveTake, At, pool, boxes,
      locals, Sending, Adding, Filling, Linking, Taking
<1>17. ReceiveLocals(q, t)'
  BY <1>1, <1>2, <1>3, <1>4, <1>6, <1>5
  DEF InvFor, ReceiveLocals, TypeOK, BoxesOf, ReceiveTake, At, pool, boxes,
      locals, Taking
<1>18. QED
  BY <1>6, <1>8, <1>9, <1>10, <1>11, <1>12, <1>13, <1>14, <1>15, <1>16, <1>17
  DEF InvFor

(* It clears the tail of an empty mailbox.                                 *)
LEMMA ReceiveClearTailKeeps ==
    ASSUME NEW q \in QueueType, NEW t \in Tasks, InvFor(q, t),
           ReceiveClearTail(t)
    PROVE  InvFor(q, t)'
<1>1. TypeOK /\ Others(t) /\ pc[t] = "clear tail"
  BY DEF InvFor, ReceiveClearTail, At
<1>2. /\ box[t] \in BoxesOf(t) /\ box[t] \in Boxes /\ box[t] \in box_used
      /\ owner_pid[box[t]] = t
      /\ msg[t] \in msg_used \ InQueues(q) /\ msg[t] \in Msgs /\ msg[t] # Null
      /\ msg_data[msg[t]] \in Payloads
  BY <1>1, ReceiverAt, ReceiverHolds DEF Taking
<1>3. q[box[t]] = <<>>
  BY <1>1 DEF InvFor, ReceiveLocals
<1>4. msg' = [msg EXCEPT ![t] = msg[t]]
  BY <1>1 DEF TypeOK, ReceiveClearTail, At, locals
<1>5. (pc'[t] = "load down") /\ pc' \in [Tasks -> Points] /\ Others(t)'
  BY <1>1, <1>4, Moves DEF ReceiveClearTail, At, Points
<1>6. msg_next' = msg_next
  BY <1>1, <1>2, <1>3, <1>5 DEF ReceiveClearTail, At, pool
<1>7. TypeOK'
  BY <1>1, <1>2, <1>3, <1>5
  DEF TypeOK, ReceiveClearTail, At, pool, boxes, locals, history
<1>8. Lists(q)' /\ Apart(q)'
  BY <1>6, ListsStay DEF InvFor, ReceiveClearTail, At, boxes, Apart
<1>9. Owners(q)'
  BY <1>1, <1>2, <1>3, <1>5
  DEF InvFor, Owners, BoxesOf, ReceiveClearTail, At, boxes
<1>10. TailsFor(q, t)'
  BY <1>1, <1>2, <1>3, <1>5
  DEF InvFor, TailsFor, Working, TypeOK, ReceiveClearTail, At, boxes, locals,
      LastOf
<1>11. CountsFor(q, t)'
  BY <1>1, <1>2, <1>3, <1>5
  DEF InvFor, CountsFor, Working, TypeOK, ReceiveClearTail, At, boxes, locals,
      Adding, Taking
<1>12. PoolFor(q, t)'
  BY <1>1, <1>2, <1>3, <1>5
  DEF InvFor, PoolFor, Held, TypeOK, ReceiveClearTail, At, pool, locals
<1>13. AccountedFor(q, t)'
  BY <1>1, <1>2, <1>3, <1>5
  DEF InvFor, AccountedFor, Delivering, TypeOK, ReceiveClearTail, At, pool,
      locals, history, Taking
<1>14. Written(q)'
  BY <1>1, <1>2, <1>3, <1>5 DEF InvFor, Written, ReceiveClearTail, At, pool
<1>15. SendLocals(q, t)'
  BY <1>1, <1>2, <1>3, <1>5
  DEF InvFor, SendLocals, TypeOK, BoxesOf, ReceiveClearTail, At, pool, boxes,
      locals, Sending, Adding, Filling, Linking, Taking
<1>16. ReceiveLocals(q, t)'
  BY <1>1, <1>2, <1>3, <1>5, <1>4
  DEF InvFor, ReceiveLocals, TypeOK, BoxesOf, ReceiveClearTail, At, pool,
      boxes, locals, Taking
<1>17. QED
  BY <1>5, <1>7, <1>8, <1>9, <1>10, <1>11, <1>12, <1>13, <1>14, <1>15, <1>16
  DEF InvFor

(* It loads the count.                                                     *)
LEMMA ReceiveLoadKeeps ==
    ASSUME NEW q \in QueueType, NEW t \in Tasks, InvFor(q, t), ReceiveLoad(t)
    PROVE  InvFor(q, t)'
<1>1. TypeOK /\ Others(t) /\ pc[t] = "load down"
  BY DEF InvFor, ReceiveLoad, At
<1>2. /\ box[t] \in BoxesOf(t) /\ box[t] \in Boxes /\ box[t] \in box_used
      /\ owner_pid[box[t]] = t
      /\ msg[t] \in msg_used \ InQueues(q) /\ msg[t] \in Msgs /\ msg[t] # Null
      /\ msg_data[msg[t]] \in Payloads
  BY <1>1, ReceiverAt, ReceiverHolds DEF Taking
<1>3. count[box[t]] \in Nat
  BY <1>1, <1>2 DEF TypeOK
<1>4. msg' = [msg EXCEPT ![t] = msg[t]]
  BY <1>1 DEF TypeOK, ReceiveLoad, At, locals
<1>5. (pc'[t] = "store down") /\ pc' \in [Tasks -> Points] /\ Others(t)'
  BY <1>1, <1>4, Moves DEF ReceiveLoad, At, Points
<1>6. msg_next' = msg_next
  BY <1>1, <1>2, <1>3, <1>5 DEF ReceiveLoad, At, pool
<1>7. TypeOK'
  BY <1>1, <1>2, <1>3, <1>5
  DEF TypeOK, ReceiveLoad, At, pool, boxes, locals, history
<1>8. Lists(q)' /\ Apart(q)'
  BY <1>6, ListsStay DEF InvFor, ReceiveLoad, At, boxes, Apart
<1>9. Owners(q)'
  BY <1>1, <1>2, <1>3, <1>5 DEF InvFor, Owners, BoxesOf, ReceiveLoad, At, boxes
<1>10. TailsFor(q, t)'
  BY <1>1, <1>2, <1>3, <1>5
  DEF InvFor, TailsFor, Working, TypeOK, ReceiveLoad, At, boxes, locals, LastOf
<1>11. CountsFor(q, t)'
  BY <1>1, <1>2, <1>3, <1>5
  DEF InvFor, CountsFor, Working, TypeOK, ReceiveLoad, At, boxes, locals,
      Adding, Taking
<1>12. PoolFor(q, t)'
  BY <1>1, <1>2, <1>3, <1>5
  DEF InvFor, PoolFor, Held, TypeOK, ReceiveLoad, At, pool, locals
<1>13. AccountedFor(q, t)'
  BY <1>1, <1>2, <1>3, <1>5
  DEF InvFor, AccountedFor, Delivering, TypeOK, ReceiveLoad, At, pool, locals,
      history, Taking
<1>14. Written(q)'
  BY <1>1, <1>2, <1>3, <1>5 DEF InvFor, Written, ReceiveLoad, At, pool
<1>15. SendLocals(q, t)'
  BY <1>1, <1>2, <1>3, <1>5
  DEF InvFor, SendLocals, TypeOK, BoxesOf, ReceiveLoad, At, pool, boxes,
      locals, Sending, Adding, Filling, Linking, Taking
<1>16. ReceiveLocals(q, t)'
  BY <1>1, <1>2, <1>3, <1>5, <1>4
  DEF InvFor, ReceiveLocals, TypeOK, BoxesOf, ReceiveLoad, At, pool, boxes,
      locals, Taking
<1>17. QED
  BY <1>5, <1>7, <1>8, <1>9, <1>10, <1>11, <1>12, <1>13, <1>14, <1>15, <1>16
  DEF InvFor

(* It stores the count, one lower.                                         *)
LEMMA ReceiveStoreKeeps ==
    ASSUME NEW q \in QueueType, NEW t \in Tasks, InvFor(q, t), ReceiveStore(t)
    PROVE  InvFor(q, t)'
<1>1. TypeOK /\ Others(t) /\ pc[t] = "store down"
  BY DEF InvFor, ReceiveStore, At
<1>2. /\ box[t] \in BoxesOf(t) /\ box[t] \in Boxes /\ box[t] \in box_used
      /\ owner_pid[box[t]] = t
      /\ msg[t] \in msg_used \ InQueues(q) /\ msg[t] \in Msgs /\ msg[t] # Null
      /\ msg_data[msg[t]] \in Payloads
  BY <1>1, ReceiverAt, ReceiverHolds DEF Taking
<1>3. Len(q[box[t]]) \in Nat
  BY <1>2 DEF QueueType
<1>4. n[t] = Len(q[box[t]]) + 1 /\ n[t] - 1 = Len(q[box[t]])
  <2>1. n[t] = count[box[t]]
    BY <1>1 DEF InvFor, CountsFor
  <2>2. count[box[t]] = Len(q[box[t]]) + 1
    BY <1>1 DEF InvFor, CountsFor, Taking
  <2>3. QED
    BY <1>3, <2>1, <2>2
<1>5. msg' = [msg EXCEPT ![t] = msg[t]]
  BY <1>1 DEF TypeOK, ReceiveStore, At, locals
<1>6. (pc'[t] = "copy") /\ pc' \in [Tasks -> Points] /\ Others(t)'
  BY <1>1, <1>5, Moves DEF ReceiveStore, At, Points
<1>7. msg_next' = msg_next
  BY <1>1, <1>2, <1>3, <1>4, <1>6 DEF ReceiveStore, At, pool
<1>8. TypeOK'
  BY <1>1, <1>2, <1>3, <1>4, <1>6
  DEF TypeOK, ReceiveStore, At, pool, boxes, locals, history
<1>9. Lists(q)' /\ Apart(q)'
  BY <1>7, ListsStay DEF InvFor, ReceiveStore, At, boxes, Apart
<1>10. Owners(q)'
  BY <1>1, <1>2, <1>3, <1>4, <1>6
  DEF InvFor, Owners, BoxesOf, ReceiveStore, At, boxes
<1>11. TailsFor(q, t)'
  BY <1>1, <1>2, <1>3, <1>4, <1>6
  DEF InvFor, TailsFor, Working, TypeOK, ReceiveStore, At, boxes, locals,
      LastOf
<1>12. CountsFor(q, t)'
  BY <1>1, <1>2, <1>3, <1>4, <1>6
  DEF InvFor, CountsFor, Working, TypeOK, ReceiveStore, At, boxes, locals,
      Adding, Taking
<1>13. PoolFor(q, t)'
  BY <1>1, <1>2, <1>3, <1>4, <1>6
  DEF InvFor, PoolFor, Held, TypeOK, ReceiveStore, At, pool, locals
<1>14. AccountedFor(q, t)'
  BY <1>1, <1>2, <1>3, <1>4, <1>6
  DEF InvFor, AccountedFor, Delivering, TypeOK, ReceiveStore, At, pool, locals,
      history, Taking
<1>15. Written(q)'
  BY <1>1, <1>2, <1>3, <1>4, <1>6 DEF InvFor, Written, ReceiveStore, At, pool
<1>16. SendLocals(q, t)'
  BY <1>1, <1>2, <1>3, <1>4, <1>6
  DEF InvFor, SendLocals, TypeOK, BoxesOf, ReceiveStore, At, pool, boxes,
      locals, Sending, Adding, Filling, Linking, Taking
<1>17. ReceiveLocals(q, t)'
  BY <1>1, <1>2, <1>3, <1>4, <1>6, <1>5
  DEF InvFor, ReceiveLocals, TypeOK, BoxesOf, ReceiveStore, At, pool, boxes,
      locals, Taking
<1>18. QED
  BY <1>6, <1>8, <1>9, <1>10, <1>11, <1>12, <1>13, <1>14, <1>15, <1>16, <1>17
  DEF InvFor

(* It copies the payload and gives the slot back.                          *)
LEMMA ReceiveCopyKeeps ==
    ASSUME NEW q \in QueueType, NEW t \in Tasks, InvFor(q, t), ReceiveCopy(t)
    PROVE  InvFor(q, t)'
<1>1. TypeOK /\ Others(t) /\ pc[t] = "copy"
  BY DEF InvFor, ReceiveCopy, At
<1>2. /\ msg[t] \in msg_used \ InQueues(q) /\ msg[t] \in Msgs /\ msg[t] # Null
      /\ msg_data[msg[t]] \in Payloads
  BY <1>1, ReceiverHolds DEF Taking
<1>3. msg' = [msg EXCEPT ![t] = Null]
  BY <1>1 DEF TypeOK, ReceiveCopy, At, FreeMessage, Return, locals
<1>4. (pc'[t] = "idle") /\ pc' \in [Tasks -> Points] /\ Others(t)'
  BY <1>1, <1>3, Moves DEF ReceiveCopy, At, FreeMessage, Return, Points
<1>5. \A m \in InQueues(q) : msg_next'[m] = msg_next[m]
  BY <1>1, <1>2, <1>4 DEF TypeOK, ReceiveCopy, At, FreeMessage, Return
<1>6. TypeOK'
  BY <1>1, <1>2, <1>4
  DEF TypeOK, ReceiveCopy, At, FreeMessage, Return, pool, boxes, locals,
      history
<1>7. Lists(q)' /\ Apart(q)'
  BY <1>5, ListsStay
  DEF InvFor, ReceiveCopy, At, FreeMessage, Return, boxes, Apart
<1>8. Owners(q)'
  BY <1>1, <1>2, <1>4
  DEF InvFor, Owners, BoxesOf, ReceiveCopy, At, FreeMessage, Return, boxes
<1>9. TailsFor(q, t)'
  BY <1>1, <1>2, <1>4
  DEF InvFor, TailsFor, Working, TypeOK, ReceiveCopy, At, FreeMessage, Return,
      boxes, locals, LastOf
<1>10. CountsFor(q, t)'
  BY <1>1, <1>2, <1>4
  DEF InvFor, CountsFor, Working, TypeOK, ReceiveCopy, At, FreeMessage, Return,
      boxes, locals, Adding, Taking
<1>11. PoolFor(q, t)'
  BY <1>1, <1>2, <1>4
  DEF InvFor, PoolFor, Held, TypeOK, ReceiveCopy, At, FreeMessage, Return,
      pool, locals
<1>12. AccountedFor(q, t)'
  BY <1>1, <1>2, <1>4
  DEF InvFor, AccountedFor, Delivering, TypeOK, ReceiveCopy, At, FreeMessage,
      Return, pool, locals, history, Taking
<1>13. Written(q)'
  BY <1>1, <1>2, <1>4
  DEF InvFor, Written, ReceiveCopy, At, FreeMessage, Return, pool
<1>14. SendLocals(q, t)'
  BY <1>1, <1>2, <1>4
  DEF InvFor, SendLocals, TypeOK, BoxesOf, ReceiveCopy, At, FreeMessage,
      Return, pool, boxes, locals, Sending, Adding, Filling, Linking, Taking
<1>15. ReceiveLocals(q, t)'
  BY <1>1, <1>2, <1>4, <1>3
  DEF InvFor, ReceiveLocals, TypeOK, BoxesOf, ReceiveCopy, At, FreeMessage,
      Return, pool, boxes, locals, Taking
<1>16. QED
  BY <1>4, <1>6, <1>7, <1>8, <1>9, <1>10, <1>11, <1>12, <1>13, <1>14, <1>15
  DEF InvFor

(* ipc_create_mailbox looks for a free mailbox.                            *)
LEMMA CreateBeginKeeps ==
    ASSUME NEW q \in QueueType, NEW t \in Tasks, InvFor(q, t), CreateBegin(t)
    PROVE  InvFor(q, t)'
<1>1. TypeOK /\ Others(t) /\ pc[t] = "idle"
  BY DEF InvFor, CreateBegin, At
<1>2. msg[t] = Null
  BY <1>1 DEF InvFor, ReceiveLocals
<1>3. First(Boxes \ box_used) \in Boxes \ box_used
  <2>1. Boxes \ box_used \in SUBSET Nat
    BY DEF Boxes
  <2>2. QED
    BY <2>1, FirstIs DEF CreateBegin
<1>4. msg' = [msg EXCEPT ![t] = msg[t]]
  BY <1>1 DEF TypeOK, CreateBegin, At, locals
<1>5. (pc'[t] = "open") /\ pc' \in [Tasks -> Points] /\ Others(t)'
  BY <1>1, <1>4, Moves DEF CreateBegin, At, Points
<1>6. msg_next' = msg_next
  BY <1>1, <1>2, <1>3, <1>5 DEF CreateBegin, At, pool
<1>7. TypeOK'
  BY <1>1, <1>2, <1>3, <1>5
  DEF TypeOK, CreateBegin, At, pool, boxes, locals, history
<1>8. Lists(q)' /\ Apart(q)'
  BY <1>6, ListsStay DEF InvFor, CreateBegin, At, boxes, Apart
<1>9. Owners(q)'
  BY <1>1, <1>2, <1>3, <1>5 DEF InvFor, Owners, BoxesOf, CreateBegin, At, boxes
<1>10. TailsFor(q, t)'
  BY <1>1, <1>2, <1>3, <1>5
  DEF InvFor, TailsFor, Working, TypeOK, CreateBegin, At, boxes, locals, LastOf
<1>11. CountsFor(q, t)'
  BY <1>1, <1>2, <1>3, <1>5
  DEF InvFor, CountsFor, Working, TypeOK, CreateBegin, At, boxes, locals,
      Adding, Taking
<1>12. PoolFor(q, t)'
  BY <1>1, <1>2, <1>3, <1>5
  DEF InvFor, PoolFor, Held, TypeOK, CreateBegin, At, pool, locals
<1>13. AccountedFor(q, t)'
  BY <1>1, <1>2, <1>3, <1>5
  DEF InvFor, AccountedFor, Delivering, TypeOK, CreateBegin, At, pool, locals,
      history, Taking
<1>14. Written(q)'
  BY <1>1, <1>2, <1>3, <1>5 DEF InvFor, Written, CreateBegin, At, pool
<1>15. SendLocals(q, t)'
  BY <1>1, <1>2, <1>3, <1>5
  DEF InvFor, SendLocals, TypeOK, BoxesOf, CreateBegin, At, pool, boxes,
      locals, Sending, Adding, Filling, Linking, Taking
<1>16. ReceiveLocals(q, t)'
  BY <1>1, <1>2, <1>3, <1>5, <1>4
  DEF InvFor, ReceiveLocals, TypeOK, BoxesOf, CreateBegin, At, pool, boxes,
      locals, Taking
<1>17. QED
  BY <1>5, <1>7, <1>8, <1>9, <1>10, <1>11, <1>12, <1>13, <1>14, <1>15, <1>16
  DEF InvFor

(* It opens it for the caller, empty.                                      *)
LEMMA CreateOpenKeeps ==
    ASSUME NEW q \in QueueType, NEW t \in Tasks, InvFor(q, t), CreateOpen(t)
    PROVE  InvFor(q, t)'
<1>1. TypeOK /\ Others(t) /\ pc[t] = "open"
  BY DEF InvFor, CreateOpen, At
<1>2. /\ msg[t] = Null /\ box[t] \in Boxes \ box_used
      /\ box[t] = First(Boxes \ box_used)
  BY <1>1 DEF InvFor, ReceiveLocals
<1>3. q[box[t]] = <<>>
  BY <1>2 DEF InvFor, Owners
<1>4. head[box[t]] = Null
  BY <1>2, <1>3 DEF InvFor, Lists, IsList
<1>5. head' = head
  BY <1>1, <1>4 DEF CreateOpen, TypeOK
<1>6. msg' = [msg EXCEPT ![t] = Null]
  BY <1>1 DEF TypeOK, CreateOpen, At, Return, locals
<1>7. (pc'[t] = "idle") /\ pc' \in [Tasks -> Points] /\ Others(t)'
  BY <1>1, <1>6, Moves DEF CreateOpen, At, Return, Points
<1>8. msg_next' = msg_next
  BY <1>1, <1>2, <1>3, <1>4, <1>5, <1>7 DEF CreateOpen, At, Return, pool
<1>9. TypeOK'
  BY <1>1, <1>2, <1>3, <1>4, <1>5, <1>7
  DEF TypeOK, CreateOpen, At, Return, pool, boxes, locals, history
<1>10. Lists(q)' /\ Apart(q)'
  BY <1>8, <1>5, ListsStay DEF InvFor, Apart
<1>11. Owners(q)'
  <2>1. /\ box_used' = box_used \cup {box[t]}
        /\ owner_pid' = [owner_pid EXCEPT ![box[t]] = t]
    BY DEF CreateOpen
  <2>2. \A c \in Boxes \ box_used : box[t] <= c
    <3>1. Boxes \ box_used \in SUBSET Nat /\ Boxes \ box_used # {}
      BY <1>2 DEF Boxes
    <3>2. QED
      BY <1>2, <3>1, FirstIs
  <2>3. ASSUME NEW b \in box_used, NEW c \in Boxes, c < b PROVE c \in box_used
    BY <2>3 DEF InvFor, Owners
  <2>4. box[t] \in Nat /\ Boxes \in SUBSET Nat /\ box_used \in SUBSET Boxes
    BY <1>1, <1>2 DEF Boxes, TypeOK
  <2>5. \A b \in box_used : b < box[t]
    BY <1>2, <2>3, <2>4
  <2>6. \A b \in box_used', c \in Boxes : c < b => c \in box_used'
    <3>1. \A c \in Boxes : c < box[t] => c \in box_used
      BY <2>2, <2>4
    <3>2. QED
      BY <2>1, <2>3, <3>1
  <2>7. ASSUME NEW b \in Boxes, q[b] # <<>>
        PROVE  b \in box_used' /\ owner_pid'[b] = owner_pid[b]
               /\ b = First(BoxesOf(owner_pid[b])')
    <3>1. b \in box_used /\ b = First(BoxesOf(owner_pid[b]))
      BY <2>7 DEF InvFor, Owners
    <3>2. b # box[t] /\ owner_pid'[b] = owner_pid[b]
      BY <1>1, <1>2, <2>1, <3>1 DEF TypeOK
    <3>3. PICK u : u = owner_pid[b]
      OBVIOUS
    <3>4. BoxesOf(u) \in SUBSET Nat /\ b \in BoxesOf(u) /\ b = First(BoxesOf(u))
      BY <1>1, <3>1, <3>3, BoxesAreNumbers DEF BoxesOf
    <3>5. \A c \in BoxesOf(u) : b <= c
      BY <3>4, FirstIs
    <3>6. BoxesOf(u)' \subseteq BoxesOf(u) \cup {box[t]}
          /\ b \in BoxesOf(u)'
      BY <1>1, <1>2, <2>1, <3>1, <3>2, <3>3 DEF BoxesOf, TypeOK
    <3>7. BoxesOf(u)' \in SUBSET Nat
      BY <2>4, <3>4, <3>6
    <3>8. \A c \in BoxesOf(u)' : b <= c
      BY <2>4, <2>5, <3>1, <3>5, <3>6
    <3>9. First(BoxesOf(u)') = b
      BY <3>6, <3>7, <3>8, FirstUnique
    <3>10. QED
      BY <2>1, <3>1, <3>2, <3>3, <3>9
  <2>8. QED
    BY <2>6, <2>7 DEF Owners
<1>12. TailsFor(q, t)'
  BY <1>1, <1>2, <1>3, <1>4, <1>5, <1>7
  DEF InvFor, TailsFor, Working, TypeOK, CreateOpen, At, Return, boxes, locals,
      LastOf
<1>13. CountsFor(q, t)'
  BY <1>1, <1>2, <1>3, <1>4, <1>5, <1>7
  DEF InvFor, CountsFor, Working, TypeOK, CreateOpen, At, Return, boxes,
      locals, Adding, Taking
<1>14. PoolFor(q, t)'
  BY <1>1, <1>2, <1>3, <1>4, <1>5, <1>7
  DEF InvFor, PoolFor, Held, TypeOK, CreateOpen, At, Return, pool, locals
<1>15. AccountedFor(q, t)'
  BY <1>1, <1>2, <1>3, <1>4, <1>5, <1>7
  DEF InvFor, AccountedFor, Delivering, TypeOK, CreateOpen, At, Return, pool,
      locals, history, Taking
<1>16. Written(q)'
  BY <1>1, <1>2, <1>3, <1>4, <1>5, <1>7
  DEF InvFor, Written, CreateOpen, At, Return, pool
<1>17. SendLocals(q, t)'
  BY <1>1, <1>2, <1>3, <1>4, <1>5, <1>7
  DEF InvFor, SendLocals, TypeOK, BoxesOf, CreateOpen, At, Return, pool, boxes,
      locals, Sending, Adding, Filling, Linking, Taking
<1>18. ReceiveLocals(q, t)'
  BY <1>1, <1>2, <1>3, <1>4, <1>5, <1>7, <1>6
  DEF InvFor, ReceiveLocals, TypeOK, BoxesOf, CreateOpen, At, Return, pool,
      boxes, locals, Taking
<1>19. QED
  BY <1>7, <1>9, <1>10, <1>11, <1>12, <1>13, <1>14, <1>15, <1>16, <1>17, <1>18
  DEF InvFor

(* A message is linked to the end of the queue that is not empty ...       *)
LEMMA SendLinkTailKeeps ==
    ASSUME NEW q \in QueueType, NEW t \in Tasks, InvFor(q, t), SendLinkTail(t),
           NEW r, r = Added(q, box[t], msg[t])
    PROVE  r \in QueueType /\ InvFor(r, t)'
<1>1. TypeOK /\ Others(t) /\ pc[t] = "link tail"
  BY DEF InvFor, SendLinkTail, At
<1>2. PICK b : b = box[t]
  OBVIOUS
<1>3. PICK m : m = msg[t]
  OBVIOUS
<1>4. /\ m \in Msgs /\ m # Null /\ dest[t] \in Tasks
      /\ n[t] \in Payloads /\ n[t] \in Nat
      /\ m \in msg_used \ InQueues(q)
      /\ msg_next[m] = Null /\ msg_data[m] = n[t]
  BY <1>1, <1>3, SenderHolds DEF Sending, Adding, Filling
<1>5. /\ b \in BoxesOf(dest[t]) /\ b \in Boxes /\ b \in box_used
      /\ b = First(BoxesOf(dest[t])) /\ owner_pid[b] = dest[t]
  BY <1>1, <1>2, SenderAt DEF Linking
<1>6. q[b] # <<>>
  BY <1>1, <1>2 DEF InvFor, SendLocals
<1>7. /\ r \in QueueType /\ Apart(r)
      /\ InQueues(r) = InQueues(q) \cup {m}
      /\ \A a \in Boxes \ {b} : r[a] = q[a]
      /\ Len(r[b]) = Len(q[b]) + 1
      /\ r[b] # <<>> /\ LastOf(r[b]) = m
      /\ \A i \in 1..Len(q[b]) : r[b][i] = q[b][i]
      /\ r[b][Len(q[b]) + 1] = m
  <2>1. r = Added(q, b, m)
    BY <1>2, <1>3
  <2>2. Apart(q)
    BY DEF InvFor
  <2>3. QED
    BY <1>4, <1>5, <2>1, <2>2, QueueAdds
<1>8. /\ Len(q[b]) \in Nat \ {0} /\ head[b] = q[b][1]
      /\ LastOf(q[b]) = q[b][Len(q[b])]
  BY <1>5, <1>6, QueuedAt DEF InvFor
<1>9. tail[b] = q[b][Len(q[b])]
  BY <1>1, <1>5, <1>8 DEF InvFor, TailsFor, Working
<1>10. /\ msg_used' = msg_used /\ msg_data' = msg_data /\ boxes' = boxes
       /\ locals' = locals /\ history' = history
       /\ msg_next' = [x \in Msgs |->
             IF x = q[b][Len(q[b])] THEN m ELSE msg_next[x]]
  BY <1>2, <1>3, <1>9 DEF SendLinkTail
<1>11. pc'[t] = "set tail" /\ pc' \in [Tasks -> Points] /\ Others(t)'
  <2>1. msg' = [msg EXCEPT ![t] = msg[t]]
    BY <1>1, <1>10 DEF TypeOK, locals
  <2>2. QED
    BY <1>1, <2>1, Moves DEF SendLinkTail, Points
<1>12. TypeOK'
  <2>1. msg_next' \in [Msgs -> Msgs \cup {Null}]
    BY <1>1, <1>4, <1>10 DEF TypeOK
  <2>2. QED
    BY <1>1, <1>10, <1>11, <2>1 DEF TypeOK, boxes, locals, history
<1>13. Lists(r)'
  <2>1. ASSUME NEW a \in Boxes \ {b} PROVE IsList(msg_next', head'[a], r[a])
    <3>1. IsList(msg_next, head[a], q[a])
      BY DEF InvFor, Lists
    <3>2. ASSUME NEW i \in 1..Len(q[a])
          PROVE  msg_next'[q[a][i]] = msg_next[q[a][i]]
      <4>1. q[a][i] \in Msgs
        BY DEF QueueType
      <4>2. Len(q[b]) \in 1..Len(q[b])
        BY <1>8
      <4>3. q[a][i] # q[b][Len(q[b])]
        BY <1>5, <4>2 DEF InvFor, Apart
      <4>4. QED
        BY <1>10, <4>1, <4>3
    <3>3. head' = head /\ r[a] = q[a]
      BY <1>7, <1>10 DEF boxes
    <3>4. QED
      BY <3>1, <3>2, <3>3 DEF IsList
  <2>2. IsList(msg_next', head'[b], r[b])
    <3>1. IsList(msg_next, head[b], q[b])
      BY <1>5 DEF InvFor, Lists
    <3>2. PICK k \in Nat \ {0} : k = Len(q[b])
      BY <1>8
    <3>3. ASSUME NEW i \in 1..k
          PROVE  msg_next'[r[b][i]] = r[b][i + 1]
      <4>1. q[b][i] \in Msgs /\ r[b][i] = q[b][i]
        BY <1>5, <1>7, <3>2 DEF QueueType
      <4>2. CASE i = k
        BY <1>7, <1>10, <3>2, <4>1, <4>2
      <4>3. CASE i # k
        <5>1. k \in 1..k /\ i + 1 \in 1..k
          BY <4>3
        <5>2. q[b][i] # q[b][k]
          BY <1>5, <3>2, <4>3, <5>1 DEF InvFor, Apart
        <5>3. msg_next[q[b][i]] = q[b][i + 1]
          BY <3>1, <3>2, <4>3 DEF IsList
        <5>4. r[b][i + 1] = q[b][i + 1]
          BY <1>7, <3>2, <5>1
        <5>5. QED
          BY <1>10, <3>2, <4>1, <5>2, <5>3, <5>4
      <4>4. QED
        BY <4>2, <4>3
    <3>4. msg_next'[m] = Null
      <4>1. Len(q[b]) \in 1..Len(q[b])
        BY <1>8
      <4>2. q[b][Len(q[b])] # m
        BY <1>4, <1>5, <4>1, InQueuesIs
      <4>3. QED
        BY <1>4, <1>10, <4>2
    <3>5. head' = head /\ r[b][1] = q[b][1]
      <4>1. 1 \in 1..Len(q[b])
        BY <1>8
      <4>2. QED
        BY <1>7, <1>10, <4>1 DEF boxes
    <3>6. ASSUME NEW i \in 1..Len(r[b])
          PROVE  msg_next'[r[b][i]] =
                     IF i = Len(r[b]) THEN Null ELSE r[b][i + 1]
      <4>1. CASE i = k + 1
        BY <1>7, <3>2, <3>4, <4>1
      <4>2. CASE i # k + 1
        <5>1. i \in 1..k /\ i # Len(r[b])
          BY <1>7, <3>2, <4>2
        <5>2. QED
          BY <3>3, <5>1
      <4>3. QED
        BY <4>1, <4>2
    <3>7. QED
      BY <1>7, <1>8, <3>5, <3>6 DEF IsList
  <2>3. QED
    BY <2>1, <2>2 DEF Lists
<1>14. Apart(r)'
  BY <1>7 DEF Apart
<1>15. Owners(r)'
  <2>1. \A a \in Boxes : r[a] # <<>> => q[a] # <<>>
    BY <1>6, <1>7
  <2>2. \A a \in Boxes : r[a] # <<>> =>
            a \in box_used /\ a = First(BoxesOf(owner_pid[a]))
    BY <2>1 DEF InvFor, Owners
  <2>3. \A a \in box_used, c \in Boxes : c < a => c \in box_used
    BY DEF InvFor, Owners
  <2>4. QED
    BY <1>10, <2>2, <2>3 DEF Owners, BoxesOf, boxes
<1>16. TailsFor(r, t)'
  BY <1>1, <1>2, <1>7, <1>10, <1>11
  DEF InvFor, TailsFor, Working, boxes, locals
<1>17. CountsFor(r, t)'
  <2>1. count[b] = Len(r[b]) - 1
    <3>1. count[b] = Len(q[b])
      BY <1>1, <1>5 DEF InvFor, CountsFor, Working, Adding, Taking
    <3>2. QED
      BY <1>7, <1>8, <3>1
  <2>2. \A a \in Boxes \ {b} : count[a] = Len(r[a])
    BY <1>1, <1>7 DEF InvFor, CountsFor, Working, Adding, Taking
  <2>3. QED
    BY <1>2, <1>10, <1>11, <2>1, <2>2
    DEF CountsFor, Working, Adding, Taking, boxes, locals
<1>18. PoolFor(r, t)'
  BY <1>1, <1>3, <1>4, <1>7, <1>10, <1>11 DEF InvFor, PoolFor, Held, locals
<1>19. Written(r)'
  BY <1>4, <1>7, <1>10 DEF InvFor, Written
<1>20. AccountedFor(r, t)'
  BY <1>1, <1>7, <1>10, <1>11
  DEF InvFor, AccountedFor, Delivering, Taking, locals, history
<1>21. SendLocals(r, t)'
  BY <1>2, <1>3, <1>4, <1>5, <1>7, <1>10, <1>11
  DEF SendLocals, Sending, Adding, Filling, Linking, locals, boxes, BoxesOf
<1>22. ReceiveLocals(r, t)'
  BY <1>11 DEF ReceiveLocals, Taking
<1>23. QED
  BY <1>7, <1>11, <1>12, <1>13, <1>14, <1>15, <1>16, <1>17, <1>18, <1>19,
     <1>20, <1>21, <1>22 DEF InvFor

(* ... or becomes the head of one that is.                                 *)
LEMMA SendLinkHeadKeeps ==
    ASSUME NEW q \in QueueType, NEW t \in Tasks, InvFor(q, t), SendLinkHead(t),
           NEW r, r = Added(q, box[t], msg[t])
    PROVE  r \in QueueType /\ InvFor(r, t)'
<1>1. TypeOK /\ Others(t) /\ pc[t] = "link head"
  BY DEF InvFor, SendLinkHead, At
<1>2. PICK b : b = box[t]
  OBVIOUS
<1>3. PICK m : m = msg[t]
  OBVIOUS
<1>4. /\ m \in Msgs /\ m # Null /\ dest[t] \in Tasks
      /\ n[t] \in Payloads /\ n[t] \in Nat
      /\ m \in msg_used \ InQueues(q)
      /\ msg_next[m] = Null /\ msg_data[m] = n[t]
  BY <1>1, <1>3, SenderHolds DEF Sending, Adding, Filling
<1>5. /\ b \in BoxesOf(dest[t]) /\ b \in Boxes /\ b \in box_used
      /\ b = First(BoxesOf(dest[t])) /\ owner_pid[b] = dest[t]
  BY <1>1, <1>2, SenderAt DEF Linking
<1>6. q[b] = <<>> /\ Len(q[b]) = 0
  BY <1>1, <1>2 DEF InvFor, SendLocals
<1>7. /\ r \in QueueType /\ Apart(r)
      /\ InQueues(r) = InQueues(q) \cup {m}
      /\ \A a \in Boxes \ {b} : r[a] = q[a]
      /\ Len(r[b]) = Len(q[b]) + 1
      /\ r[b] # <<>> /\ LastOf(r[b]) = m
      /\ r[b][Len(q[b]) + 1] = m
  <2>1. r = Added(q, b, m)
    BY <1>2, <1>3
  <2>2. Apart(q)
    BY DEF InvFor
  <2>3. QED
    BY <1>4, <1>5, <2>1, <2>2, QueueAdds
<1>8. Len(r[b]) = 1 /\ r[b][1] = m
  BY <1>6, <1>7
<1>9. /\ pool' = pool /\ locals' = locals /\ history' = history
      /\ box_used' = box_used /\ owner_pid' = owner_pid
      /\ tail' = tail /\ count' = count /\ head' = [head EXCEPT ![b] = m]
  BY <1>2, <1>3 DEF SendLinkHead
<1>10. pc'[t] = "set tail" /\ pc' \in [Tasks -> Points] /\ Others(t)'
  <2>1. msg' = [msg EXCEPT ![t] = msg[t]]
    BY <1>1, <1>9 DEF TypeOK, locals
  <2>2. QED
    BY <1>1, <2>1, Moves DEF SendLinkHead, Points
<1>11. TypeOK'
  BY <1>1, <1>4, <1>9, <1>10 DEF TypeOK, pool, locals, history
<1>12. Lists(r)'
  <2>1. ASSUME NEW a \in Boxes \ {b} PROVE IsList(msg_next', head'[a], r[a])
    BY <1>1, <1>7, <1>9 DEF InvFor, Lists, TypeOK, pool
  <2>2. IsList(msg_next', head'[b], r[b])
    <3>1. head'[b] = m /\ msg_next'[m] = Null
      BY <1>1, <1>4, <1>5, <1>9 DEF TypeOK, pool
    <3>2. \A i \in 1..Len(r[b]) : i = 1 /\ i = Len(r[b])
      <4>1. \A i \in 1..1 : i = 1
        OBVIOUS
      <4>2. QED
        BY <1>8, <4>1
    <3>3. QED
      BY <1>7, <1>8, <3>1, <3>2 DEF IsList
  <2>3. QED
    BY <2>1, <2>2 DEF Lists
<1>13. Apart(r)'
  BY <1>7 DEF Apart
<1>14. Owners(r)'
  <2>1. ASSUME NEW a \in Boxes, r[a] # <<>>
        PROVE  a \in box_used /\ a = First(BoxesOf(owner_pid[a]))
    <3>1. CASE a = b
      BY <1>5, <3>1
    <3>2. CASE a # b
      BY <1>7, <2>1, <3>2 DEF InvFor, Owners
    <3>3. QED
      BY <3>1, <3>2
  <2>2. \A a \in box_used, c \in Boxes : c < a => c \in box_used
    BY DEF InvFor, Owners
  <2>3. QED
    BY <1>9, <2>1, <2>2 DEF Owners, BoxesOf
<1>15. TailsFor(r, t)'
  BY <1>1, <1>2, <1>7, <1>9, <1>10 DEF InvFor, TailsFor, Working, locals
<1>16. CountsFor(r, t)'
  <2>1. count[b] = Len(r[b]) - 1
    <3>1. count[b] = Len(q[b])
      BY <1>1, <1>5 DEF InvFor, CountsFor, Working, Adding, Taking
    <3>2. QED
      BY <1>6, <1>8, <3>1
  <2>2. \A a \in Boxes \ {b} : count[a] = Len(r[a])
    BY <1>1, <1>7 DEF InvFor, CountsFor, Working, Adding, Taking
  <2>3. QED
    BY <1>2, <1>9, <1>10, <2>1, <2>2
    DEF CountsFor, Working, Adding, Taking, locals
<1>17. PoolFor(r, t)'
  BY <1>1, <1>3, <1>4, <1>7, <1>9, <1>10
  DEF InvFor, PoolFor, Held, locals, pool
<1>18. Written(r)'
  BY <1>4, <1>7, <1>9 DEF InvFor, Written, pool
<1>19. AccountedFor(r, t)'
  BY <1>1, <1>7, <1>9, <1>10
  DEF InvFor, AccountedFor, Delivering, Taking, locals, history, pool
<1>20. SendLocals(r, t)'
  BY <1>2, <1>3, <1>4, <1>5, <1>7, <1>9, <1>10
  DEF SendLocals, Sending, Adding, Filling, Linking, locals, pool, BoxesOf
<1>21. ReceiveLocals(r, t)'
  BY <1>10 DEF ReceiveLocals, Taking
<1>22. QED
  BY <1>7, <1>10, <1>11, <1>12, <1>13, <1>14, <1>15, <1>16, <1>17, <1>18,
     <1>19,
     <1>20, <1>21 DEF InvFor

(* A sequence that is neither empty nor of one message has a second.       *)
LEMMA SecondExists ==
    ASSUME NEW k \in Nat, k # 0, k # 1
    PROVE  1 + 1 \in 1..k
  OBVIOUS

(* head moves on: the queue loses its first message.                       *)
LEMMA ReceiveAdvanceKeeps ==
    ASSUME NEW q \in QueueType, NEW t \in Tasks, InvFor(q, t),
           ReceiveAdvance(t),
           NEW r, r = Shortened(q, box[t])
    PROVE  r \in QueueType /\ InvFor(r, t)'
<1>1. TypeOK /\ Others(t) /\ pc[t] = "advance"
  BY DEF InvFor, ReceiveAdvance, At
<1>2. PICK b : b = box[t]
  OBVIOUS
<1>3. PICK m : m = msg[t]
  OBVIOUS
<1>4. b \in BoxesOf(t) /\ b \in Boxes /\ b \in box_used /\ owner_pid[b] = t
  BY <1>1, <1>2, ReceiverAt
<1>5. q[b] # <<>> /\ m = q[b][1]
  BY <1>1, <1>2, <1>3 DEF InvFor, ReceiveLocals
<1>6. /\ r \in QueueType /\ Apart(r)
      /\ InQueues(r) = InQueues(q) \ {m}
      /\ \A a \in Boxes \ {b} : r[a] = q[a]
      /\ Len(r[b]) = Len(q[b]) - 1 /\ Len(q[b]) \in Nat \ {0}
      /\ r[b] = <<>> <=> Len(q[b]) = 1
      /\ \A i \in 1..Len(r[b]) : r[b][i] = q[b][i + 1]
  <2>1. r = Shortened(q, b)
    BY <1>2
  <2>2. Apart(q)
    BY DEF InvFor
  <2>3. QED
    BY <1>4, <1>5, <2>1, <2>2, QueueFalls
<1>7. /\ m \in Msgs /\ head[b] = m /\ m \in InQueues(q)
      /\ LastOf(q[b]) = q[b][Len(q[b])]
  BY <1>4, <1>5, QueuedAt DEF InvFor
<1>8. IsList(msg_next, head[b], q[b])
  BY <1>4 DEF InvFor, Lists
<1>9. PICK k \in Nat : k # 0 /\ k = Len(q[b])
  BY <1>6
<1>10. msg_next[m] = IF k = 1 THEN Null ELSE q[b][1 + 1]
  <2>1. 1 \in 1..Len(q[b])
    BY <1>9
  <2>2. msg_next[q[b][1]] = IF 1 = Len(q[b]) THEN Null ELSE q[b][1 + 1]
    BY <1>8, <2>1 DEF IsList
  <2>3. QED
    BY <1>5, <1>9, <2>1, <2>2
<1>11. k # 1 => q[b][1 + 1] \in Msgs /\ q[b][1 + 1] # Null
  <2>1. k # 1 => 1 + 1 \in 1..Len(q[b])
    <3>1. k # 1 => 1 + 1 \in 1..k
      BY <1>9, SecondExists
    <3>2. QED
      BY <1>9, <3>1
  <2>2. \A x \in Msgs : x # Null
    BY DEF Msgs, Null
  <2>3. QED
    BY <1>4, <2>1, <2>2 DEF QueueType
<1>12. /\ pool' = pool /\ locals' = locals /\ history' = history
       /\ box_used' = box_used /\ owner_pid' = owner_pid
       /\ tail' = tail /\ count' = count
       /\ head' = [head EXCEPT ![b] = msg_next[m]]
  BY <1>2, <1>3 DEF ReceiveAdvance
<1>13. /\ pc'[t] = IF k = 1 THEN "clear tail" ELSE "load down"
       /\ pc' \in [Tasks -> Points] /\ Others(t)'
  <2>1. msg' = [msg EXCEPT ![t] = msg[t]]
    BY <1>1, <1>12 DEF TypeOK, locals
  <2>2. Goto(t, IF k = 1 THEN "clear tail" ELSE "load down")
    BY <1>3, <1>10, <1>11 DEF ReceiveAdvance
  <2>3. (IF k = 1 THEN "clear tail" ELSE "load down") \in Points
    BY DEF Points
  <2>4. QED
    BY <1>1, <2>1, <2>2, <2>3, Moves
<1>14. TypeOK'
  BY <1>1, <1>7, <1>12, <1>13 DEF TypeOK, pool, locals, history
<1>15. Lists(r)'
  <2>1. ASSUME NEW a \in Boxes \ {b} PROVE IsList(msg_next', head'[a], r[a])
    BY <1>1, <1>6, <1>12 DEF InvFor, Lists, TypeOK, pool
  <2>2. IsList(msg_next', head'[b], r[b])
    <3>1. head'[b] = msg_next[m] /\ msg_next' = msg_next
      BY <1>1, <1>4, <1>12 DEF TypeOK, pool
    <3>2. r[b] = <<>> => msg_next[m] = Null
      BY <1>6, <1>9, <1>10
    <3>3. r[b] # <<>> => msg_next[m] = r[b][1]
      <4>1. r[b] # <<>> => k # 1 /\ 1 \in 1..Len(r[b])
        BY <1>6, <1>9
      <4>2. QED
        BY <1>6, <1>10, <4>1
    <3>4. ASSUME NEW i \in 1..Len(r[b])
          PROVE  msg_next[r[b][i]] = IF i = Len(r[b]) THEN Null ELSE r[b][i + 1]
      <4>1. i + 1 \in 1..k /\ r[b][i] = q[b][i + 1] /\ Len(r[b]) = k - 1
        BY <1>6, <1>9
      <4>2. msg_next[q[b][i + 1]] =
                  IF i + 1 = k THEN Null ELSE q[b][(i + 1) + 1]
        BY <1>8, <1>9, <4>1 DEF IsList
      <4>3. i # k - 1 => i + 1 \in 1..Len(r[b])
        BY <4>1
      <4>4. i # k - 1 => r[b][i + 1] = q[b][(i + 1) + 1]
        BY <1>6, <4>3
      <4>5. i + 1 = k <=> i = k - 1
        BY <1>9
      <4>6. QED
        BY <4>1, <4>2, <4>4, <4>5
    <3>5. QED
      BY <3>1, <3>2, <3>3, <3>4 DEF IsList
  <2>3. QED
    BY <2>1, <2>2 DEF Lists
<1>16. Apart(r)'
  BY <1>6 DEF Apart
<1>17. Owners(r)'
  <2>1. \A a \in Boxes : r[a] # <<>> => q[a] # <<>>
    BY <1>5, <1>6
  <2>2. \A a \in Boxes : r[a] # <<>> =>
            a \in box_used /\ a = First(BoxesOf(owner_pid[a]))
    BY <2>1 DEF InvFor, Owners
  <2>3. \A a \in box_used, c \in Boxes : c < a => c \in box_used
    BY DEF InvFor, Owners
  <2>4. QED
    BY <1>12, <2>2, <2>3 DEF Owners, BoxesOf
<1>18. TailsFor(r, t)'
  <2>1. k # 1 => LastOf(r[b]) = LastOf(q[b])
    <3>1. k # 1 => /\ Len(r[b]) \in 1..Len(r[b]) /\ Len(r[b]) + 1 = k
                   /\ r[b] # <<>>
      BY <1>6, <1>9
    <3>2. k # 1 => r[b][Len(r[b])] = q[b][k]
      BY <1>6, <3>1
    <3>3. QED
      BY <1>7, <1>9, <3>1, <3>2 DEF LastOf
  <2>2. QED
    BY <1>1, <1>2, <1>4, <1>6, <1>12, <1>13, <2>1
    DEF InvFor, TailsFor, Working, locals
<1>19. CountsFor(r, t)'
  <2>1. count[b] = Len(r[b]) + 1
    <3>1. count[b] = Len(q[b])
      BY <1>1, <1>4 DEF InvFor, CountsFor, Working, Adding, Taking
    <3>2. QED
      BY <1>6, <3>1
  <2>2. \A a \in Boxes \ {b} : count[a] = Len(r[a])
    BY <1>1, <1>6 DEF InvFor, CountsFor, Working, Adding, Taking
  <2>3. QED
    BY <1>2, <1>12, <1>13, <2>1, <2>2
    DEF CountsFor, Working, Adding, Taking, locals
<1>20. \A x \in Msgs : x # Null
  BY DEF Msgs, Null
<1>21. PoolFor(r, t)'
  BY <1>1, <1>3, <1>6, <1>7, <1>12, <1>13, <1>20
  DEF InvFor, PoolFor, Held, locals, pool
<1>22. Written(r)'
  BY <1>6, <1>12 DEF InvFor, Written, pool
<1>23. AccountedFor(r, t)'
  BY <1>1, <1>3, <1>6, <1>12, <1>13
  DEF InvFor, AccountedFor, Delivering, Taking, locals, history, pool
<1>24. SendLocals(r, t)'
  BY <1>13 DEF SendLocals, Sending, Adding, Filling, Linking
<1>25. ReceiveLocals(r, t)'
  <2>1. m \in msg_used /\ msg_data[m] \in Payloads
    BY <1>7 DEF InvFor, PoolFor, Written
  <2>2. k = 1 => r[b] = <<>>
    BY <1>6, <1>9
  <2>3. QED
    BY <1>2, <1>3, <1>4, <1>6, <1>12, <1>13, <2>1, <2>2
    DEF ReceiveLocals, Taking, locals, pool, BoxesOf
<1>26. QED
  BY <1>6, <1>13, <1>14, <1>15, <1>16, <1>17, <1>18, <1>19, <1>21, <1>22,
     <1>23, <1>24, <1>25 DEF InvFor
-----------------------------------------------------------------------------
(* Chain finds the list.                                                   *)

Walked(next, w, k, m) ==
    IF k = 0 \/ m = Null THEN <<>> ELSE <<m>> \o w[k - 1][next[m]]

Links == Msgs \cup {Null}

(* There are walks of any number of steps: the definition of Walk defines  *)
(* something.                                                              *)
LEMMA WalksExist ==
    ASSUME NEW next, NEW l \in Nat
    PROVE  \E w : w = [k \in 0..l |-> [m \in Links |-> Walked(next, w, k, m)]]
<1> DEFINE IsWalk(w, l1) ==
             w = [k \in 0..l1 |-> [m \in Links |-> Walked(next, w, k, m)]]
           Missing == {l1 \in Nat : ~(\E w : IsWalk(w, l1))}
<1>1. SUFFICES ASSUME Missing # {} PROVE FALSE
  OBVIOUS
<1> HIDE DEF IsWalk
<1>2. PICK j \in Missing : \A i \in Missing : j <= i
  BY <1>1, LeastOne
<1>3. j # 0
  <2> DEFINE w0 == [k \in 0..0 |-> [m \in Links |-> <<>>]]
  <2>1. \A k \in 0..0, m \in Links : Walked(next, w0, k, m) = <<>>
    BY DEF Walked
  <2>2. IsWalk(w0, 0)
    BY <2>1 DEF IsWalk
  <2>3. QED
    BY <2>2
<1>4. j - 1 \in Nat /\ j - 1 \notin Missing
  BY <1>2, <1>3
<1>5. PICK w : IsWalk(w, j - 1)
  BY <1>4
<1>6. w = [k \in 0..(j - 1) |-> [m \in Links |-> Walked(next, w, k, m)]]
  BY <1>5 DEF IsWalk
<1> DEFINE v == [k \in 0..j |-> [m \in Links |-> Walked(next, w, k, m)]]
<1>7. ASSUME NEW k \in 0..(j - 1) PROVE v[k] = w[k]
  <2>1. k \in 0..j
    BY <1>2, <1>3
  <2>2. v[k] = [m \in Links |-> Walked(next, w, k, m)]
    BY <2>1
  <2>3. w[k] = [m \in Links |-> Walked(next, w, k, m)]
    BY <1>6
  <2>4. QED
    BY <2>2, <2>3
<1> HIDE DEF v
<1>8. \A k \in 0..j, m \in Links : Walked(next, w, k, m) = Walked(next, v, k, m)
  <2>1. ASSUME NEW k \in 0..j, NEW m \in Links, k # 0
        PROVE  w[k - 1] = v[k - 1]
    <3>1. k - 1 \in 0..(j - 1)
      BY <1>2, <2>1
    <3>2. QED
      BY <1>7, <3>1
  <2>2. QED
    BY <2>1 DEF Walked
<1>9. v = [k \in 0..j |-> [m \in Links |-> Walked(next, v, k, m)]]
  BY <1>8 DEF v
<1>10. IsWalk(v, j)
  BY <1>9 DEF IsWalk
<1>11. QED
  BY <1>2, <1>10

(* The equation Walk is defined by.                                        *)
LEMMA WalkStep ==
    ASSUME NEW next, NEW k \in 0..NumMessages, NEW m \in Links
    PROVE  Walk(next)[k][m] = Walked(next, Walk(next), k, m)
<1>1. \E w : w = [i \in 0..NumMessages |->
                   [x \in Links |-> Walked(next, w, i, x)]]
  BY WalksExist, SizesAssumption
<1>2. Walk(next) = [i \in 0..NumMessages |->
                       [x \in Links |-> Walked(next, Walk(next), i, x)]]
  BY <1>1 DEF Walk, Walked, Links
<1> DEFINE w == Walk(next)
<1> HIDE DEF w
<1>3. w = [i \in 0..NumMessages |-> [x \in Links |-> Walked(next, w, i, x)]]
  BY <1>2 DEF w
<1>4. w[k] = [x \in Links |-> Walked(next, w, k, x)]
  BY <1>3
<1>5. w[k][m] = Walked(next, w, k, m)
  BY <1>4
<1>6. QED
  BY <1>5 DEF w

(* A list that holds no message twice is not longer than the pool.         *)
LEMMA ListFits ==
    ASSUME NEW s \in Seq(Msgs),
           \A i, j \in 1..Len(s) : s[i] = s[j] => i = j
    PROVE  Len(s) <= NumMessages
<1>1. SUFFICES ASSUME Len(s) > NumMessages PROVE FALSE
  BY SizesAssumption
<1>2. IsFiniteSet(1..Len(s)) /\ Cardinality(1..Len(s)) = Len(s)
  <2>1. Len(s) > 0 /\ Len(s) \in Int /\ 1 \in Int /\ ~(1 > Len(s))
    BY <1>1, SizesAssumption
  <2>2. QED
    BY <2>1, FS_Interval
<1>3. IsFiniteSet(Msgs) /\ Cardinality(Msgs) = NumMessages
  <2>1. NumMessages \in Int /\ 1 \in Int /\ (1 > NumMessages => NumMessages = 0)
    BY SizesAssumption
  <2>2. QED
    BY <2>1, FS_Interval DEF Msgs
<1>4. s \in [1..Len(s) -> Msgs]
  OBVIOUS
<1>5. \E x, y \in 1..Len(s) : x # y /\ s[x] = s[y]
  BY <1>1, <1>2, <1>3, <1>4, FS_PigeonHole
<1>6. QED
  BY <1>5

(* A walk that begins in the middle of a list finds the rest of it.        *)
LEMMA WalkFindsRest ==
    ASSUME NEW next, NEW h, NEW s \in Seq(Msgs), IsList(next, h, s)
    PROVE  \A d \in 0..Len(s), k \in 0..NumMessages :
               d < Len(s) /\ Len(s) - d <= k =>
                  Walk(next)[k][s[d + 1]] = SubSeq(s, d + 1, Len(s))
<1> DEFINE Bad == {l \in 0..Len(s) :
                     \E d \in 0..Len(s), k \in 0..NumMessages :
                        /\ l = Len(s) - d /\ d < Len(s) /\ l <= k
                        /\ Walk(next)[k][s[d + 1]] # SubSeq(s, d + 1, Len(s))}
<1>1. Len(s) \in Nat
  OBVIOUS
<1>2. SUFFICES ASSUME Bad # {} PROVE FALSE
  <2>1. \A d \in 0..Len(s) : Len(s) - d \in 0..Len(s)
    BY <1>1
  <2>2. Bad = {}
    BY <1>2
  <2>3. QED
    BY <2>1, <2>2
<1>3. Bad \in SUBSET Nat
  BY <1>1
<1>4. PICK l \in Bad : \A j \in Bad : l <= j
  BY <1>2, <1>3, LeastOne
<1>5. PICK d \in 0..Len(s) : \E k \in 0..NumMessages :
          /\ l = Len(s) - d /\ d < Len(s) /\ l <= k
          /\ Walk(next)[k][s[d + 1]] # SubSeq(s, d + 1, Len(s))
  BY <1>4
<1>6. PICK k \in 0..NumMessages :
          /\ l = Len(s) - d /\ d < Len(s) /\ l <= k
          /\ Walk(next)[k][s[d + 1]] # SubSeq(s, d + 1, Len(s))
  BY <1>5
<1> HIDE DEF Bad
<1>7. d + 1 \in 1..Len(s) /\ k # 0 /\ k \in Nat
      /\ l # 0 /\ l \in Nat /\ d \in Nat
  BY <1>1, <1>6
<1>8. s[d + 1] \in Msgs /\ s[d + 1] # Null /\ s[d + 1] \in Links
  <2>1. s[d + 1] \in Msgs
    BY <1>7, ElementOfSeq
  <2>2. \A x \in Msgs : x # Null
    BY DEF Msgs, Null
  <2>3. QED
    BY <2>1, <2>2 DEF Links
<1>9. Walk(next)[k][s[d + 1]] =
          <<s[d + 1]>> \o Walk(next)[k - 1][next[s[d + 1]]]
  BY <1>6, <1>7, <1>8, WalkStep DEF Walked
<1>10. SubSeq(s, d + 1, Len(s)) = <<s[d + 1]>> \o SubSeq(s, (d + 1) + 1, Len(s))
  <2>1. Len(s) \in (d + 1)..Len(s)
    BY <1>1, <1>7
  <2>2. QED
    BY <1>7, <2>1, SubSeqRecursiveFirst
<1>11. k - 1 \in 0..NumMessages /\ k - 1 \in Nat
  BY <1>7, SizesAssumption
<1>12. CASE d + 1 = Len(s)
  <2>1. next[s[d + 1]] = Null
    BY <1>7, <1>12 DEF IsList
  <2>2. Walk(next)[k - 1][Null] = <<>>
    BY <1>11, WalkStep DEF Walked, Links
  <2>3. SubSeq(s, (d + 1) + 1, Len(s)) = <<>>
    <3>1. (d + 1) + 1 \in Int /\ Len(s) \in Int /\ Len(s) < (d + 1) + 1
      BY <1>7, <1>12
    <3>2. QED
      BY <3>1, SubSeqEmpty
  <2>4. QED
    BY <1>6, <1>9, <1>10, <2>1, <2>2, <2>3
<1>13. CASE d + 1 # Len(s)
  <2>1. next[s[d + 1]] = s[(d + 1) + 1]
    BY <1>7, <1>13 DEF IsList
  <2>2. /\ d + 1 \in 0..Len(s) /\ d + 1 < Len(s)
        /\ l - 1 = Len(s) - (d + 1) /\ l - 1 <= k - 1 /\ l - 1 \in 0..Len(s)
        /\ ~(l <= l - 1)
    BY <1>1, <1>6, <1>7, <1>13
  <2>3. l - 1 \notin Bad
    BY <1>4, <2>2
  <2>4. Walk(next)[k - 1][s[(d + 1) + 1]] = SubSeq(s, (d + 1) + 1, Len(s))
    BY <1>11, <2>2, <2>3 DEF Bad
  <2>5. QED
    BY <1>6, <1>9, <1>10, <2>1, <2>4
<1>14. QED
  BY <1>12, <1>13

(* Chain(head[b]) is the queue of mailbox b.                               *)
LEMMA ChainIs ==
    ASSUME NEW q \in QueueType, Lists(q), Apart(q), NEW b \in Boxes
    PROVE  Chain(head[b]) = q[b]
<1>1. q[b] \in Seq(Msgs) /\ Len(q[b]) \in Nat
  BY DEF QueueType
<1>2. IsList(msg_next, head[b], q[b])
  BY DEF Lists
<1>3. Len(q[b]) <= NumMessages
  <2>1. \A i, j \in 1..Len(q[b]) : q[b][i] = q[b][j] => i = j
    BY DEF Apart
  <2>2. QED
    BY <1>1, <2>1, ListFits
<1>4. NumMessages \in 0..NumMessages
  BY SizesAssumption
<1>5. CASE q[b] = <<>>
  <2>1. head[b] = Null /\ Null \in Links
    BY <1>2, <1>5 DEF IsList, Links
  <2>2. QED
    BY <1>4, <1>5, <2>1, WalkStep DEF Chain, Walked
<1>6. CASE q[b] # <<>>
  <2>1. head[b] = q[b][1]
    BY <1>2, <1>6 DEF IsList
  <2>2. Len(q[b]) # 0
    BY <1>1, <1>6, EmptySeq
  <2>3. 0 \in 0..Len(q[b]) /\ 0 < Len(q[b]) /\ Len(q[b]) - 0 <= NumMessages
        /\ 0 + 1 = 1
    BY <1>1, <1>3, <2>2
  <2>4. Walk(msg_next)[NumMessages][q[b][0 + 1]] =
            SubSeq(q[b], 0 + 1, Len(q[b]))
    BY <1>1, <1>2, <1>4, <2>3, WalkFindsRest
  <2>5. QED
    BY <1>1, <2>1, <2>3, <2>4, SubSeqFull DEF Chain
<1>7. QED
  BY <1>5, <1>6


(* A call of ipc_send that finds a message.                                *)
LEMMA SendBeginKeeps ==
    ASSUME NEW q \in QueueType, NEW t \in Tasks, NEW d \in Tasks,
           InvFor(q, t), SendBegin(t, d)
    PROVE  InvFor(q, t)'
<1>1. TypeOK /\ Others(t) /\ pc[t] = "idle"
  BY DEF InvFor, SendBegin, At
<1>2. PICK m : m = First(Msgs \ msg_used)
  OBVIOUS
<1>3. m \in Msgs \ msg_used /\ m \notin InQueues(q) /\ m # Null
  <2>1. Msgs \ msg_used \in SUBSET Nat
    BY DEF Msgs
  <2>2. m \in Msgs \ msg_used
    BY <1>2, <2>1, FirstIs DEF SendBegin
  <2>3. QED
    BY <2>2 DEF InvFor, PoolFor, Msgs, Null
<1>4. calls + 1 \in Payloads /\ calls + 1 \in Nat /\ calls + 1 \in 0..MaxSends
  BY <1>1, SizesAssumption DEF TypeOK, SendBegin, Payloads
<1>5. /\ pool' = pool /\ boxes' = boxes /\ box' = box
      /\ sent' = sent /\ received' = received /\ calls' = calls + 1
      /\ msg' = [msg EXCEPT ![t] = m] /\ dest' = [dest EXCEPT ![t] = d]
      /\ n' = [n EXCEPT ![t] = calls + 1]
  BY <1>2 DEF SendBegin
<1>6. pc'[t] = "claim" /\ pc' \in [Tasks -> Points] /\ Others(t)'
  BY <1>1, <1>5, Moves DEF SendBegin, Points
<1>7. TypeOK'
  BY <1>1, <1>3, <1>4, <1>5, <1>6 DEF TypeOK, pool, boxes
<1>8. Lists(q)' /\ Apart(q)' /\ Owners(q)'
  <2>1. Lists(q)' /\ Apart(q)'
    BY <1>5 DEF InvFor, Lists, Apart, pool, boxes
  <2>2. Owners(q)'
    BY <1>5 DEF InvFor, Owners, BoxesOf, boxes
  <2>3. QED
    BY <2>1, <2>2
<1>9. TailsFor(q, t)'
  BY <1>1, <1>5, <1>6 DEF InvFor, TailsFor, Working, boxes
<1>10. CountsFor(q, t)'
  BY <1>1, <1>5, <1>6 DEF InvFor, CountsFor, Working, boxes, Adding, Taking
<1>11. PoolFor(q, t)'
  BY <1>1, <1>5, <1>6 DEF InvFor, PoolFor, Held, pool
<1>12. Written(q)' /\ AccountedFor(q, t)'
  BY <1>1, <1>5, <1>6
  DEF InvFor, Written, AccountedFor, Delivering, Taking, pool
<1>13. SendLocals(q, t)'
  BY <1>1, <1>3, <1>4, <1>5, <1>6
  DEF TypeOK, SendLocals, Sending, Adding, Filling, Linking, pool
<1>14. ReceiveLocals(q, t)'
  BY <1>6 DEF ReceiveLocals, Taking
<1>15. QED
  BY <1>6, <1>7, <1>8, <1>9, <1>10, <1>11, <1>12, <1>13, <1>14 DEF InvFor

(* What changes nothing but the number of calls.                           *)
LEMMA NothingKeeps ==
    ASSUME NEW q \in QueueType, Inv(q), calls' \in 0..MaxSends,
           UNCHANGED <<pool, boxes, pc, locals, sent, received>>
    PROVE  Inv(q)'
<1>1. /\ msg_used' = msg_used /\ msg_next' = msg_next /\ msg_data' = msg_data
      /\ box_used' = box_used /\ owner_pid' = owner_pid /\ head' = head
      /\ tail' = tail /\ count' = count /\ pc' = pc /\ msg' = msg
      /\ box' = box /\ dest' = dest /\ n' = n /\ sent' = sent
      /\ received' = received
  BY DEF pool, boxes, locals
<1>2. TypeOK'
  BY <1>1 DEF Inv, TypeOK
<1>3. Alone' /\ Lists(q)' /\ Apart(q)'
  BY <1>1 DEF Inv, Alone, Lists, Apart
<1>4. Tails(q)'
  BY <1>1 DEF Inv, Tails, Working
<1>5. Counts(q)'
  BY <1>1 DEF Inv, Counts, Working
<1>6. Owners(q)'
  BY <1>1 DEF Inv, Owners, BoxesOf
<1>7. PoolOK(q)' /\ Written(q)' /\ Accounted(q)'
  BY <1>1 DEF Inv, PoolOK, Held, Written, Accounted, Delivering
<1>8. ASSUME NEW t \in Tasks PROVE SendLocals(q, t)'
  <2>1. SendLocals(q, t)
    BY DEF Inv
  <2>2. QED
    BY <1>1, <2>1 DEF SendLocals, BoxesOf
<1>9. ASSUME NEW t \in Tasks PROVE ReceiveLocals(q, t)'
  <2>1. ReceiveLocals(q, t)
    BY DEF Inv
  <2>2. QED
    BY <1>1, <2>1 DEF ReceiveLocals, BoxesOf
<1>10. QED
  BY <1>2, <1>3, <1>4, <1>5, <1>6, <1>7, <1>8, <1>9 DEF Inv

-----------------------------------------------------------------------------
(* The invariant holds.                                                    *)

(* At boot all queues are empty and nobody holds a message.                *)
LEMMA InitInv ==
    ASSUME Init
    PROVE  IPCInv /\ \A t \in Tasks : QueueOf(t) = <<>>
<1> DEFINE q == [b \in Boxes |-> <<>>]
<1>1. /\ q \in QueueType
      /\ \A b \in Boxes : q[b] = <<>> /\ Len(q[b]) = 0
  BY DEF QueueType
<1> HIDE DEF q
<1>2. InQueues(q) = {}
  BY <1>1 DEF InQueues, Elements
<1>3. TypeOK
  BY SizesAssumption, TasksAssumption DEF Init, TypeOK, Points
<1>4. Lists(q) /\ Apart(q)
  BY <1>1 DEF Init, Lists, IsList, Apart
<1>5. Alone /\ Tails(q) /\ Counts(q) /\ Owners(q)
  BY <1>1
  DEF Init, Alone, Tails, Counts, Owners, LastOf, Working, Adding, Taking
<1>6. PoolOK(q) /\ Written(q) /\ Accounted(q)
  BY <1>2 DEF Init, PoolOK, Written, Accounted
<1>7. \A t \in Tasks : SendLocals(q, t) /\ ReceiveLocals(q, t)
  BY <1>1 DEF Init, SendLocals, ReceiveLocals, Sending, Adding, Filling,
              Linking, Taking
<1>8. IPCInv
  BY <1>1, <1>3, <1>4, <1>5, <1>6, <1>7 DEF IPCInv, Inv
<1>9. \A t \in Tasks : QueueOf(t) = <<>>
  BY DEF Init, QueueOf, Mailbox, BoxesOf
<1>10. QED
  BY <1>8, <1>9

(* The messages on their way to each task, if q is what is queued.         *)
Data(s) == [i \in 1..Len(s) |-> msg_data[s[i]]]

Promised(q) == [u \in Tasks |->
    IF BoxesOf(u) = {} THEN <<>> ELSE Data(q[First(BoxesOf(u))])]

(* What the queues' contents promise each task is what QueueOf says.       *)
LEMMA PromisedIs ==
    ASSUME NEW q \in QueueType, Inv(q)
    PROVE  Promised(q) = [u \in Tasks |-> QueueOf(u)]
<1>1. ASSUME NEW u \in Tasks
      PROVE  Promised(q)[u] = QueueOf(u)
  <2>1. CASE BoxesOf(u) = {}
    BY <2>1 DEF Promised, QueueOf, Mailbox
  <2>2. CASE BoxesOf(u) # {}
    <3>1. First(BoxesOf(u)) \in Boxes /\ First(BoxesOf(u)) # Null
      BY <2>2, BoxesAreNumbers DEF Inv, Boxes, Null
    <3>2. Chain(head[First(BoxesOf(u))]) = q[First(BoxesOf(u))]
      BY <3>1, ChainIs DEF Inv
    <3>3. QED
      BY <2>2, <3>1, <3>2 DEF Promised, QueueOf, Mailbox, Data
  <2>3. QED
    BY <2>1, <2>2
<1>2. QED
  BY <1>1 DEF Promised

-----------------------------------------------------------------------------
(* A step of a call is a step of the queues, or none.                      *)

Lengthened(f, d, x) == [f EXCEPT ![d] = Append(f[d], x)]

QueueStep(f, g) ==
    \/ g = f
    \/ \E t \in Tasks :
          \/ f[t] # <<>> /\ g = [f EXCEPT ![t] = Tail(f[t])]
          \/ \E m \in Payloads : g = Lengthened(f, t, m)

(* The payloads of a list of messages.                                     *)
LEMMA DataIs ==
    ASSUME TypeOK, NEW s \in Seq(Msgs)
    PROVE  /\ Data(s) \in Seq(Payloads \cup {Null}) /\ Len(Data(s)) = Len(s)
           /\ \A i \in 1..Len(s) : Data(s)[i] = msg_data[s[i]]
           /\ s = <<>> <=> Data(s) = <<>>
<1>1. Data(s) \in [1..Len(s) -> Payloads \cup {Null}]
  BY DEF Data, TypeOK
<1>2. Data(s) \in Seq(Payloads \cup {Null}) /\ Len(Data(s)) = Len(s)
  BY <1>1
<1>3. \A i \in 1..Len(s) : Data(s)[i] = msg_data[s[i]]
  BY DEF Data
<1>4. s = <<>> <=> Len(s) = 0
  BY EmptySeq
<1>5. Data(s) = <<>> <=> Len(Data(s)) = 0
  BY <1>2, EmptySeq
<1>6. QED
  BY <1>2, <1>3, <1>4, <1>5

(* The payloads of a queue behind which a message is hung,                 *)
LEMMA DataAdds ==
    ASSUME TypeOK, NEW s \in Seq(Msgs), NEW m \in Msgs
    PROVE  Data(Append(s, m)) = Append(Data(s), msg_data[m])
<1>1. PICK a : a = Append(s, m)
  OBVIOUS
<1>2. a \in Seq(Msgs) /\ Len(a) = Len(s) + 1 /\ a[Len(s) + 1] = m
      /\ \A i \in 1..Len(s) : a[i] = s[i]
  BY <1>1, AppendProperties
<1>3. msg_data[m] \in Payloads \cup {Null}
  BY DEF TypeOK
<1>4. PICK c : c = Append(Data(s), msg_data[m])
  OBVIOUS
<1>5. c \in Seq(Payloads \cup {Null}) /\ Len(c) = Len(s) + 1
      /\ c[Len(s) + 1] = msg_data[m]
      /\ \A i \in 1..Len(s) : c[i] = msg_data[s[i]]
  <2>1. Data(s) \in Seq(Payloads \cup {Null}) /\ Len(Data(s)) = Len(s)
        /\ \A i \in 1..Len(s) : Data(s)[i] = msg_data[s[i]]
    BY DataIs
  <2>2. c \in Seq(Payloads \cup {Null}) /\ Len(c) = Len(Data(s)) + 1
        /\ c[Len(Data(s)) + 1] = msg_data[m]
        /\ \A i \in 1..Len(Data(s)) : c[i] = Data(s)[i]
    BY <1>3, <1>4, <2>1, AppendProperties
  <2>3. QED
    BY <2>1, <2>2
<1>6. Data(a) \in Seq(Payloads \cup {Null}) /\ Len(Data(a)) = Len(a)
      /\ \A i \in 1..Len(a) : Data(a)[i] = msg_data[a[i]]
  BY <1>2, DataIs
<1>7. ASSUME NEW i \in 1..Len(a) PROVE Data(a)[i] = c[i]
  <2>1. CASE i = Len(s) + 1
    BY <1>2, <1>5, <1>6, <2>1
  <2>2. CASE i # Len(s) + 1
    <3>1. i \in 1..Len(s)
      BY <1>2, <2>2
    <3>2. QED
      BY <1>2, <1>5, <1>6, <3>1
  <2>3. QED
    BY <2>1, <2>2
<1>8. Data(a) = c
  <2>1. Len(Data(a)) = Len(c)
    BY <1>2, <1>5, <1>6
  <2>2. \A i \in 1..Len(Data(a)) : Data(a)[i] = c[i]
    BY <1>6, <1>7
  <2>3. QED
    BY <1>5, <1>6, <2>1, <2>2, SeqEqual
<1>9. QED
  BY <1>1, <1>4, <1>8

(* and of one from which the head is taken.                                *)
LEMMA DataFalls ==
    ASSUME TypeOK, NEW s \in Seq(Msgs), s # <<>>
    PROVE  Data(Tail(s)) = Tail(Data(s)) /\ Data(s) # <<>>
<1>1. PICK a : a = Tail(s)
  OBVIOUS
<1>2. a \in Seq(Msgs) /\ Len(a) = Len(s) - 1
      /\ \A i \in 1..Len(a) : a[i] = s[i + 1]
  BY <1>1, HeadTailProperties
<1>3. /\ Data(s) \in Seq(Payloads \cup {Null}) /\ Len(Data(s)) = Len(s)
      /\ Data(s) # <<>>
      /\ \A i \in 1..Len(s) : Data(s)[i] = msg_data[s[i]]
  BY DataIs
<1>4. PICK c : c = Tail(Data(s))
  OBVIOUS
<1>5. c \in Seq(Payloads \cup {Null}) /\ Len(c) = Len(s) - 1
      /\ \A i \in 1..Len(c) : c[i] = Data(s)[i + 1]
  <2>1. c \in Seq(Payloads \cup {Null}) /\ Len(c) = Len(Data(s)) - 1
        /\ \A i \in 1..Len(c) : c[i] = Data(s)[i + 1]
    BY <1>3, <1>4, HeadTailProperties
  <2>2. QED
    BY <1>3, <2>1
<1>6. Data(a) \in Seq(Payloads \cup {Null}) /\ Len(Data(a)) = Len(a)
      /\ \A i \in 1..Len(a) : Data(a)[i] = msg_data[a[i]]
  BY <1>2, DataIs
<1>7. ASSUME NEW i \in 1..Len(a) PROVE Data(a)[i] = c[i]
  <2>1. i \in 1..Len(c) /\ i + 1 \in 1..Len(s)
    BY <1>2, <1>5
  <2>2. QED
    BY <1>2, <1>3, <1>5, <1>6, <2>1
<1>8. Data(a) = c
  <2>1. Len(Data(a)) = Len(c)
    BY <1>2, <1>5, <1>6
  <2>2. \A i \in 1..Len(Data(a)) : Data(a)[i] = c[i]
    BY <1>6, <1>7
  <2>3. QED
    BY <1>5, <1>6, <2>1, <2>2, SeqEqual
<1>9. QED
  BY <1>1, <1>3, <1>4, <1>8

(* Nothing that is queued changes hands.                                   *)
LEMMA PromiseStays ==
    ASSUME TypeOK, NEW q \in QueueType,
           box_used' = box_used, owner_pid' = owner_pid,
           \A m \in InQueues(q) : msg_data'[m] = msg_data[m]
    PROVE  Promised(q)' = Promised(q)
<1>1. ASSUME NEW b \in Boxes PROVE Data(q[b])' = Data(q[b])
  <2>1. \A i \in 1..Len(q[b]) : msg_data'[q[b][i]] = msg_data[q[b][i]]
    BY InQueuesIs
  <2>2. QED
    BY <2>1 DEF Data
<1>2. \A u : BoxesOf(u)' = BoxesOf(u)
  BY DEF BoxesOf
<1>3. \A u : BoxesOf(u) # {} => First(BoxesOf(u)) \in Boxes
  BY BoxesAreNumbers
<1>4. QED
  BY <1>1, <1>2, <1>3 DEF Promised

(* A new mailbox is behind those its owner has, and empty.                 *)
LEMMA PromiseStaysOpen ==
    ASSUME NEW q \in QueueType, NEW t \in Tasks, InvFor(q, t), CreateOpen(t)
    PROVE  Promised(q)' = Promised(q)
<1>1. TypeOK /\ pc[t] = "open"
  BY DEF InvFor, CreateOpen, At
<1>2. PICK b : b = box[t]
  OBVIOUS
<1>3. b \in Boxes \ box_used /\ b = First(Boxes \ box_used)
  BY <1>1, <1>2 DEF InvFor, ReceiveLocals
<1>4. q[b] = <<>>
  BY <1>3 DEF InvFor, Owners
<1>5. /\ box_used' = box_used \cup {b} /\ msg_data' = msg_data
      /\ owner_pid' = [owner_pid EXCEPT ![b] = t]
  BY <1>2 DEF CreateOpen, pool
<1>6. \A s : Data(s)' = Data(s)
  BY <1>5 DEF Data
<1>7. \A u \in Tasks \ {t} : BoxesOf(u)' = BoxesOf(u)
  BY <1>1, <1>3, <1>5 DEF BoxesOf, TypeOK
<1>8. BoxesOf(t)' = BoxesOf(t) \cup {b}
  BY <1>1, <1>3, <1>5 DEF BoxesOf, TypeOK
<1>9. /\ b \in Nat /\ BoxesOf(t) \in SUBSET Nat
      /\ BoxesOf(t) \in SUBSET box_used
      /\ BoxesOf(t) # {} => /\ First(BoxesOf(t)) \in BoxesOf(t)
                            /\ \A c \in BoxesOf(t) : First(BoxesOf(t)) <= c
  <2>1. b \in Nat
    BY <1>3 DEF Boxes
  <2>2. BoxesOf(t) \in SUBSET box_used
    BY DEF BoxesOf
  <2>3. QED
    BY <1>1, <2>1, <2>2, BoxesAreNumbers
<1>10. CASE BoxesOf(t) = {}
  <2>1. BoxesOf(t)' = {b} /\ {b} \in SUBSET Nat
    BY <1>8, <1>9, <1>10
  <2>2. First(BoxesOf(t)') = b
    BY <2>1, FirstUnique
  <2>3. Data(q[b]) = <<>>
    <3>1. q[b] \in Seq(Msgs)
      BY <1>3 DEF QueueType
    <3>2. QED
      BY <1>1, <1>4, <3>1, DataIs
  <2>4. QED
    BY <1>6, <1>7, <1>10, <2>1, <2>2, <2>3 DEF Promised
<1>11. CASE BoxesOf(t) # {}
  <2>1. First(BoxesOf(t)) <= b
    <3>1. PICK c : c = First(BoxesOf(t))
      OBVIOUS
    <3>2. c \in box_used /\ c \in Nat
      BY <1>9, <1>11, <3>1
    <3>3. b < c => b \in box_used
      BY <1>3, <3>2 DEF InvFor, Owners
    <3>4. QED
      BY <1>3, <1>9, <3>1, <3>2, <3>3
  <2>2. BoxesOf(t)' \in SUBSET Nat /\ First(BoxesOf(t)) \in BoxesOf(t)'
        /\ \A c \in BoxesOf(t)' : First(BoxesOf(t)) <= c
    BY <1>8, <1>9, <1>11, <2>1
  <2>3. First(BoxesOf(t)') = First(BoxesOf(t))
    BY <2>2, FirstUnique
  <2>4. BoxesOf(t)' # {}
    BY <1>8
  <2>5. QED
    BY <1>6, <1>7, <1>11, <2>3, <2>4 DEF Promised
<1>12. QED
  BY <1>10, <1>11

(* The first mailboxes of two tasks are two mailboxes.                     *)
SameBut(q, r, b) == \A a \in Boxes \ {b} : r[a] = q[a]

(* A change of one task's mailbox is none of another's queue.              *)
LEMMA PromisedElsewhere ==
    ASSUME TypeOK, NEW q, NEW r, NEW b, NEW d, owner_pid[b] = d,
           SameBut(q, r, b)
    PROVE  \A u \in Tasks : u # d => Promised(r)[u] = Promised(q)[u]
<1>1. ASSUME NEW u \in Tasks, u # d, BoxesOf(u) # {}
      PROVE  r[First(BoxesOf(u))] = q[First(BoxesOf(u))]
  <2>1. First(BoxesOf(u)) \in BoxesOf(u) /\ First(BoxesOf(u)) \in Boxes
    BY <1>1, BoxesAreNumbers
  <2>2. First(BoxesOf(u)) # b
    BY <1>1, <2>1 DEF BoxesOf
  <2>3. QED
    BY <2>1, <2>2 DEF SameBut
<1>2. QED
  BY <1>1 DEF Promised

(* Linking a message is the step Send of MessageQueues ...                 *)
LEMMA PromiseSent ==
    ASSUME TypeOK, NEW q \in QueueType, NEW d \in Tasks, NEW m \in Msgs,
           NEW b \in Boxes, b \in BoxesOf(d), b = First(BoxesOf(d))
    PROVE  Promised(Added(q, b, m)) = Lengthened(Promised(q), d, msg_data[m])
<1> DEFINE r == Added(q, b, m)
<1>1. q[b] \in Seq(Msgs) /\ r[b] = Append(q[b], m)
      /\ SameBut(q, r, b)
  BY DEF QueueType, Added, SameBut
<1>2. Promised(q)[d] = Data(q[b]) /\ Promised(r)[d] = Data(r[b])
  BY DEF Promised
<1>3. Promised(r)[d] = Append(Promised(q)[d], msg_data[m])
  BY <1>1, <1>2, DataAdds
<1>4. owner_pid[b] = d
  BY DEF BoxesOf
<1>5. \A u \in Tasks : u # d => Promised(r)[u] = Promised(q)[u]
  BY <1>1, <1>4, PromisedElsewhere
<1>6. QED
  BY <1>3, <1>5 DEF Promised, Lengthened

(* ... and advancing head is the step Receive.                             *)
LEMMA PromiseReceived ==
    ASSUME TypeOK, NEW q \in QueueType, NEW d \in Tasks,
           NEW b \in Boxes, b \in BoxesOf(d), b = First(BoxesOf(d)),
           q[b] # <<>>,
           NEW r, r = Shortened(q, b)
    PROVE  /\ Promised(r) = [Promised(q) EXCEPT ![d] = Tail(Promised(q)[d])]
           /\ Promised(q)[d] # <<>>
<1>1. q[b] \in Seq(Msgs) /\ r[b] = Tail(q[b])
      /\ SameBut(q, r, b)
  BY DEF QueueType, Shortened, SameBut
<1>2. Promised(q)[d] = Data(q[b]) /\ Promised(r)[d] = Data(r[b])
  BY DEF Promised
<1>3. Promised(r)[d] = Tail(Promised(q)[d]) /\ Promised(q)[d] # <<>>
  BY <1>1, <1>2, DataFalls
<1>4. owner_pid[b] = d
  BY DEF BoxesOf
<1>5. \A u \in Tasks : u # d => Promised(r)[u] = Promised(q)[u]
  BY <1>1, <1>4, PromisedElsewhere
<1>6. QED
  BY <1>3, <1>5 DEF Promised

(* A step of one call, seen by the task that makes it.                     *)
Acts(t) ==
    \/ SendClaim(t) \/ SendFill(t) \/ SendLookup(t) \/ SendNoMailbox(t)
    \/ SendLink(t) \/ SendSetTail(t) \/ SendLoad(t) \/ SendStore(t)
    \/ ReceiveBegin(t) \/ ReceiveTake(t) \/ ReceiveClearTail(t)
    \/ ReceiveLoad(t) \/ ReceiveStore(t) \/ ReceiveCopy(t)
    \/ CreateBegin(t) \/ \E d \in Tasks : SendBegin(t, d)

(* The steps between which a message neither joins nor leaves a queue.     *)
LEMMA ActsKeep ==
    ASSUME NEW q \in QueueType, NEW t \in Tasks, InvFor(q, t), Acts(t)
    PROVE  InvFor(q, t)' /\ Promised(q)' = Promised(q)
<1>1. InvFor(q, t)'
  BY SendClaimKeeps, SendFillKeeps, SendLookupKeeps, SendNoMailboxKeeps,
     SendLinkKeeps, SendSetTailKeeps, SendLoadKeeps, SendStoreKeeps,
     ReceiveBeginKeeps, ReceiveTakeKeeps, ReceiveClearTailKeeps,
     ReceiveLoadKeeps, ReceiveStoreKeeps, ReceiveCopyKeeps,
     CreateBeginKeeps, SendBeginKeeps DEF Acts
<1>2. box_used' = box_used /\ owner_pid' = owner_pid
  BY DEF Acts, SendClaim, SendFill, SendLookup, SendNoMailbox, SendLink,
         SendSetTail, SendLoad, SendStore, ReceiveBegin, ReceiveTake,
         ReceiveClearTail, ReceiveLoad, ReceiveStore, ReceiveCopy,
         CreateBegin, SendBegin, boxes
<1>3. \A m \in InQueues(q) : msg_data'[m] = msg_data[m]
  <2>1. CASE SendFill(t)
    <3>1. pc[t] = "fill"
      BY <2>1 DEF SendFill, At
    <3>2. msg[t] \notin InQueues(q) /\ msg[t] \in Msgs
      BY <3>1, SenderHolds DEF Sending, Adding
    <3>3. msg_data' = [msg_data EXCEPT ![msg[t]] = n[t]]
      BY <2>1 DEF SendFill
    <3>4. InQueues(q) \subseteq Msgs
      BY DEF InvFor, PoolFor, TypeOK
    <3>5. QED
      BY <3>2, <3>3, <3>4 DEF InvFor, TypeOK
  <2>2. CASE ~SendFill(t)
    <3>1. msg_data' = msg_data
      BY <2>2
      DEF Acts, SendClaim, SendLookup, SendNoMailbox, SendLink, SendSetTail,
          SendLoad, SendStore, ReceiveBegin, ReceiveTake, ReceiveClearTail,
          ReceiveLoad, ReceiveStore, ReceiveCopy, CreateBegin, SendBegin,
          FreeMessage, pool
    <3>2. QED
      BY <3>1
  <2>3. QED
    BY <2>1, <2>2
<1>4. QED
  BY <1>1, <1>2, <1>3, PromiseStays DEF InvFor

(* Hanging a message behind the tail is a Send of MessageQueues.           *)
LEMMA SendLinkKeepsPromise ==
    ASSUME NEW q \in QueueType, NEW t \in Tasks, InvFor(q, t),
           pc[t] \in {"link tail", "link head"},
           box_used' = box_used, owner_pid' = owner_pid, msg_data' = msg_data,
           NEW r, r = Added(q, box[t], msg[t]), r \in QueueType
    PROVE  QueueStep(Promised(q), Promised(r)')
<1>1. TypeOK
  BY DEF InvFor
<1>2. PICK m : m = msg[t]
  OBVIOUS
<1>3. PICK d : d = dest[t]
  OBVIOUS
<1>4. PICK b : b = box[t]
  OBVIOUS
<1>5. m \in Msgs /\ d \in Tasks /\ msg_data[m] \in Payloads
  BY <1>2, <1>3, SenderHolds DEF Sending, Adding, Filling
<1>6. b \in BoxesOf(d) /\ b \in Boxes /\ b = First(BoxesOf(d))
  BY <1>3, <1>4, SenderAt DEF Linking
<1>7. r = Added(q, b, m)
  BY <1>2, <1>4
<1>8. Promised(r) = Lengthened(Promised(q), d, msg_data[m])
  <2>1. Promised(Added(q, b, m)) = Lengthened(Promised(q), d, msg_data[m])
    BY <1>1, <1>5, <1>6, PromiseSent
  <2>2. QED
    BY <1>7, <2>1
<1>9. Promised(r)' = Promised(r)
  BY <1>1, PromiseStays
<1>10. QED
  BY <1>5, <1>8, <1>9 DEF QueueStep

(* Every step keeps the invariant and is a step of the queues, or none.    *)
LEMMA NextKeeps ==
    ASSUME ~Preemptive, NEW q \in QueueType, Inv(q), Next
    PROVE  \E r \in QueueType : Inv(r)' /\ QueueStep(Promised(q), Promised(r)')
<1>1. PICK t \in Tasks :
         \/ Acts(t) \/ SendLinkTail(t) \/ SendLinkHead(t)
         \/ ReceiveAdvance(t) \/ CreateOpen(t)
         \/ SendNoMessage(t) \/ ReceiveNothing(t) \/ CreateFails(t)
  BY DEF Next, Acts
<1>2. CASE SendNoMessage(t) \/ ReceiveNothing(t) \/ CreateFails(t)
  <2>1. UNCHANGED <<pool, boxes, pc, locals, sent, received>>
    BY <1>2 DEF SendNoMessage, ReceiveNothing, CreateFails, vars, history
  <2>2. calls' \in 0..MaxSends
    <3>1. CASE SendNoMessage(t)
      BY <3>1, SizesAssumption DEF SendNoMessage, Inv, TypeOK
    <3>2. CASE ReceiveNothing(t) \/ CreateFails(t)
      BY <3>2 DEF ReceiveNothing, CreateFails, vars, history, Inv, TypeOK
    <3>3. QED
      BY <1>2, <3>1, <3>2
  <2>3. Inv(q)'
    BY <2>1, <2>2, NothingKeeps
  <2>4. Promised(q)' = Promised(q)
    BY <2>1, PromiseStays DEF Inv, pool, boxes
  <2>5. QED
    BY <2>3, <2>4 DEF QueueStep
<1>3. ASSUME Acts(t) \/ SendLinkTail(t) \/ SendLinkHead(t)
             \/ ReceiveAdvance(t) \/ CreateOpen(t)
      PROVE  InvFor(q, t)
  <2>1. Runs(t)
    BY <1>3 DEF Acts, SendClaim, SendFill, SendLookup, SendNoMailbox, SendLink,
         SendSetTail, SendLoad, SendStore, ReceiveBegin, ReceiveTake,
         ReceiveClearTail, ReceiveLoad, ReceiveStore, ReceiveCopy,
         CreateBegin, SendBegin, SendLinkTail, SendLinkHead, ReceiveAdvance,
         CreateOpen, At
  <2>2. QED
    BY <2>1, InvForRunner
<1>4. CASE Acts(t)
  <2>1. InvFor(q, t)' /\ Promised(q)' = Promised(q)
    BY <1>3, <1>4, ActsKeep
  <2>2. QED
    BY <2>1, InvAfterRunner DEF QueueStep
<1>5. CASE CreateOpen(t)
  <2>1. InvFor(q, t)' /\ Promised(q)' = Promised(q)
    BY <1>3, <1>5, CreateOpenKeeps, PromiseStaysOpen
  <2>2. QED
    BY <2>1, InvAfterRunner DEF QueueStep
<1>6. CASE SendLinkTail(t)
  <2>1. PICK r : r = Added(q, box[t], msg[t])
    OBVIOUS
  <2>2. r \in QueueType /\ InvFor(r, t)'
    BY <1>3, <1>6, <2>1, SendLinkTailKeeps
  <2>3. /\ pc[t] \in {"link tail", "link head"} /\ msg_data' = msg_data
        /\ box_used' = box_used /\ owner_pid' = owner_pid
    BY <1>6 DEF SendLinkTail, At, boxes
  <2>4. QueueStep(Promised(q), Promised(r)')
    BY <1>3, <1>6, <2>1, <2>2, <2>3, SendLinkKeepsPromise
  <2>5. QED
    BY <2>2, <2>4, InvAfterRunner
<1>7. CASE SendLinkHead(t)
  <2>1. PICK r : r = Added(q, box[t], msg[t])
    OBVIOUS
  <2>2. r \in QueueType /\ InvFor(r, t)'
    BY <1>3, <1>7, <2>1, SendLinkHeadKeeps
  <2>3. /\ pc[t] \in {"link tail", "link head"} /\ msg_data' = msg_data
        /\ box_used' = box_used /\ owner_pid' = owner_pid
    BY <1>7 DEF SendLinkHead, At, pool
  <2>4. QueueStep(Promised(q), Promised(r)')
    BY <1>3, <1>7, <2>1, <2>2, <2>3, SendLinkKeepsPromise
  <2>5. QED
    BY <2>2, <2>4, InvAfterRunner
<1>8. CASE ReceiveAdvance(t)
  <2>1. PICK r : r = Shortened(q, box[t])
    OBVIOUS
  <2>2. r \in QueueType /\ InvFor(r, t)'
    BY <1>3, <1>8, <2>1, ReceiveAdvanceKeeps
  <2>3. /\ pc[t] = "advance" /\ msg_data' = msg_data
        /\ box_used' = box_used /\ owner_pid' = owner_pid
    BY <1>8 DEF ReceiveAdvance, At, pool
  <2>4. q[box[t]] # <<>> /\ box[t] \in BoxesOf(t) /\ box[t] \in Boxes
        /\ owner_pid[box[t]] = t
    BY <1>3, <1>8, <2>3, ReceiverAt DEF InvFor, ReceiveLocals
  <2>5. box[t] = First(BoxesOf(t)) /\ TypeOK
    BY <1>3, <1>8, <2>4 DEF InvFor, Owners
  <2>6. /\ Promised(r) = [Promised(q) EXCEPT ![t] = Tail(Promised(q)[t])]
        /\ Promised(q)[t] # <<>>
    BY <2>1, <2>4, <2>5, PromiseReceived
  <2>7. Promised(r)' = Promised(r)
    BY <2>2, <2>3, <2>5, PromiseStays
  <2>8. QueueStep(Promised(q), Promised(r)')
    BY <2>6, <2>7 DEF QueueStep
  <2>9. QED
    BY <2>2, <2>8, InvAfterRunner
<1>9. QED
  BY <1>1, <1>2, <1>4, <1>5, <1>6, <1>7, <1>8

(* A step that changes nothing.                                            *)
LEMMA StutterKeeps ==
    ASSUME NEW q \in QueueType, Inv(q), UNCHANGED vars
    PROVE  Inv(q)'
<1>1. UNCHANGED <<pool, boxes, pc, locals, sent, received>> /\ calls' = calls
  BY DEF vars, history
<1>2. calls' \in 0..MaxSends
  BY <1>1 DEF Inv, TypeOK
<1>3. QED
  BY <1>1, <1>2, NothingKeeps

-----------------------------------------------------------------------------
(* When calls follow each other, IPCInv always holds.                      *)
THEOREM IPCInvariant ==
    ASSUME ~Preemptive
    PROVE  Spec => []IPCInv
<1>1. Init => IPCInv
  BY InitInv
<1>2. IPCInv /\ [Next]_vars => IPCInv'
  <2>1. ASSUME IPCInv, Next PROVE IPCInv'
    BY <2>1, NextKeeps DEF IPCInv
  <2>2. ASSUME IPCInv, UNCHANGED vars PROVE IPCInv'
    BY <2>2, StutterKeeps DEF IPCInv
  <2>3. QED
    BY <2>1, <2>2
<1>3. QED
  BY <1>1, <1>2, PTL DEF Spec

(* Queued, as the properties use it, is the set of the messages in the     *)
(* queues.                                                                 *)
LEMMA QueuedIs ==
    ASSUME NEW q \in QueueType, Inv(q)
    PROVE  Queued = InQueues(q)
<1>1. \A b \in Boxes : Chain(head[b]) = q[b]
  BY ChainIs DEF Inv
<1>2. QED
  BY <1>1 DEF Queued, InQueues

(* A payload whose ipc_send returned 0 has been received, or is in a       *)
(* mailbox, or in the hands of the call that is receiving it.              *)
THEOREM IPCNoMessageLost ==
    ASSUME ~Preemptive
    PROVE  Spec => []NoMessageLost
<1>1. ASSUME IPCInv PROVE NoMessageLost
  <2>1. PICK q \in QueueType : Inv(q)
    BY <1>1 DEF IPCInv
  <2>2. Queued = InQueues(q)
    BY <2>1, QueuedIs
  <2>3. ASSUME NEW t \in Tasks, Delivering(t)
        PROVE  msg[t] \in UNION {Held(u) : u \in Tasks}
    <3>1. msg[t] \in Msgs /\ pc[t] \notin {"idle", "claim"}
      BY <2>1, <2>3 DEF Inv, ReceiveLocals, Delivering, Taking, TypeOK
    <3>2. msg[t] # Null
      BY <3>1 DEF Msgs, Null
    <3>3. QED
      BY <3>1, <3>2 DEF Held
  <2>4. ASSUME NEW p \in sent
        PROVE  \/ p \in received
               \/ \E m \in Queued \cup UNION {Held(t) : t \in Tasks} :
                     p = msg_data[m]
    BY <2>1, <2>2, <2>3 DEF Inv, Accounted
  <2>5. QED
    BY <2>4 DEF NoMessageLost
<1>2. QED
  BY <1>1, IPCInvariant, PTL

(* The message pool does not leak, and no free message is in a mailbox.    *)
THEOREM IPCPoolConserved ==
    ASSUME ~Preemptive
    PROVE  Spec => []PoolConserved
<1>1. ASSUME IPCInv PROVE PoolConserved
  BY <1>1, QueuedIs DEF IPCInv, Inv, PoolOK, PoolConserved
<1>2. QED
  BY <1>1, IPCInvariant, PTL

(* The state is of its type: count, for one, never falls below 0.          *)
THEOREM IPCTypeOK ==
    ASSUME ~Preemptive
    PROVE  Spec => []TypeOK
<1>1. IPCInv => TypeOK
  BY DEF IPCInv, Inv
<1>2. QED
  BY <1>1, IPCInvariant, PTL

(* The queues' contents are those the refinement mapping takes.            *)
Mapped == \A q \in QueueType :
    Inv(q) => Promised(q) = [t \in Tasks |-> QueueOf(t)]

(* Mailboxes are queues: what one task is sent it receives once and in     *)
(* order.                                                                  *)
THEOREM IPCImplementsQueues ==
    ASSUME ~Preemptive
    PROVE  Spec => ImplementsMessageQueues
<1>1. Mapped
  BY PromisedIs DEF Mapped
<1>2. Init => Queues!Init
  BY InitInv DEF Queues!Init
<1>3. ASSUME NEW f, NEW g, f = [t \in Tasks |-> QueueOf(t)],
             g = [t \in Tasks |-> QueueOf(t)'], QueueStep(f, g)
      PROVE  [Queues!Next]_([t \in Tasks |-> QueueOf(t)])
  <2>1. g = f => UNCHANGED [t \in Tasks |-> QueueOf(t)]
    BY <1>3
  <2>2. ASSUME NEW t \in Tasks, f[t] # <<>>, g = [f EXCEPT ![t] = Tail(f[t])]
        PROVE  Queues!Next
    BY <1>3, <2>2 DEF Queues!Next, Queues!Receive
  <2>3. ASSUME NEW t \in Tasks, NEW m \in Payloads,
               g = Lengthened(f, t, m)
        PROVE  Queues!Next
    BY <1>3, <2>3 DEF Queues!Next, Queues!Send, Lengthened
  <2>4. QED
    BY <1>3, <2>1, <2>2, <2>3 DEF QueueStep
<1>4. IPCInv /\ Mapped /\ Mapped' /\ [Next]_vars
          => [Queues!Next]_([t \in Tasks |-> QueueOf(t)])
  <2>1. ASSUME IPCInv, Mapped, Mapped', Next
        PROVE  [Queues!Next]_([t \in Tasks |-> QueueOf(t)])
    <3>1. PICK q \in QueueType : Inv(q)
      BY <2>1 DEF IPCInv
    <3>2. PICK r \in QueueType :
              Inv(r)' /\ QueueStep(Promised(q), Promised(r)')
      BY <2>1, <3>1, NextKeeps
    <3>3. Promised(q) = [t \in Tasks |-> QueueOf(t)]
      BY <2>1, <3>1 DEF Mapped
    <3>4. Promised(r)' = [t \in Tasks |-> QueueOf(t)']
      BY <2>1, <3>2 DEF Mapped
    <3>5. QED
      BY <1>3, <3>2, <3>3, <3>4
  <2>2. ASSUME UNCHANGED vars
        PROVE  UNCHANGED [t \in Tasks |-> QueueOf(t)]
    BY <2>2 DEF vars, pool, boxes, locals, history, QueueOf, Mailbox, BoxesOf,
                Chain
  <2>3. QED
    BY <2>1, <2>2
<1>5. Spec => []Mapped
  BY <1>1, PTL
<1>6. Spec => [](IPCInv /\ Mapped)
  BY <1>5, IPCInvariant, PTL
<1>7. QED
  BY <1>2, <1>4, <1>6, PTL
  DEF Spec, ImplementsMessageQueues, Queues!Spec
=============================================================================
