--------------------------- MODULE TaskListProofs ---------------------------
(***************************************************************************)
(* Theorems about TaskList for every MaxId, MaxTicks and Killable: the     *)
(* pointers stay a list in the order of the ids, and the walks along them  *)
(* do what Scheduler says of the set of tasks.                             *)
(***************************************************************************)
EXTENDS TaskList, WellFoundedInduction, TLAPS

-----------------------------------------------------------------------------
(* Loops as recursive functions of the number of turns.                    *)

(* A set of natural numbers that is not empty has a least member.          *)
LEMMA LeastExists ==
    ASSUME NEW S \in SUBSET Nat, S # {}
    PROVE  \E x \in S : \A y \in S : x <= y
<1> DEFINE less == {p \in Nat \X Nat : p[1] < p[2]}
<1>1. IsWellFoundedOn(less, Nat)
  BY NatLessThanWellFounded DEF OpToRel
<1> HIDE DEF less
<1>2. PICK x \in S : \A y \in S : ~(<<y, x>> \in less)
  BY <1>1, WFMin
<1>3. ASSUME NEW y \in S PROVE x <= y
  <2>1. ASSUME y < x PROVE FALSE
    <3>1. <<y, x>> \in less
      BY <2>1 DEF less
    <3>2. QED
      BY <1>2, <3>1
  <2>2. QED
    BY <2>1
<1>4. QED
  BY <1>3

(* What holds before the first turn and is kept by each turn holds after   *)
(* every turn: good are the numbers of turns after which it holds.         *)
LEMMA TurnByTurn ==
    ASSUME NEW n \in Nat, NEW good, 0 \in good,
           \A k \in 1..n : k - 1 \in good => k \in good
    PROVE  0..n \subseteq good
<1> DEFINE bad == (0..n) \ good
<1>1. SUFFICES ASSUME bad # {} PROVE FALSE
  OBVIOUS
<1>2. PICK k \in bad : \A y \in bad : k <= y
  <2>1. bad \in SUBSET Nat
    OBVIOUS
  <2>2. QED
    BY <1>1, <2>1, LeastExists
<1>3. k \in 1..n
  BY <1>2
<1>4. k - 1 \in 0..n /\ ~(k <= k - 1)
  BY <1>3
<1>5. k - 1 \in good
  BY <1>2, <1>4
<1>6. QED
  BY <1>2, <1>3, <1>5

(* f[k] is the state a loop is in after k of its n turns.                  *)
Turns(f, n, start, step) ==
    \A k \in 0..n : f[k] = IF k = 0 THEN start ELSE step[f[k - 1]]

(* The function that a step from state to state defines exists.            *)
LEMMA TurnsExist ==
    ASSUME NEW n \in Nat, NEW States, NEW start \in States,
           NEW step \in [States -> States]
    PROVE  \E f \in [0..n -> States] : Turns(f, n, start, step)
<1> DEFINE good ==
             {m \in Nat : \E f \in [0..m -> States] : Turns(f, m, start, step)}
<1>1. 0 \in good
  <2>1. Turns([k \in 0..0 |-> start], 0, start, step)
    BY DEF Turns
  <2>2. QED
    BY <2>1
<1>2. ASSUME NEW m \in 1..n, m - 1 \in good PROVE m \in good
  <2>1. PICK f \in [0..(m - 1) -> States] : Turns(f, m - 1, start, step)
    BY <1>2
  <2> DEFINE g == [k \in 0..m |-> IF k = m THEN step[f[m - 1]] ELSE f[k]]
  <2>2. \A k \in 0..m : k # m => k \in 0..(m - 1)
    OBVIOUS
  <2>3. m - 1 \in 0..(m - 1)
    OBVIOUS
  <2>4. g \in [0..m -> States]
    BY <2>2, <2>3
  <2>5. ASSUME NEW k \in 0..m
        PROVE  g[k] = IF k = 0 THEN start ELSE step[g[k - 1]]
    <3>1. k # 0 => k - 1 \in 0..m /\ k - 1 # m
      OBVIOUS
    <3>2. k # 0 => g[k - 1] = f[k - 1]
      BY <3>1
    <3>3. CASE k = m
      BY <3>2, <3>3
    <3>4. CASE k # m
      <4>1. k \in 0..(m - 1)
        BY <3>4
      <4>2. f[k] = IF k = 0 THEN start ELSE step[f[k - 1]]
        BY <2>1, <4>1 DEF Turns
      <4>3. QED
        BY <3>2, <3>4, <4>2
    <3>5. QED
      BY <3>3, <3>4
  <2> HIDE DEF g
  <2>6. Turns(g, m, start, step)
    BY <2>5 DEF Turns
  <2>7. QED
    BY <2>4, <2>6
<1> HIDE DEF good
<1>3. 0..n \subseteq good
  BY <1>1, <1>2, TurnByTurn
<1>4. n \in good
  BY <1>3
<1>5. QED
  BY <1>4 DEF good

-----------------------------------------------------------------------------
(* The list.                                                               *)

OrNull == Ids \cup {Null}

TheList == [head |-> task_list_head, tail |-> task_list_tail, next |-> next]

Lists == [head : OrNull, tail : OrNull, next : [Ids -> OrNull]]

(* l is the list of the tasks of S in the order of their ids, and nothing  *)
(* outside of S points anywhere.                                           *)
InOrder(l, S) ==
    /\ l.head \in S /\ l.tail \in S
    /\ \A t \in S : l.head <= t
    /\ \A t \in S :
          /\ l.next[t] = Null <=> t = l.tail
          /\ l.next[t] # Null => l.next[t] \in S /\ l.next[t] > t
          /\ \A u \in S : u > t => l.next[t] # Null /\ l.next[t] <= u

IsList(l, S) ==
    /\ l \in Lists
    /\ S \subseteq Ids
    /\ InOrder(l, S)
    /\ \A t \in Ids \ S : l.next[t] = Null

LEMMA IdsAreNaturals ==
    /\ MaxId \in Nat
    /\ Null = 0 /\ Null \notin Ids
    /\ {1, 2} \subseteq Ids
    /\ \A t \in Ids : t \in Nat /\ 0 < t /\ t <= MaxId
BY MaxIdAssumption DEF Ids, Null

(* The walk from the head, one place from the other.                       *)
LEMMA WalkTurns ==
    ASSUME TheList \in Lists
    PROVE  /\ Walk \in [0..MaxId -> OrNull]
           /\ Walk[0] = task_list_head
           /\ \A k \in 1..MaxId :
                Walk[k] = IF Walk[k - 1] = Null THEN Null ELSE next[Walk[k - 1]]
<1> DEFINE Step(t) == IF t = Null THEN Null ELSE next[t]
           Places(f) ==
               f = [k \in 0..MaxId |-> IF k = 0 THEN task_list_head
                                                ELSE Step(f[k - 1])]
           step == [t \in OrNull |-> Step(t)]
<1>1. task_list_head \in OrNull /\ next \in [Ids -> OrNull]
  BY DEF TheList, Lists
<1>2. step \in [OrNull -> OrNull]
  BY <1>1 DEF OrNull
<1> HIDE DEF Step
<1>3. PICK f \in [0..MaxId -> OrNull] :
         Turns(f, MaxId, task_list_head, step)
  <2> HIDE DEF step
  <2>1. MaxId \in Nat /\ task_list_head \in OrNull
    BY <1>1, IdsAreNaturals
  <2>2. QED
    BY <1>2, <2>1, TurnsExist
<1>4. ASSUME NEW k \in 0..MaxId
      PROVE  f[k] = IF k = 0 THEN task_list_head ELSE Step(f[k - 1])
  <2>1. k # 0 => k - 1 \in 0..MaxId
    BY IdsAreNaturals
  <2>2. k # 0 => step[f[k - 1]] = Step(f[k - 1])
    BY <1>3, <2>1
  <2>3. QED
    BY <1>3, <2>2 DEF Turns
<1>5. Places(f)
  <2>1. f = [k \in 0..MaxId |-> f[k]]
    BY <1>3
  <2>2. QED
    BY <1>4, <2>1
<1>6. Walk = CHOOSE g : Places(g)
  BY DEF Walk, Step
<1>7. Places(Walk)
  BY <1>5, <1>6
<1>8. ASSUME NEW k \in 0..MaxId
      PROVE  Walk[k] = IF k = 0 THEN task_list_head ELSE Step(Walk[k - 1])
  BY <1>7
<1>9. Walk \in [0..MaxId -> OrNull]
  <2> DEFINE good == {k \in 0..MaxId : Walk[k] \in OrNull}
  <2>1. 0 \in good
    BY <1>1, <1>8, IdsAreNaturals
  <2>2. ASSUME NEW k \in 1..MaxId, k - 1 \in good PROVE k \in good
    <3>1. Walk[k] = Step(Walk[k - 1])
      BY <1>8, IdsAreNaturals
    <3>2. Walk[k] = step[Walk[k - 1]]
      BY <2>2, <3>1
    <3>3. QED
      BY <1>2, <2>2, <3>2
  <2> HIDE DEF good
  <2>3. 0..MaxId \subseteq good
    BY <2>1, <2>2, IdsAreNaturals, TurnByTurn
  <2>4. QED
    BY <1>7, <2>3 DEF good
<1>10. QED
  BY <1>8, <1>9, IdsAreNaturals DEF Step

(* The walk meets exactly the tasks of the list.                           *)
LEMMA ChainIs ==
    ASSUME NEW S, IsList(TheList, S)
    PROVE  Chain = S
<1> USE IdsAreNaturals
<1>0. /\ S \subseteq Ids /\ task_list_head \in S /\ TheList \in Lists
      /\ \A t \in S : /\ task_list_head <= t
                      /\ next[t] # Null => next[t] \in S /\ next[t] > t
                      /\ \A u \in S : u > t => next[t] # Null /\ next[t] <= u
  BY DEF IsList, InOrder, TheList
<1>1. /\ Walk \in [0..MaxId -> OrNull]
      /\ Walk[0] = task_list_head
      /\ \A k \in 1..MaxId :
           Walk[k] = IF Walk[k - 1] = Null THEN Null ELSE next[Walk[k - 1]]
  BY <1>0, WalkTurns
<1>2. ASSUME NEW k \in 0..MaxId PROVE Walk[k] \in S \cup {Null}
  <2> DEFINE good == {j \in 0..MaxId : Walk[j] \in S \cup {Null}}
  <2>1. 0 \in good
    BY <1>0, <1>1
  <2>2. ASSUME NEW j \in 1..MaxId, j - 1 \in good PROVE j \in good
    <3>1. j - 1 \in 0..MaxId /\ Walk[j - 1] \in S \cup {Null}
      BY <2>2
    <3>2. Walk[j] \in S \cup {Null}
      BY <1>0, <1>1, <3>1
    <3>3. QED
      BY <3>2
  <2> HIDE DEF good
  <2>3. 0..MaxId \subseteq good
    BY <2>1, <2>2, TurnByTurn
  <2>4. QED
    BY <2>3 DEF good
<1>3. ASSUME NEW u \in S PROVE \E k \in 0..MaxId : Walk[k] = u
  <2>1. SUFFICES ASSUME \A k \in 0..MaxId : Walk[k] # u PROVE FALSE
    OBVIOUS
  <2> DEFINE good == {k \in 0..MaxId :
                         Walk[k] \in S /\ Walk[k] < u /\ Walk[k] > k}
  <2>2. 0 \in good
    <3>1. Walk[0] \in S /\ Walk[0] <= u /\ Walk[0] # u
      BY <1>0, <1>1, <2>1
    <3>2. QED
      BY <1>0, <3>1, Walk[0] \in Nat /\ u \in Nat
  <2>3. ASSUME NEW k \in 1..MaxId, k - 1 \in good PROVE k \in good
    <3>1. k - 1 \in 0..MaxId /\ k \in 0..MaxId
      OBVIOUS
    <3>2. Walk[k - 1] \in S /\ Walk[k - 1] < u /\ Walk[k - 1] > k - 1
      BY <2>3
    <3>3. Walk[k] = next[Walk[k - 1]]
      BY <1>0, <1>1, <3>2
    <3>4. Walk[k] # Null /\ Walk[k] <= u
      BY <1>0, <3>2, <3>3
    <3>5. Walk[k] \in S /\ Walk[k] > Walk[k - 1] /\ Walk[k] # u
      BY <1>0, <2>1, <3>1, <3>2, <3>3, <3>4
    <3>6. Walk[k] \in Nat /\ Walk[k - 1] \in Nat /\ u \in Nat
      BY <1>0, <3>2, <3>5
    <3>7. QED
      BY <3>1, <3>2, <3>4, <3>5, <3>6
  <2> HIDE DEF good
  <2>4. 0..MaxId \subseteq good
    BY <2>2, <2>3, TurnByTurn
  <2>5. Walk[MaxId] \in Ids /\ Walk[MaxId] > MaxId
    <3>1. MaxId \in good
      BY <2>4
    <3>2. QED
      BY <1>0, <3>1 DEF good
  <2>6. QED
    BY <2>5
<1>4. S \subseteq Chain
  BY <1>0, <1>3 DEF Chain
<1>5. Chain \subseteq S
  BY <1>2 DEF Chain
<1>6. QED
  BY <1>4, <1>5

-----------------------------------------------------------------------------
(* The reaper.                                                             *)

ReapStates == [list : Lists, task : OrNull, prev : OrNull]

(* A task that is unlinked, with the task before it, is gone from the list *)
(* and from the pointers, and the order of the others stays.               *)
Before(S, t, prev) ==
    /\ prev \in S \cup {Null}
    /\ prev # Null => /\ t # Null => prev < t
                      /\ \A u \in S : u <= prev \/ (t # Null /\ t <= u)
    /\ prev = Null => \A u \in S : t # Null /\ t <= u

LEMMA UnlinkKeepsList ==
    ASSUME NEW l, NEW S, IsList(l, S), NEW t \in S, NEW prev,
           Before(S, t, prev), S # {t}
    PROVE  IsList(Unlink(l, t, prev), S \ {t})
<1> DEFINE m == Unlink(l, t, prev)
           R == S \ {t}
<1> USE IdsAreNaturals
<1>0. /\ S \subseteq Ids /\ l \in Lists /\ l.head \in S /\ l.tail \in S
      /\ \A u \in S : l.head <= u
      /\ \A u \in S : l.next[u] = Null <=> u = l.tail
      /\ \A u \in S : l.next[u] # Null => l.next[u] \in S /\ l.next[u] > u
      /\ \A u, v \in S : v > u => l.next[u] # Null /\ l.next[u] <= v
      /\ \A u \in Ids \ S : l.next[u] = Null
      /\ l.next \in [Ids -> OrNull]
  BY DEF IsList, InOrder, Lists
<1>1. /\ prev \in S \cup {Null} /\ prev # t
      /\ prev # Null => prev < t /\ \A u \in S : u <= prev \/ t <= u
      /\ prev = Null => \A u \in S : t <= u
  BY <1>0 DEF Before
<1>2. /\ m.head = IF prev = Null THEN l.next[t] ELSE l.head
      /\ m.tail = IF t = l.tail THEN prev ELSE l.tail
      /\ m.next = [u \in Ids |-> CASE u = prev -> l.next[t]
                                   [] u = t -> Null
                                   [] OTHER -> l.next[u]]
  BY DEF Unlink
<1>3. PICK v \in S : v # t
  BY DEF IsList
<1>4. l.next[t] \in OrNull /\ (l.next[t] # Null => l.next[t] \in R)
  BY <1>0
<1>5. m.head \in R /\ \A u \in R : m.head <= u
  <2>1. CASE prev = Null
    <3>1. \A u \in R : u > t
      BY <1>0, <1>1, <2>1
    <3>2. v > t
      BY <1>3, <3>1
    <3>3. QED
      BY <1>0, <1>2, <1>3, <1>4, <2>1, <3>1, <3>2
  <2>2. CASE prev # Null
    <3>1. l.head <= prev /\ prev \in Nat /\ t \in Nat /\ l.head \in Nat
      BY <1>0, <1>1, <2>2
    <3>2. l.head # t
      BY <1>1, <2>2, <3>1
    <3>3. QED
      BY <1>0, <1>2, <2>2, <3>2
  <2>3. QED
    BY <2>1, <2>2
<1>6. m.tail \in R
  <2>1. CASE t = l.tail
    <3>1. l.next[t] = Null
      BY <1>0, <2>1
    <3>2. prev # Null
      BY <1>0, <1>1, <1>3, <3>1
    <3>3. QED
      BY <1>1, <1>2, <2>1, <3>2
  <2>2. QED
    BY <1>0, <1>2, <2>1
<1>7. \A u \in Ids : m.next[u] = IF u = prev THEN l.next[t]
                                 ELSE IF u = t THEN Null ELSE l.next[u]
  <2>1. SUFFICES ASSUME NEW u \in Ids
                 PROVE  m.next[u] = IF u = prev THEN l.next[t]
                                    ELSE IF u = t THEN Null ELSE l.next[u]
    OBVIOUS
  <2> HIDE DEF m
  <2>2. m.next[u] = CASE u = prev -> l.next[t]
                      [] u = t -> Null
                      [] OTHER -> l.next[u]
    BY <1>2
  <2>3. QED
    BY <1>1, <2>2
<1>8. m \in Lists
  <2>1. m.head \in OrNull /\ m.tail \in OrNull
    BY <1>0, <1>5, <1>6 DEF OrNull
  <2>2. m.next \in [Ids -> OrNull]
    BY <1>0, <1>2 DEF OrNull
  <2>3. QED
    BY <2>1, <2>2 DEF Unlink, Lists
<1>9. \A u \in Ids \ R : m.next[u] = Null
  BY <1>0, <1>1, <1>7
<1> HIDE DEF m
<1>10. ASSUME NEW u \in R
       PROVE  /\ m.next[u] = Null <=> u = m.tail
              /\ m.next[u] # Null => m.next[u] \in R /\ m.next[u] > u
              /\ \A w \in R : w > u => m.next[u] # Null /\ m.next[u] <= w
  <2>1. CASE u = prev
    <3>1. m.next[u] = l.next[t] /\ u < t /\ u # Null
      BY <1>0, <1>1, <1>7, <2>1
    <3>2. l.next[t] = Null <=> t = l.tail
      BY <1>0
    <3>3. u # l.tail
      BY <1>0, <3>1
    <3>4. m.next[u] = Null <=> u = m.tail
      BY <1>2, <2>1, <3>1, <3>2, <3>3
    <3>5. m.next[u] # Null => m.next[u] \in R /\ m.next[u] > u
      <4>1. l.next[t] # Null => l.next[t] > t
        BY <1>0
      <4>2. u \in Nat /\ t \in Nat /\ l.next[t] \in Nat
        BY <1>0, <1>4 DEF OrNull
      <4>3. QED
        BY <1>4, <3>1, <4>1, <4>2
    <3>6. ASSUME NEW w \in R, w > u PROVE w > t
      BY <1>0, <1>1, <2>1, <3>1, <3>6
    <3>7. QED
      BY <1>0, <3>1, <3>4, <3>5, <3>6
  <2>2. CASE u # prev
    <3>1. m.next[u] = l.next[u]
      BY <1>0, <1>7, <2>2
    <3>2. l.next[u] # t
      <4>1. SUFFICES ASSUME l.next[u] = t PROVE FALSE
        OBVIOUS
      <4>2. u < t /\ t # Null
        BY <1>0, <4>1
      <4>3. prev # Null /\ u < prev
        BY <1>0, <1>1, <2>2, <4>2
      <4>4. l.next[u] <= prev
        BY <1>0, <1>1, <4>3
      <4>5. QED
        BY <1>0, <1>1, <4>1, <4>3, <4>4
    <3>3. u = m.tail <=> u = l.tail
      BY <1>2, <2>2
    <3>4. QED
      BY <1>0, <3>1, <3>2, <3>3
  <2>3. QED
    BY <2>1, <2>2
<1>11. InOrder(m, R)
  BY <1>5, <1>6, <1>10 DEF InOrder
<1>12. QED
  BY <1>0, <1>8, <1>9, <1>11 DEF IsList, m

(* A turn of the reaper goes from state to state.                          *)
LEMMA ReapTurnTypes ==
    ASSUME NEW at \in ReapStates
    PROVE  ReapTurn(at) \in ReapStates
<1>1. at.list \in Lists /\ at.task \in OrNull /\ at.prev \in OrNull
  BY DEF ReapStates
<1>2. CASE at.task = Null
  BY <1>2 DEF ReapTurn
<1>3. CASE at.task # Null
  <2>1. at.task \in Ids
    BY <1>1, <1>3 DEF OrNull
  <2>2. at.list.next[at.task] \in OrNull
    BY <1>1, <2>1 DEF Lists
  <2>3. Unlink(at.list, at.task, at.prev) \in Lists
    <3> DEFINE m == Unlink(at.list, at.task, at.prev)
    <3>1. m.head \in OrNull /\ m.tail \in OrNull
      BY <1>1, <2>2 DEF Unlink, Lists
    <3>2. m.next \in [Ids -> OrNull]
      <4>1. \A u \in Ids : (CASE u = at.prev -> at.list.next[at.task]
                              [] u = at.task -> Null
                              [] OTHER -> at.list.next[u]) \in OrNull
        BY <1>1, <2>2 DEF Lists, OrNull
      <4>2. QED
        BY <4>1 DEF Unlink
    <3>3. QED
      BY <3>1, <3>2 DEF Unlink, Lists
  <2>4. CASE at.task \in is_terminated \ {current_task}
    BY <1>1, <1>3, <2>2, <2>3, <2>4 DEF ReapTurn, ReapStates
  <2>5. CASE at.task \notin is_terminated \ {current_task}
    BY <1>1, <1>3, <2>2, <2>5 DEF ReapTurn, ReapStates
  <2>6. QED
    BY <2>4, <2>5
<1>4. QED
  BY <1>2, <1>3

(* The turns of the reaper, one from the other.                            *)
LEMMA ReapTurnsAre ==
    ASSUME NEW l \in Lists
    PROVE  /\ ReapTurns(l)[0] = [list |-> l, task |-> l.head, prev |-> Null]
           /\ \A k \in 1..MaxId : ReapTurns(l)[k] = ReapTurn(ReapTurns(l)[k - 1])
<1> DEFINE start == [list |-> l, task |-> l.head, prev |-> Null]
           Loop(f) ==
               f = [k \in 0..MaxId |-> IF k = 0 THEN start
                                                ELSE ReapTurn(f[k - 1])]
           step == [at \in ReapStates |-> ReapTurn(at)]
<1>1. start \in ReapStates
  BY DEF Lists, ReapStates, OrNull
<1>2. step \in [ReapStates -> ReapStates]
  BY ReapTurnTypes
<1> HIDE DEF start
<1>3. PICK f \in [0..MaxId -> ReapStates] : Turns(f, MaxId, start, step)
  <2> HIDE DEF step
  <2>1. MaxId \in Nat
    BY IdsAreNaturals
  <2>2. QED
    BY <1>1, <1>2, <2>1, TurnsExist
<1>4. ASSUME NEW k \in 0..MaxId
      PROVE  f[k] = IF k = 0 THEN start ELSE ReapTurn(f[k - 1])
  <2>1. k # 0 => k - 1 \in 0..MaxId
    BY IdsAreNaturals
  <2>2. k # 0 => step[f[k - 1]] = ReapTurn(f[k - 1])
    BY <1>3, <2>1
  <2>3. QED
    BY <1>3, <2>2 DEF Turns
<1>5. Loop(f)
  <2>1. f = [k \in 0..MaxId |-> f[k]]
    BY <1>3
  <2>2. QED
    BY <1>4, <2>1
<1>6. ReapTurns(l) = CHOOSE g : Loop(g)
  BY DEF ReapTurns, start
<1>7. Loop(ReapTurns(l))
  BY <1>5, <1>6
<1>8. ASSUME NEW k \in 0..MaxId
      PROVE  ReapTurns(l)[k] = IF k = 0 THEN start
                                        ELSE ReapTurn(ReapTurns(l)[k - 1])
  BY <1>7
<1>9. QED
  BY <1>8, IdsAreNaturals DEF start

(* The list while the reaper has come to at.task: the tasks of S but for   *)
(* the dead ones it has passed.                                            *)
Remaining(S, dead, t) == {u \in S : u \in dead => t # Null /\ t <= u}

Reaping(at, S, dead) ==
    /\ IsList(at.list, Remaining(S, dead, at.task))
    /\ at.task \in Remaining(S, dead, at.task) \cup {Null}
    /\ Before(Remaining(S, dead, at.task), at.task, at.prev)

LEMMA ReapTurnGoesOn ==
    ASSUME NEW S, S \subseteq Ids, current_task \in S, NEW at,
           Reaping(at, S, is_terminated \ {current_task}), at.task # Null
    PROVE  /\ Reaping(ReapTurn(at), S, is_terminated \ {current_task})
           /\ ReapTurn(at).task # Null => ReapTurn(at).task > at.task
<1> DEFINE dead == is_terminated \ {current_task}
           l == at.list
           t == at.task
           R == Remaining(S, dead, t)
           u0 == l.next[t]
<1> USE IdsAreNaturals
<1>1. /\ IsList(l, R) /\ t \in R /\ R \subseteq Ids
      /\ Before(R, t, at.prev)
  BY DEF Reaping, Remaining
<1>2. /\ u0 # Null => u0 \in R /\ u0 > t
      /\ \A u \in R : u > t => u0 # Null /\ u0 <= u
  BY <1>1 DEF IsList, InOrder
<1>3. t \in Nat /\ t # Null /\ \A u \in R : u \in Nat /\ u # Null
  BY <1>1
<1> HIDE DEF l, t, u0, R
<1>4. \A u \in S : u \in dead /\ u # t /\ u \in R => u0 # Null /\ u0 <= u
  <2>1. SUFFICES ASSUME NEW u \in S, u \in dead, u # t, u \in R
                 PROVE  u0 # Null /\ u0 <= u
    OBVIOUS
  <2>2. t <= u
    BY <2>1 DEF R, Remaining
  <2>3. u > t
    BY <1>3, <2>1, <2>2
  <2>4. QED
    BY <1>2, <2>1, <2>3
<1>5. \A u \in S : u \in dead /\ u0 # Null /\ u0 <= u => u \in R /\ u # t
  <2>1. SUFFICES ASSUME NEW u \in S, u \in dead, u0 # Null, u0 <= u
                 PROVE  u \in R /\ u # t
    OBVIOUS
  <2>2. u0 \in Nat /\ u \in Nat /\ u0 > t
    BY <1>2, <1>3, <2>1
  <2>3. t <= u /\ u # t
    BY <1>3, <2>1, <2>2
  <2>4. QED
    BY <1>3, <2>3 DEF R, Remaining
<1>6. CASE t \in dead
  <2>1. Remaining(S, dead, u0) = R \ {t}
    <3> HIDE DEF dead
    <3>1. \A u \in S : u \notin dead => u \in R /\ u # t
      BY <1>6 DEF R, Remaining
    <3>2. R \subseteq S
      BY DEF R, Remaining
    <3>3. QED
      BY <1>4, <1>5, <3>1, <3>2 DEF Remaining
  <2>2. ReapTurn(at) = [list |-> Unlink(l, t, at.prev), task |-> u0,
                        prev |-> at.prev]
    BY <1>3, <1>6 DEF ReapTurn, l, t, u0
  <2>3. R # {t}
    BY <1>6 DEF R, Remaining
  <2>4. IsList(Unlink(l, t, at.prev), R \ {t})
    BY <1>1, <2>3, UnlinkKeepsList
  <2>5. Before(R \ {t}, u0, at.prev)
    <3>1. /\ at.prev \in R \cup {Null}
          /\ at.prev # Null => at.prev < t /\ \A u \in R : u <= at.prev \/ t <= u
          /\ at.prev = Null => \A u \in R : t <= u
      BY <1>1, <1>3 DEF Before
    <3>2. at.prev # Null => at.prev \in R \ {t}
      BY <1>3, <3>1
    <3>3. \A u \in R \ {t} : t <= u => u0 # Null /\ u0 <= u
      BY <1>2, <1>3
    <3>4. at.prev # Null /\ u0 # Null => at.prev < u0
      BY <1>2, <1>3, <3>1
    <3>5. QED
      BY <3>1, <3>2, <3>3, <3>4 DEF Before
  <2>6. u0 # Null => u0 \in R \ {t}
    BY <1>2, <1>3
  <2>7. QED
    BY <1>2, <2>1, <2>2, <2>4, <2>5, <2>6 DEF Reaping, t
<1>7. CASE t \notin dead
  <2>1. Remaining(S, dead, u0) = R
    <3> HIDE DEF dead
    <3>1. \A u \in S : u \notin dead => u \in R
      BY DEF R, Remaining
    <3>2. R \subseteq S
      BY DEF R, Remaining
    <3>3. QED
      BY <1>4, <1>5, <1>7, <3>1, <3>2 DEF Remaining
  <2>2. ReapTurn(at) = [list |-> l, task |-> u0, prev |-> t]
    BY <1>3, <1>7 DEF ReapTurn, l, t, u0
  <2>3. Before(R, u0, t)
    <3>1. \A u \in R : u <= t \/ u > t
      BY <1>3
    <3>2. QED
      BY <1>1, <1>2, <1>3, <3>1 DEF Before
  <2>4. QED
    BY <1>1, <1>2, <2>1, <2>2, <2>3 DEF Reaping, t
<1>8. QED
  BY <1>6, <1>7

(* The reaper unlinks the terminated tasks but the current one, and leaves *)
(* a list of the others.                                                   *)
LEMMA ReapKeepsList ==
    ASSUME NEW l, NEW S, IsList(l, S), current_task \in S
    PROVE  IsList(Reap(l), S \ (is_terminated \ {current_task}))
<1> DEFINE dead == is_terminated \ {current_task}
           turn == ReapTurns(l)
           good == {k \in 0..MaxId :
                       /\ Reaping(turn[k], S, dead)
                       /\ turn[k].task # Null => turn[k].task > k}
<1> USE IdsAreNaturals
<1>1. /\ turn[0] = [list |-> l, task |-> l.head, prev |-> Null]
      /\ \A k \in 1..MaxId : turn[k] = ReapTurn(turn[k - 1])
  BY ReapTurnsAre DEF IsList
<1>2. S \subseteq Ids /\ l.head \in S /\ \A u \in S : l.head <= u
  BY DEF IsList, InOrder
<1> HIDE DEF turn
<1>3. 0 \in good
  <2>1. Remaining(S, dead, l.head) = S
    BY <1>2 DEF Remaining
  <2>2. Before(S, l.head, Null)
    BY <1>2 DEF Before
  <2>3. Reaping(turn[0], S, dead)
    BY <1>1, <1>2, <2>1, <2>2 DEF Reaping
  <2>4. QED
    BY <1>1, <1>2, <2>3
<1>4. ASSUME NEW k \in 1..MaxId, k - 1 \in good PROVE k \in good
  <2>1. /\ k - 1 \in 0..MaxId /\ Reaping(turn[k - 1], S, dead)
        /\ turn[k - 1].task # Null => turn[k - 1].task > k - 1
    BY <1>4
  <2>2. turn[k] = ReapTurn(turn[k - 1])
    BY <1>1
  <2>3. CASE turn[k - 1].task = Null
    <3>1. turn[k] = turn[k - 1]
      BY <2>2, <2>3 DEF ReapTurn
    <3>2. QED
      BY <2>1, <2>3, <3>1
  <2>4. CASE turn[k - 1].task # Null
    <3>1. /\ Reaping(turn[k], S, dead)
          /\ turn[k].task # Null => turn[k].task > turn[k - 1].task
      BY <1>2, <2>1, <2>2, <2>4, ReapTurnGoesOn
    <3>2. turn[k - 1].task \in Nat /\ (turn[k].task # Null => turn[k].task \in Nat)
      BY <1>2, <2>1, <2>4, <3>1 DEF Reaping, Remaining
    <3>3. turn[k].task # Null => turn[k].task > k
      BY <2>1, <2>4, <3>1, <3>2
    <3>4. QED
      BY <3>1, <3>3
  <2>5. QED
    BY <2>3, <2>4
<1> HIDE DEF good
<1>5. 0..MaxId \subseteq good
  BY <1>3, <1>4, TurnByTurn
<1>6. /\ Reaping(turn[MaxId], S, dead)
      /\ turn[MaxId].task # Null => turn[MaxId].task > MaxId
  <2>1. MaxId \in good
    BY <1>5
  <2>2. QED
    BY <2>1 DEF good
<1>7. turn[MaxId].task = Null
  <2>1. turn[MaxId].task # Null => turn[MaxId].task \in Ids
    BY <1>2, <1>6 DEF Reaping, Remaining
  <2>2. QED
    BY <1>6, <2>1
<1>8. Remaining(S, dead, Null) = S \ dead
  BY DEF Remaining
<1>9. QED
  BY <1>6, <1>7, <1>8 DEF Reaping, Reap, turn

-----------------------------------------------------------------------------
(* get_next_task.                                                          *)

LEMMA LeastIs ==
    ASSUME NEW S \in SUBSET Nat, NEW x \in S, \A y \in S : x <= y
    PROVE  Sched!Least(S) = x
<1>1. \A z \in S : (\A y \in S : z <= y) => z = x
  <2>1. SUFFICES ASSUME NEW z \in S, \A y \in S : z <= y PROVE z = x
    OBVIOUS
  <2>2. z <= x /\ x <= z /\ x \in Nat /\ z \in Nat
    BY <2>1
  <2>3. QED
    BY <2>2
<1>2. QED
  BY <1>1 DEF Sched!Least

(* Following goes round the list.                                          *)
LEMMA FollowingInList ==
    ASSUME NEW l, NEW S, IsList(l, S), NEW t \in S
    PROVE  /\ Following(l, t) \in S
           /\ Following(l, t) > t =>
                 \A u \in S : ~(t < u /\ u < Following(l, t))
           /\ Following(l, t) <= t =>
                 \A u \in S : u <= t /\ Following(l, t) <= u
<1> USE IdsAreNaturals
<1>1. /\ S \subseteq Ids /\ l.head \in S /\ \A u \in S : l.head <= u
      /\ l.next[t] # Null => l.next[t] \in S /\ l.next[t] > t
      /\ \A u \in S : u > t => l.next[t] # Null /\ l.next[t] <= u
  BY DEF IsList, InOrder
<1>2. \A u \in S : u \in Nat
  BY <1>1
<1>3. CASE l.next[t] = Null
  <2>1. Following(l, t) = l.head /\ \A u \in S : u <= t
    BY <1>1, <1>2, <1>3 DEF Following
  <2>2. QED
    BY <1>1, <1>2, <2>1
<1>4. CASE l.next[t] # Null
  <2>1. Following(l, t) = l.next[t]
    BY <1>4 DEF Following
  <2>2. QED
    BY <1>1, <1>2, <1>4, <2>1
<1>5. QED
  BY <1>3, <1>4

(* The turns of the search, one from the other.                            *)
LEMMA SearchTurnsAre ==
    ASSUME NEW l, NEW S, IsList(l, S), current_task \in S, NEW asleep
    PROVE  /\ SearchTurns(l, asleep)[0] = Following(l, current_task)
           /\ \A k \in 1..MaxId :
                 SearchTurns(l, asleep)[k] =
                    SearchTurn(l, SearchTurns(l, asleep)[k - 1], asleep)
<1> DEFINE start == Following(l, current_task)
           Loop(f) ==
               f = [k \in 0..MaxId |-> IF k = 0 THEN start
                                       ELSE SearchTurn(l, f[k - 1], asleep)]
           step == [t \in S |-> SearchTurn(l, t, asleep)]
<1>1. start \in S
  BY FollowingInList
<1>2. step \in [S -> S]
  BY FollowingInList DEF SearchTurn
<1> HIDE DEF start
<1>3. PICK f \in [0..MaxId -> S] : Turns(f, MaxId, start, step)
  <2> HIDE DEF step
  <2>1. MaxId \in Nat
    BY IdsAreNaturals
  <2>2. QED
    BY <1>1, <1>2, <2>1, TurnsExist
<1>4. ASSUME NEW k \in 0..MaxId
      PROVE  f[k] = IF k = 0 THEN start ELSE SearchTurn(l, f[k - 1], asleep)
  <2>1. k # 0 => k - 1 \in 0..MaxId
    BY IdsAreNaturals
  <2>2. k # 0 => step[f[k - 1]] = SearchTurn(l, f[k - 1], asleep)
    BY <1>3, <2>1
  <2>3. QED
    BY <1>3, <2>2 DEF Turns
<1>5. Loop(f)
  <2>1. f = [k \in 0..MaxId |-> f[k]]
    BY <1>3
  <2>2. QED
    BY <1>4, <2>1
<1>6. SearchTurns(l, asleep) = CHOOSE g : Loop(g)
  BY DEF SearchTurns, start
<1>7. Loop(SearchTurns(l, asleep))
  BY <1>5, <1>6
<1>8. ASSUME NEW k \in 0..MaxId
      PROVE  SearchTurns(l, asleep)[k] =
                IF k = 0 THEN start
                ELSE SearchTurn(l, SearchTurns(l, asleep)[k - 1], asleep)
  BY <1>7
<1>9. QED
  BY <1>8, IdsAreNaturals DEF start

(* u lies behind c and before t on the way round the list from c to t.     *)
Passed(u, c, t) == IF c < t THEN c < u /\ u < t ELSE c < u \/ u < t

(* How far round the list t is from c.                                     *)
Distance(c, t) == IF c < t THEN t - c ELSE t + MaxId - c

(* The search has come to t without passing over a runnable task.          *)
Searching(S, R, t) == t \in S /\ \A u \in R : ~Passed(u, current_task, t)

LEMMA SearchStarts ==
    ASSUME NEW l, NEW S, IsList(l, S), current_task \in S
    PROVE  /\ Searching(S, S, Following(l, current_task))
           /\ Distance(current_task, Following(l, current_task)) > 0
<1> DEFINE c == current_task
           t == Following(l, c)
<1>1. \A u \in S : u \in Nat /\ 0 < u /\ u <= MaxId
  BY IdsAreNaturals DEF IsList
<1>2. /\ t \in S /\ MaxId \in Nat
      /\ t > c => \A u \in S : ~(c < u /\ u < t)
      /\ t <= c => \A u \in S : u <= c /\ t <= u
  BY FollowingInList, IdsAreNaturals
<1> HIDE DEF t
<1>3. \A u \in S : ~Passed(u, c, t)
  BY <1>1, <1>2 DEF Passed
<1>4. Distance(c, t) > 0
  BY <1>1, <1>2 DEF Distance
<1>5. QED
  BY <1>2, <1>3, <1>4 DEF Searching, t

LEMMA SearchGoesOn ==
    ASSUME NEW l, NEW S, IsList(l, S), current_task \in S,
           NEW R \in SUBSET S, NEW t, Searching(S, R, t),
           t # current_task, t \notin R
    PROVE  /\ Searching(S, R, Following(l, t))
           /\ Distance(current_task, Following(l, t)) >
                 Distance(current_task, t)
<1> DEFINE c == current_task
           n == Following(l, t)
<1>1. \A u \in S : u \in Nat /\ 0 < u /\ u <= MaxId
  BY IdsAreNaturals DEF IsList
<1>2. t \in S /\ c \in S /\ MaxId \in Nat
  BY IdsAreNaturals DEF Searching
<1>3. /\ n \in S
      /\ n > t => \A u \in S : ~(t < u /\ u < n)
      /\ n <= t => \A u \in S : u <= t /\ n <= u
  BY <1>2, FollowingInList
<1> HIDE DEF n
<1>4. \A u \in R : ~Passed(u, c, t) /\ u # t /\ u \in S
  BY DEF Searching
<1>5. ASSUME NEW u \in R PROVE ~Passed(u, c, n)
  <2>1. ~Passed(u, c, t) /\ u # t /\ u \in S
    BY <1>4
  <2>2. CASE n > t
    <3>1. ~(t < u /\ u < n) /\ ~(t < c /\ c < n)
      BY <1>2, <1>3, <2>1, <2>2
    <3>2. QED
      BY <1>1, <1>2, <1>3, <2>1, <2>2, <3>1 DEF Passed
  <2>3. CASE n <= t
    <3>1. u <= t /\ n <= u /\ c <= t /\ n <= c
      BY <1>2, <1>3, <2>1, <2>3
    <3>2. QED
      BY <1>1, <1>2, <1>3, <2>1, <3>1 DEF Passed
  <2>4. QED
    BY <1>1, <1>2, <1>3, <2>2, <2>3
<1>6. Distance(c, n) > Distance(c, t)
  <2>1. CASE n > t
    <3>1. ~(t < c /\ c < n)
      BY <1>2, <1>3, <2>1
    <3>2. QED
      BY <1>1, <1>2, <1>3, <2>1, <3>1 DEF Distance
  <2>2. CASE n <= t
    <3>1. c <= t /\ n <= c
      BY <1>2, <1>3, <2>2
    <3>2. QED
      BY <1>1, <1>2, <1>3, <3>1 DEF Distance
  <2>3. QED
    BY <1>1, <1>2, <1>3, <2>1, <2>2
<1>7. QED
  BY <1>3, <1>5, <1>6 DEF Searching, n

(* The search from task to task finds the next runnable task by age.       *)
LEMMA FirstRunnableIsNextTask ==
    ASSUME NEW l, NEW S, IsList(l, S), current_task \in S, NEW asleep
    PROVE  /\ FirstRunnable(l, asleep) =
                 Sched!NextTask(S \ (asleep \cup is_terminated), current_task)
           /\ FirstRunnable(l, asleep) \in S \cup {Sched!IdleTask}
<1> DEFINE c == current_task
           R == S \ (asleep \cup is_terminated)
           at == SearchTurns(l, asleep)
           Stops(t) == t = c \/ t \in R
           good == {k \in 0..MaxId :
                       /\ Searching(S, R, at[k])
                       /\ Stops(at[k]) \/ Distance(c, at[k]) > k}
           x == at[MaxId]
<1> USE IdsAreNaturals
<1>1. /\ at[0] = Following(l, c)
      /\ \A k \in 1..MaxId : at[k] = SearchTurn(l, at[k - 1], asleep)
  BY SearchTurnsAre
<1>2. \A u \in S : u \in Nat /\ 0 < u /\ u <= MaxId
  BY DEF IsList
<1>3. R \in SUBSET S
  OBVIOUS
<1> HIDE DEF at
<1>4. ASSUME NEW t \in S
      PROVE  SearchTurn(l, t, asleep) = IF Stops(t) THEN t ELSE Following(l, t)
  BY DEF SearchTurn
<1> HIDE DEF R
<1>5. 0 \in good
  BY <1>1, <1>3, SearchStarts DEF Searching
<1>6. ASSUME NEW k \in 1..MaxId, k - 1 \in good PROVE k \in good
  <2>1. /\ k - 1 \in 0..MaxId /\ Searching(S, R, at[k - 1])
        /\ Stops(at[k - 1]) \/ Distance(c, at[k - 1]) > k - 1
    BY <1>6
  <2>2. at[k - 1] \in S
    BY <2>1 DEF Searching
  <2>3. at[k] = IF Stops(at[k - 1]) THEN at[k - 1] ELSE Following(l, at[k - 1])
    BY <1>1, <1>4, <2>2
  <2>4. CASE Stops(at[k - 1])
    BY <2>1, <2>3, <2>4
  <2>5. CASE ~Stops(at[k - 1])
    <3>1. /\ Searching(S, R, at[k])
          /\ Distance(c, at[k]) > Distance(c, at[k - 1])
      BY <1>3, <2>1, <2>3, <2>5, SearchGoesOn
    <3>2. at[k] \in S
      BY <3>1 DEF Searching
    <3>3. Distance(c, at[k]) \in Int /\ Distance(c, at[k - 1]) \in Int
      BY <1>2, <2>2, <3>2 DEF Distance
    <3>4. Distance(c, at[k]) > k
      BY <2>1, <2>5, <3>1, <3>3
    <3>5. QED
      BY <3>1, <3>4
  <2>6. QED
    BY <2>4, <2>5
<1> HIDE DEF good
<1>7. 0..MaxId \subseteq good
  BY <1>5, <1>6, TurnByTurn
<1>8. Searching(S, R, x) /\ (Stops(x) \/ Distance(c, x) > MaxId)
  <2>1. MaxId \in good
    BY <1>7
  <2>2. QED
    BY <2>1 DEF good
<1> HIDE DEF x
<1>9. x \in S /\ \A u \in R : ~Passed(u, c, x)
  BY <1>8 DEF Searching
<1>10. x = c \/ x \in R
  <2>1. Distance(c, x) > MaxId => x = c
    BY <1>2, <1>9 DEF Distance
  <2>2. QED
    BY <1>8, <2>1
<1>11. FirstRunnable(l, asleep) = IF x \in R THEN x ELSE Sched!IdleTask
  BY <1>9 DEF FirstRunnable, x, at, R
<1> DEFINE behind == {t \in R : t > c}
           before == {t \in R : t < c}
<1>12. behind \in SUBSET Nat /\ before \in SUBSET Nat
  BY <1>2, <1>3
<1>13. CASE x \in R /\ x > c
  <2>1. \A u \in behind : x <= u
    BY <1>2, <1>3, <1>9, <1>13 DEF Passed
  <2>2. x \in behind
    BY <1>13
  <2>3. Sched!Least(behind) = x
    BY <1>12, <2>1, <2>2, LeastIs
  <2>4. QED
    BY <1>11, <1>13, <2>2, <2>3 DEF Sched!NextTask, R
<1>14. CASE x \in R /\ x < c
  <2>1. behind = {} /\ \A u \in before : x <= u
    BY <1>2, <1>3, <1>9, <1>14 DEF Passed
  <2>2. x \in before
    BY <1>14
  <2>3. Sched!Least(before) = x
    BY <1>12, <2>1, <2>2, LeastIs
  <2>4. QED
    BY <1>11, <1>14, <2>1, <2>2, <2>3 DEF Sched!NextTask, R
<1>15. CASE x = c
  <2>1. behind = {} /\ before = {}
    BY <1>2, <1>3, <1>9, <1>15 DEF Passed
  <2>2. QED
    BY <1>11, <1>15, <2>1 DEF Sched!NextTask, R
<1>16. FirstRunnable(l, asleep) =
         Sched!NextTask(S \ (asleep \cup is_terminated), c)
  BY <1>2, <1>9, <1>10, <1>13, <1>14, <1>15
<1>17. FirstRunnable(l, asleep) \in S \cup {Sched!IdleTask}
  BY <1>9, <1>11
<1>18. QED
  BY <1>16, <1>17

-----------------------------------------------------------------------------
(* The invariant: the tasks of the chain are a list, all of them were      *)
(* created, the current task and the two permanent ones are among them,    *)
(* and so are those with a flag set.                                       *)

ListInv ==
    /\ IsList(TheList, Chain)
    /\ next_task_id \in 3..(MaxId + 1)
    /\ \A t \in Chain : t < next_task_id
    /\ current_task \in Chain
    /\ {Sched!MainTask, Sched!IdleTask} \subseteq Chain \ is_terminated
    /\ is_sleeping \subseteq Chain /\ is_terminated \subseteq Chain
    /\ sleep_ticks \in [Ids -> 0..MaxTicks]

LEMMA ChainOfList == \A S \in SUBSET Ids : IsList(TheList, S) => Chain = S
BY ChainIs

LEMMA ChainOfNextList == (\A S \in SUBSET Ids : IsList(TheList, S) => Chain = S)'
BY ChainOfList, PTL

LEMMA ChainIsNext ==
    ASSUME NEW S, IsList(TheList', S)
    PROVE  Chain' = S /\ IsList(TheList, Chain)'
<1>1. S \in SUBSET Ids
  BY DEF IsList
<1>2. IsList(TheList, S)' <=> IsList(TheList', S)
  BY DEF IsList, InOrder, Lists, OrNull
<1>3. \A R \in SUBSET Ids : IsList(TheList, R)' => Chain' = R
  BY ChainOfNextList
<1>4. Chain' = S
  BY <1>1, <1>2, <1>3
<1>5. QED
  BY <1>4 DEF IsList, InOrder

LEMMA InitListInv == Init => ListInv
<1> SUFFICES ASSUME Init PROVE ListInv
  OBVIOUS
<1> USE IdsAreNaturals, MaxIdAssumption, MaxTicksAssumption
<1>1. /\ task_list_head = 1 /\ task_list_tail = 2
      /\ next = [t \in Ids |-> IF t = 1 THEN 2 ELSE Null]
      /\ next_task_id = 3 /\ current_task = 1
      /\ is_sleeping = {} /\ is_terminated = {}
      /\ sleep_ticks = [t \in Ids |-> 0]
      /\ Chain = {1, 2}
  BY DEF Init, Sched!Init, Sched!MainTask, Sched!IdleTask, Sched!Ids, Ids
<1>2. TheList \in Lists
  BY <1>1 DEF TheList, Lists, OrNull
<1>3. InOrder(TheList, Chain)
  BY <1>1 DEF InOrder, TheList
<1>4. IsList(TheList, Chain)
  BY <1>1, <1>2, <1>3 DEF IsList, TheList
<1>5. sleep_ticks \in [Ids -> 0..MaxTicks]
  BY <1>1
<1>6. QED
  BY <1>1, <1>4, <1>5 DEF ListInv, Sched!MainTask, Sched!IdleTask

-----------------------------------------------------------------------------
(* The steps.                                                              *)

(* scheduler_create_task puts the new task at the end of the list.         *)
LEMMA AppendKeepsList ==
    ASSUME ListInv, next_task_id <= MaxId, AppendTask(next_task_id)
    PROVE  IsList(TheList', Chain \cup {next_task_id})
<1> DEFINE t == next_task_id
           S == Chain
           m == TheList'
<1> USE IdsAreNaturals
<1>0. /\ S \subseteq Ids /\ t \in Ids /\ t \notin S
      /\ \A u \in S : u < t
      /\ task_list_head \in S /\ task_list_tail \in S
      /\ next \in [Ids -> OrNull]
      /\ \A u \in S : task_list_head <= u
      /\ \A u \in S : /\ next[u] = Null <=> u = task_list_tail
                      /\ next[u] # Null => next[u] \in S /\ next[u] > u
                      /\ \A v \in S : v > u => next[u] # Null /\ next[u] <= v
      /\ \A u \in Ids \ S : next[u] = Null
  <2>1. t \in Ids
    BY DEF ListInv, Ids
  <2>2. QED
    BY <2>1 DEF ListInv, IsList, InOrder, TheList, Lists
<1>1. /\ task_list_head' = task_list_head /\ task_list_tail' = t
      /\ next' = [next EXCEPT ![task_list_tail] = t]
  BY <1>0 DEF AppendTask
<1>2. /\ m.head = task_list_head /\ m.tail = t
      /\ m.next = [next EXCEPT ![task_list_tail] = t]
  BY <1>1 DEF TheList
<1>3. m \in Lists
  BY <1>0, <1>1 DEF TheList, Lists, OrNull
<1> HIDE DEF m
<1>4. \A u \in Ids : m.next[u] = IF u = task_list_tail THEN t ELSE next[u]
  BY <1>0, <1>2
<1>5. ASSUME NEW u \in S \cup {t}
      PROVE  /\ m.next[u] = Null <=> u = m.tail
             /\ m.next[u] # Null => m.next[u] \in S \cup {t} /\ m.next[u] > u
             /\ \A v \in S \cup {t} : v > u => m.next[u] # Null /\ m.next[u] <= v
  <2>1. CASE u = t
    <3>1. m.next[u] = Null
      BY <1>0, <1>4, <2>1
    <3>2. \A v \in S \cup {t} : ~(v > t)
      BY <1>0
    <3>3. QED
      BY <1>2, <2>1, <3>1, <3>2
  <2>2. CASE u = task_list_tail
    <3>1. m.next[u] = t
      BY <1>0, <1>4, <2>2
    <3>2. \A v \in S : ~(v > u)
      BY <1>0, <2>2
    <3>3. QED
      BY <1>0, <1>2, <2>2, <3>1, <3>2
  <2>3. CASE u # t /\ u # task_list_tail
    <3>1. m.next[u] = next[u] /\ u \in S
      BY <1>0, <1>4, <2>3
    <3>2. next[u] # Null /\ next[u] \in S /\ next[u] > u
      BY <1>0, <2>3, <3>1
    <3>3. next[u] <= t
      BY <1>0, <3>2
    <3>4. QED
      BY <1>0, <1>2, <2>3, <3>1, <3>2, <3>3
  <2>4. QED
    BY <2>1, <2>2, <2>3
<1>6. InOrder(m, S \cup {t})
  <2>1. \A u \in S \cup {t} : m.head <= u
    BY <1>0, <1>2
  <2>2. QED
    BY <1>0, <1>2, <1>5, <2>1 DEF InOrder
<1>7. QED
  BY <1>0, <1>3, <1>4, <1>6 DEF IsList, m

(* timer_handler on the list does what Scheduler says of the set.          *)
LEMMA TimerRefines ==
    ASSUME ListInv, NEW sleeping \in SUBSET Chain,
           NEW ticks \in [Ids -> 0..MaxTicks],
           TimerHandler(sleeping, ticks)
    PROVE  ListInv' /\ Sched!TimerHandler(sleeping, ticks)
<1> DEFINE dead == is_terminated \ {current_task}
           S == Chain \ dead
           l == Reap(TheList)
           counted == [t \in Ids |-> IF t \in sleeping /\ ticks[t] > 0
                                     THEN ticks[t] - 1
                                     ELSE ticks[t]]
           asleep == sleeping \ Sched!Expired(sleeping, ticks)
<1> USE IdsAreNaturals, MaxTicksAssumption
<1>1. /\ IsList(TheList, Chain) /\ current_task \in Chain
      /\ Chain \subseteq Ids /\ is_terminated \subseteq Chain
  BY DEF ListInv, IsList
<1>2. IsList(l, S)
  BY <1>1, ReapKeepsList
<1>3. {t \in is_terminated : t \in Chain /\ t # current_task} = dead
  BY <1>1
<1>4. [t \in Ids |-> IF t \in Chain \cap sleeping /\ ticks[t] > 0
                     THEN ticks[t] - 1
                     ELSE ticks[t]] = counted
  OBVIOUS
<1>5. {t \in sleeping : t \in Chain => counted[t] > 0} = asleep
  <2>1. ASSUME NEW t \in sleeping PROVE counted[t] > 0 <=> ~(ticks[t] <= 1)
    <3>1. t \in Ids /\ ticks[t] \in Nat
      BY <1>1
    <3>2. QED
      BY <3>1
  <2>2. QED
    BY <2>1 DEF Sched!Expired
<1>6. [head |-> task_list_head, tail |-> task_list_tail, next |-> next] = TheList
  BY DEF TheList
<1> HIDE DEF counted, asleep, dead, l
<1>7. /\ sleep_ticks' = counted
      /\ is_sleeping' = asleep \ dead
      /\ is_terminated' = is_terminated \ dead
      /\ task_list_head' = l.head /\ task_list_tail' = l.tail /\ next' = l.next
      /\ current_task' = IF scheduler_active THEN FirstRunnable(l, asleep)
                                             ELSE current_task
      /\ next_task_id' = next_task_id /\ scheduler_active' = scheduler_active
  BY <1>3, <1>4, <1>5, <1>6 DEF TimerHandler, l
<1>8. TheList' = l
  <2>1. l \in Lists
    BY <1>2 DEF IsList
  <2>2. l = [head |-> l.head, tail |-> l.tail, next |-> l.next]
    BY <2>1 DEF Lists
  <2>3. QED
    BY <1>7, <2>2 DEF TheList
<1>9. Chain' = S /\ IsList(TheList, Chain)'
  BY <1>2, <1>8, ChainIsNext
<1>10. current_task \in S
  BY <1>1 DEF dead
<1>11. /\ FirstRunnable(l, asleep) =
             Sched!NextTask(S \ (asleep \cup is_terminated), current_task)
       /\ FirstRunnable(l, asleep) \in S \cup {Sched!IdleTask}
  BY <1>2, <1>10, FirstRunnableIsNextTask
<1>12. S \ (asleep \cup is_terminated) = Sched!Runnable'
  BY <1>7, <1>9 DEF Sched!Runnable
<1>13. dead = Sched!Reaped
  BY DEF dead, Sched!Reaped
<1>14. Sched!TimerHandler(sleeping, ticks)
  <2>1. sleep_ticks' = [t \in Sched!Ids |-> IF t \in sleeping /\ ticks[t] > 0
                                            THEN ticks[t] - 1
                                            ELSE ticks[t]]
    BY <1>7 DEF counted, Ids, Sched!Ids
  <2>2. is_sleeping' = sleeping \ (Sched!Expired(sleeping, ticks) \cup Sched!Reaped)
    BY <1>7, <1>13 DEF asleep
  <2>3. /\ Chain' = Chain \ Sched!Reaped
        /\ is_terminated' = is_terminated \ Sched!Reaped
    BY <1>7, <1>9, <1>13
  <2>4. current_task' = IF scheduler_active
                        THEN Sched!NextTask(Sched!Runnable', current_task)
                        ELSE current_task
    BY <1>7, <1>11, <1>12
  <2>5. QED
    BY <1>7, <2>1, <2>2, <2>3, <2>4 DEF Sched!TimerHandler
<1>15. {Sched!MainTask, Sched!IdleTask} \subseteq S \ is_terminated
  BY DEF ListInv, dead
<1>16. sleep_ticks' \in [Ids -> 0..MaxTicks]
  <2>1. \A t \in Ids : (IF t \in sleeping /\ ticks[t] > 0 THEN ticks[t] - 1
                                                       ELSE ticks[t])
                      \in 0..MaxTicks
    OBVIOUS
  <2>2. QED
    BY <1>7, <2>1 DEF counted
<1>17. ListInv'
  <2>1. current_task' \in Chain'
    BY <1>7, <1>9, <1>10, <1>11, <1>15
  <2>2. is_sleeping' \subseteq Chain' /\ is_terminated' \subseteq Chain'
    BY <1>1, <1>7, <1>9 DEF asleep
  <2>3. /\ next_task_id' \in 3..(MaxId + 1)
        /\ \A t \in Chain' : t < next_task_id'
    BY <1>7, <1>9 DEF ListInv
  <2>4. {Sched!MainTask, Sched!IdleTask} \subseteq Chain' \ is_terminated'
    BY <1>7, <1>9, <1>15
  <2>5. QED
    BY <1>9, <1>16, <2>1, <2>2, <2>3, <2>4
       DEF ListInv, Sched!MainTask, Sched!IdleTask
<1>18. QED
  BY <1>14, <1>17

(* A step that leaves the pointers alone leaves the set of tasks alone.    *)
LEMMA SameList ==
    ASSUME IsList(TheList, Chain), UNCHANGED list
    PROVE  Chain' = Chain /\ IsList(TheList, Chain)'
<1>1. TheList' = TheList
  BY DEF list, TheList
<1>2. QED
  BY <1>1, ChainIsNext

LEMMA NextRefines ==
    ASSUME Sched!IdleTask \notin Killable, ListInv, [Next]_vars
    PROVE  ListInv' /\ [Sched!Next]_(Sched!vars)
<1> USE IdsAreNaturals, MaxTicksAssumption
<1>0. /\ IsList(TheList, Chain) /\ Chain \subseteq Ids /\ current_task \in Chain
      /\ is_sleeping \in SUBSET Chain /\ is_terminated \subseteq Chain
      /\ sleep_ticks \in [Ids -> 0..MaxTicks]
      /\ next_task_id \in 3..(MaxId + 1)
      /\ \A t \in Chain : t < next_task_id
      /\ {Sched!MainTask, Sched!IdleTask} \subseteq Chain \ is_terminated
  BY DEF ListInv, IsList
<1>1. ASSUME Chain' = Chain, IsList(TheList, Chain)',
             next_task_id' = next_task_id, current_task' = current_task,
             is_sleeping' \in SUBSET Chain, is_terminated' \subseteq Chain,
             sleep_ticks' \in [Ids -> 0..MaxTicks],
             {Sched!MainTask, Sched!IdleTask} \cap is_terminated' = {}
      PROVE  ListInv'
  BY <1>0, <1>1 DEF ListInv, Sched!MainTask, Sched!IdleTask
<1>2. UNCHANGED list => Chain' = Chain /\ IsList(TheList, Chain)'
  BY <1>0, SameList
<1>3. CASE UNCHANGED list /\ Sched!Start
  <2>1. ListInv'
    BY <1>0, <1>1, <1>2, <1>3 DEF Sched!Start
  <2>2. QED
    BY <1>3, <2>1 DEF Sched!Next
<1>4. CASE Tick
  <2>1. ListInv' /\ Sched!TimerHandler(is_sleeping, sleep_ticks)
    BY <1>0, <1>4, TimerRefines DEF Tick
  <2>2. Sched!Tick
    BY <1>4, <2>1 DEF Tick, Sched!Tick
  <2>3. QED
    BY <2>1, <2>2 DEF Sched!Next
<1>5. CASE Yield
  <2>1. ListInv' /\ Sched!TimerHandler(is_sleeping, sleep_ticks)
    BY <1>0, <1>5, TimerRefines DEF Yield
  <2>2. Sched!Yield
    BY <1>5, <2>1 DEF Yield, Sched!Yield
  <2>3. QED
    BY <2>1, <2>2 DEF Sched!Next
<1>6. CASE CreateTask
  <2>1. IsList(TheList', Chain \cup {next_task_id})
    BY <1>6, AppendKeepsList DEF CreateTask
  <2>2. /\ Chain' = Chain \cup {next_task_id}
        /\ IsList(TheList, Chain)'
    BY <2>1, ChainIsNext
  <2>3. /\ next_task_id <= MaxId /\ next_task_id' = next_task_id + 1
        /\ UNCHANGED <<current_task, scheduler_active, is_sleeping, sleep_ticks,
                       is_terminated, pc>>
    BY <1>6 DEF CreateTask
  <2>4. next_task_id' \in 3..(MaxId + 1)
    BY <1>0, <2>3
  <2>5. \A t \in Chain' : t < next_task_id'
    BY <1>0, <2>2, <2>3
  <2>6. ListInv'
    BY <1>0, <2>2, <2>3, <2>4, <2>5 DEF ListInv, Sched!MainTask, Sched!IdleTask
  <2>7. Sched!CreateTask
    BY <2>2, <2>3 DEF Sched!CreateTask
  <2>8. QED
    BY <2>6, <2>7 DEF Sched!Next
<1>7. ASSUME NEW n \in 0..MaxTicks, UNCHANGED list, Sched!Sleep(n)
      PROVE  ListInv' /\ Sched!Next
  <2>1. Sched!SleepTicks(n) \in 0..MaxTicks
    BY DEF Sched!SleepTicks
  <2>2. sleep_ticks' \in [Ids -> 0..MaxTicks]
    BY <1>0, <1>7, <2>1 DEF Sched!Sleep
  <2>3. ListInv'
    BY <1>0, <1>1, <1>2, <1>7, <2>2 DEF Sched!Sleep
  <2>4. QED
    BY <1>7, <2>3 DEF Sched!Next
<1>8. CASE UNCHANGED list /\ Sched!FallAsleep
  <2>1. ListInv'
    BY <1>0, <1>1, <1>2, <1>8 DEF Sched!FallAsleep
  <2>2. QED
    BY <1>8, <2>1 DEF Sched!Next
<1>9. ASSUME NEW n \in 0..MaxTicks, CommandSleep(n)
      PROVE  ListInv' /\ Sched!Next
  <2> DEFINE sleeping == is_sleeping \cup {current_task}
             ticks == [sleep_ticks EXCEPT ![current_task] = Sched!SleepTicks(n)]
  <2>1. Sched!SleepTicks(n) \in 0..MaxTicks
    BY DEF Sched!SleepTicks
  <2>2. sleeping \in SUBSET Chain /\ ticks \in [Ids -> 0..MaxTicks]
    BY <1>0, <2>1
  <2>3. TimerHandler(sleeping, ticks)
    BY <1>9 DEF CommandSleep
  <2>4. ListInv' /\ Sched!TimerHandler(sleeping, ticks)
    <3> HIDE DEF sleeping, ticks
    <3>1. QED
      BY <2>2, <2>3, TimerRefines
  <2>5. Sched!CommandSleep(n)
    BY <1>9, <2>4 DEF CommandSleep, Sched!CommandSleep
  <2>6. QED
    BY <2>4, <2>5 DEF Sched!Next
<1>10. CASE UNCHANGED list /\ Sched!ExitTask
  <2>1. /\ current_task \notin {Sched!MainTask, Sched!IdleTask}
        /\ is_terminated' = is_terminated \cup {current_task}
        /\ UNCHANGED <<next_task_id, current_task, is_sleeping, sleep_ticks>>
    BY <1>10 DEF Sched!ExitTask
  <2>2. ListInv'
    BY <1>0, <1>1, <1>2, <1>10, <2>1
  <2>3. QED
    BY <1>10, <2>2 DEF Sched!Next
<1>11. ASSUME NEW pid \in Killable, Kill(pid)
       PROVE  ListInv' /\ Sched!Next
  <2>1. /\ UNCHANGED list /\ Sched!Kill(pid)
        /\ pid \in Chain \ {Sched!MainTask, Sched!IdleTask}
        /\ is_terminated' = is_terminated \cup {pid}
        /\ UNCHANGED <<next_task_id, current_task, is_sleeping, sleep_ticks>>
    BY <1>11 DEF Kill, Sched!Kill
  <2>2. ListInv'
    BY <1>0, <1>1, <1>2, <2>1
  <2>3. QED
    BY <2>1, <2>2 DEF Sched!Next
<1>12. CASE UNCHANGED vars
  <2>1. Chain' = Chain /\ IsList(TheList, Chain)'
    BY <1>2, <1>12 DEF vars
  <2>2. ListInv'
    BY <1>0, <1>1, <1>12, <2>1 DEF vars
  <2>3. QED
    BY <1>12, <2>1, <2>2 DEF vars, Sched!vars
<1>13. QED
  BY <1>3, <1>4, <1>5, <1>6, <1>7, <1>8, <1>9, <1>10, <1>11, <1>12 DEF Next

-----------------------------------------------------------------------------
(* The theorems.  The idle task must not be killed: get_next_task would    *)
(* return it after its deletion, as it does in the code.                   *)

LEMMA ListInvAlways ==
    ASSUME Sched!IdleTask \notin Killable
    PROVE  Spec => []ListInv
<1>1. ListInv /\ [Next]_vars => ListInv'
  BY NextRefines
<1>2. QED
  BY <1>1, InitListInv, PTL DEF Spec

(* Whichever tasks the reaper unlinks, at the head, in the middle or at    *)
(* the tail, task_list_tail is the last task that the list reaches from    *)
(* task_list_head, so scheduler_create_task appends to the list and not to *)
(* a task that was deleted; and the list is in the order of the ids.       *)
THEOREM TailStaysLast ==
    ASSUME Sched!IdleTask \notin Killable
    PROVE  Spec => []ListOK
<1>1. ListInv => ListOK
  BY DEF ListInv, IsList, InOrder, TheList, Lists, OrNull, ListOK, TypeOK
<1>2. QED
  BY <1>1, ListInvAlways, PTL

(* The walks of timer_handler and get_next_task along the pointers count   *)
(* down, wake, unlink and choose exactly the tasks that Scheduler names as *)
(* a set, and the tail insertion adds the one it adds: what is proved of   *)
(* Scheduler holds of the list.                                            *)
THEOREM ListImplementsScheduler ==
    ASSUME Sched!IdleTask \notin Killable
    PROVE  Spec => ImplementsScheduler
<1>1. Init => Sched!Init
  BY DEF Init
<1>2. ListInv /\ [Next]_vars => [Sched!Next]_(Sched!vars)
  BY NextRefines
<1>3. QED
  BY <1>1, <1>2, ListInvAlways, PTL DEF Spec, ImplementsScheduler, Sched!SafeSpec
=============================================================================
