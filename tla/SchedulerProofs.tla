-------------------------- MODULE SchedulerProofs --------------------------
(***************************************************************************)
(* Proofs about the scheduler, for any number of containers.               *)
(*                                                                         *)
(* The list is a set of containers that is closed under next, and on which *)
(* a rank decreases along next.  A push finds room for the rank of its     *)
(* container between two others by doubling all of them.                   *)
(*                                                                         *)
(* Walk is recursive.  What there is to say of it by induction is said by  *)
(* the least number that would be a counterexample.                        *)
(***************************************************************************)
EXTENDS Scheduler, FiniteSetTheorems, WellFoundedInduction, TLAPS

USE SchedulerAssumption

-----------------------------------------------------------------------------
(***************************************************************************)
(* Least elements and the walk along the list.                             *)
(***************************************************************************)

\* A set of natural numbers has a least element.
LEMMA LeastNat ==
  ASSUME NEW T \in SUBSET Nat, T # {}
  PROVE  \E n \in T : \A k \in T : n <= k
<1>1. PICK n \in T : \A k \in T : ~(<<k, n>> \in OpToRel(<, Nat))
  BY NatLessThanWellFounded, WFMin, Zenon
<1>2. ASSUME NEW k \in T PROVE n <= k
  <2>1. <<k, n>> \notin {ss \in Nat \X Nat : ss[1] < ss[2]}
    BY <1>1 DEF OpToRel
  <2>2. ~(k < n)
    BY <2>1
  <2> QED
    BY <2>2
<1> QED
  BY <1>2

\* A property that fails for some index of the walk fails for a least one.
LEMMA LeastIndex ==
  ASSUME NEW N \in Nat, NEW T \in SUBSET (0 .. N), T # {}
  PROVE  \E n \in T : \A k \in 0 .. N : k < n => k \notin T
<1>1. T \in SUBSET Nat
  OBVIOUS
<1>2. PICK n \in T : \A k \in T : n <= k
  BY <1>1, LeastNat
<1> QED
  BY <1>2

\* The walks of the first N steps: what the definition of Walk asks of it.
IsWalk(f, N) ==
  f = [k \in 0 .. N |->
         IF k = 0 THEN taskList ELSE IF f[k-1] = Nil THEN Nil ELSE next[f[k-1]]]

\* There is a walk of any length.
LEMMA WalkExists == \A N \in Nat : \E f : IsWalk(f, N)
<1> DEFINE T == {N \in Nat : ~\E f : IsWalk(f, N)}
<1>1. SUFFICES ASSUME T # {} PROVE FALSE
  OBVIOUS
<1>2. PICK N \in T : \A k \in T : N <= k
  BY <1>1, LeastNat
<1>3. N # 0
  <2> DEFINE f == [k \in 0 .. 0 |-> taskList]
  <2>1. f = [k \in 0 .. 0 |->
         IF k = 0 THEN taskList ELSE IF f[k-1] = Nil THEN Nil ELSE next[f[k-1]]]
    OBVIOUS
  <2>2. IsWalk(f, 0)
    BY <2>1 DEF IsWalk
  <2> QED
    BY <2>2
<1>4. N - 1 \in Nat /\ N - 1 \notin T
  BY <1>2, <1>3
<1>5. PICK f : IsWalk(f, N - 1)
  BY <1>4
<1> DEFINE last == IF f[N-1] = Nil THEN Nil ELSE next[f[N-1]]
           g == [k \in 0 .. N |-> IF k = N THEN last ELSE f[k]]
<1>6. \A k \in 0 .. N :
        g[k] = IF k = 0 THEN taskList ELSE IF g[k-1] = Nil THEN Nil ELSE next[g[k-1]]
  <2>1. TAKE k \in 0 .. N
  <2>2. CASE k = N
    <3>1. k - 1 \in 0 .. N /\ k - 1 # N
      BY <2>2, <1>3, <1>4
    <3> QED
      BY <2>2, <3>1, <1>3
  <2>3. CASE k # N
    <3>1. k \in 0 .. N - 1
      BY <2>3
    <3>2. f[k] = IF k = 0 THEN taskList ELSE IF f[k-1] = Nil THEN Nil ELSE next[f[k-1]]
      BY <3>1, <1>5, Zenon DEF IsWalk
    <3>3. k # 0 => k - 1 \in 0 .. N /\ k - 1 # N
      BY <3>1
    <3>4. g[k] = f[k]
      BY <2>3
    <3>5. k # 0 => g[k-1] = f[k-1]
      BY <3>3
    <3> HIDE DEF g, last
    <3> QED
      BY <3>2, <3>4, <3>5
  <2> QED
    BY <2>2, <2>3
<1>7. g = [k \in 0 .. N |-> g[k]]
  OBVIOUS
<1>8. IsWalk(g, N)
  <2> HIDE DEF g
  <2> QED
    BY <1>6, <1>7, Zenon DEF IsWalk
<1> QED
  BY <1>8, <1>2

\* The definition of Walk, as equations.
LEMMA WalkIs ==
  /\ Walk = [k \in 0 .. TASK_LIST_DEPTH |-> Walk[k]]
  /\ Walk[0] = taskList
  /\ \A k \in 1 .. TASK_LIST_DEPTH :
       Walk[k] = IF Walk[k-1] = Nil THEN Nil ELSE next[Walk[k-1]]
<1>1. \E f : IsWalk(f, TASK_LIST_DEPTH)
  BY WalkExists
<1>2. IsWalk(Walk, TASK_LIST_DEPTH)
  BY <1>1, Zenon DEF Walk, IsWalk
<1> DEFINE D == TASK_LIST_DEPTH
<1>3. \A k \in 0 .. D : Walk[k] =
         IF k = 0 THEN taskList ELSE IF Walk[k-1] = Nil THEN Nil ELSE next[Walk[k-1]]
  BY <1>2, Zenon DEF IsWalk
<1>4. Walk = [k \in 0 .. D |-> Walk[k]]
  BY <1>2, <1>3, Zenon DEF IsWalk
<1>5. 0 \in 0 .. D /\ \A k \in 1 .. D : k \in 0 .. D /\ k # 0
  OBVIOUS
<1> QED
  BY <1>3, <1>4, <1>5, Zenon

\* What S and rank are for a list: next stays in S, and goes down in rank.
Chain(S, rank) ==
  \A c \in S : /\ next[c] \in S \cup {Nil}
               /\ next[c] # Nil => rank[next[c]] < rank[c]

\* The walk stays in the set.
LEMMA WalkInChain ==
  ASSUME NEW S \in SUBSET Containers, NEW rank, Chain(S, rank),
         taskList \in S \cup {Nil}
  PROVE  \A k \in 0 .. TASK_LIST_DEPTH : Walk[k] \in S \cup {Nil}
<1> DEFINE T == {k \in 0 .. TASK_LIST_DEPTH : Walk[k] \notin S \cup {Nil}}
<1>1. SUFFICES ASSUME T # {} PROVE FALSE
  OBVIOUS
<1>2. PICK k \in T : \A j \in 0 .. TASK_LIST_DEPTH : j < k => j \notin T
  <2>1. T \in SUBSET (0 .. TASK_LIST_DEPTH) /\ TASK_LIST_DEPTH \in Nat
    OBVIOUS
  <2> HIDE DEF T
  <2> QED
    BY <1>1, <2>1, LeastIndex
<1>3. k \in 1 .. TASK_LIST_DEPTH
  <2>1. k # 0
    BY WalkIs
  <2> QED
    BY <2>1
<1>4. k - 1 \in 0 .. TASK_LIST_DEPTH /\ k - 1 < k
  BY <1>3
<1>5. Walk[k-1] \in S \cup {Nil}
  BY <1>2, <1>4
<1>6. Walk[k] = IF Walk[k-1] = Nil THEN Nil ELSE next[Walk[k-1]]
  BY <1>3, WalkIs
<1> QED
  BY <1>5, <1>6 DEF Chain

\* An earlier container of the walk has a higher rank.
LEMMA WalkDescends ==
  ASSUME NEW S \in SUBSET Containers, NEW rank \in [Containers -> Int],
         Chain(S, rank), taskList \in S \cup {Nil},
         NEW i \in 0 .. TASK_LIST_DEPTH, NEW j \in 0 .. TASK_LIST_DEPTH,
         i < j, Walk[j] # Nil
  PROVE  Walk[i] # Nil /\ rank[Walk[j]] < rank[Walk[i]]
<1> DEFINE T == {k \in 0 .. TASK_LIST_DEPTH :
                   /\ i < k /\ Walk[k] # Nil
                   /\ ~(Walk[i] # Nil /\ rank[Walk[k]] < rank[Walk[i]])}
<1>1. SUFFICES ASSUME T # {} PROVE FALSE
  OBVIOUS
<1>2. PICK k \in T : \A l \in 0 .. TASK_LIST_DEPTH : l < k => l \notin T
  <2>1. T \in SUBSET (0 .. TASK_LIST_DEPTH) /\ TASK_LIST_DEPTH \in Nat
    OBVIOUS
  <2> HIDE DEF T
  <2> QED
    BY <1>1, <2>1, LeastIndex
<1>3. k \in 1 .. TASK_LIST_DEPTH /\ k - 1 \in 0 .. TASK_LIST_DEPTH /\ i <= k - 1
  OBVIOUS
<1>4. Walk[k-1] # Nil /\ Walk[k] = next[Walk[k-1]] /\ Walk[k] # Nil
  BY <1>3, WalkIs
<1>5. Walk[k-1] \in S /\ Walk[k] \in S /\ Walk[i] \in S \cup {Nil}
  BY <1>3, <1>4, WalkInChain
<1>6. rank[Walk[k]] < rank[Walk[k-1]]
  BY <1>4, <1>5 DEF Chain
<1>7. rank[Walk[k]] \in Int /\ rank[Walk[k-1]] \in Int
  BY <1>5
<1>8. CASE i = k - 1
  BY <1>4, <1>6, <1>8
<1>9. CASE i # k - 1
  <2>1. Walk[i] # Nil /\ rank[Walk[k-1]] < rank[Walk[i]]
    BY <1>2, <1>3, <1>4, <1>9
  <2>2. rank[Walk[i]] \in Int
    BY <2>1, <1>5
  <2>3. rank[Walk[k]] < rank[Walk[i]]
    BY <2>1, <2>2, <1>6, <1>7
  <2> QED
    BY <2>1, <2>3
<1> QED
  BY <1>8, <1>9

\* The list ends: its containers are distinct, and there are not that many.
LEMMA WalkEnds ==
  ASSUME NEW S \in SUBSET Containers, NEW rank \in [Containers -> Int],
         Chain(S, rank), taskList \in S \cup {Nil}
  PROVE  Walk[TASK_LIST_DEPTH] = Nil
<1> DEFINE D == TASK_LIST_DEPTH
<1>1. SUFFICES ASSUME Walk[D] # Nil PROVE FALSE
  OBVIOUS
<1>2. \A i \in 0 .. D : Walk[i] \in Containers
  <2>1. TAKE i \in 0 .. D
  <2>2. Walk[i] # Nil
    <3>1. CASE i = D
      BY <3>1, <1>1
    <3>2. CASE i < D
      BY <3>2, <1>1, WalkDescends
    <3> QED
      BY <3>1, <3>2
  <2> QED
    BY <2>2, WalkInChain
<1>3. Walk \in [0 .. D -> Containers]
  BY <1>2, WalkIs, Zenon
<1>4. IsFiniteSet(0 .. D) /\ Cardinality(0 .. D) = D + 1
  BY FS_Interval
<1>5. IsFiniteSet(Containers) /\ Cardinality(Containers) = D
  BY FS_Interval DEF Containers
<1>6. Cardinality(Containers) < Cardinality(0 .. D)
  BY <1>4, <1>5
<1>7. PICK i, j \in 0 .. D : i # j /\ Walk[i] = Walk[j]
  <2> DEFINE I == 0 .. D
  <2>1. /\ IsFiniteSet(I) /\ IsFiniteSet(Containers)
        /\ Cardinality(Containers) < Cardinality(I) /\ Walk \in [I -> Containers]
    BY <1>3, <1>4, <1>5, <1>6
  <2>2. \E x, y \in I : x # y /\ Walk[x] = Walk[y]
    <3> HIDE DEF I
    <3> QED
      BY <2>1, FS_PigeonHole
  <2> QED
    BY <2>2
<1>8. rank[Walk[i]] \in Int /\ Walk[i] # Nil /\ Walk[j] # Nil
  BY <1>2 DEF Containers, Nil
<1>9. CASE i < j
  BY <1>7, <1>8, <1>9, WalkDescends
<1>10. CASE j < i
  BY <1>7, <1>8, <1>10, WalkDescends
<1> QED
  BY <1>7, <1>9, <1>10

\* The first empty container is one.
LEMMA FirstEmptyIs ==
  ASSUME EmptyContainers # {}
  PROVE  FirstEmpty \in Containers /\ cb[FirstEmpty] = NoTask
<1>1. EmptyContainers \in SUBSET Nat
  BY DEF EmptyContainers, Containers
<1>2. \E c \in EmptyContainers : \A d \in EmptyContainers : c <= d
  BY <1>1, LeastNat
<1>3. FirstEmpty \in EmptyContainers
  BY <1>2, Zenon DEF FirstEmpty
<1> QED
  BY <1>3 DEF EmptyContainers

\* The place of a new task: the walk reaches it.
LEMMA AheadIs ==
  ASSUME NEW p \in {1, 2}, Walk[TASK_LIST_DEPTH] = Nil,
         \A k \in 0 .. TASK_LIST_DEPTH : Walk[k] \in Containers \cup {Nil},
         prio \in [Containers -> 0 .. 2]
  PROVE  /\ Ahead(p) \in 0 .. TASK_LIST_DEPTH
         /\ Ahead(p) # 0 => Walk[Ahead(p) - 1] # Nil
<1> DEFINE Before(k) == Walk[k] # Nil /\ prio[Walk[k]] < p
           T == {n \in 0 .. TASK_LIST_DEPTH : ~Before(n)}
           IsAhead(n) == /\ \A k \in 0 .. n-1 : Walk[k] # Nil /\ prio[Walk[k]] < p
                         /\ Walk[n] # Nil => prio[Walk[n]] >= p
<1>1. T # {}
  OBVIOUS
<1>2. PICK n \in T : \A k \in 0 .. TASK_LIST_DEPTH : k < n => k \notin T
  <2>1. T \in SUBSET (0 .. TASK_LIST_DEPTH) /\ TASK_LIST_DEPTH \in Nat
    OBVIOUS
  <2> HIDE DEF T
  <2> QED
    BY <1>1, <2>1, LeastIndex
<1>3. IsAhead(n)
  <2>1. \A k \in 0 .. n-1 : k \in 0 .. TASK_LIST_DEPTH /\ k < n
    OBVIOUS
  <2>2. \A k \in 0 .. n-1 : Before(k)
    BY <1>2, <2>1
  <2>3. Walk[n] # Nil => prio[Walk[n]] \in Int /\ ~(prio[Walk[n]] < p)
    OBVIOUS
  <2> QED
    BY <2>2, <2>3
<1>4. Ahead(p) = CHOOSE a \in 0 .. TASK_LIST_DEPTH : IsAhead(a)
  BY DEF Ahead
<1>5. Ahead(p) \in 0 .. TASK_LIST_DEPTH /\ IsAhead(Ahead(p))
  <2> HIDE DEF IsAhead
  <2> QED
    BY <1>3, <1>4, Zenon
<1>6. Ahead(p) # 0 => Ahead(p) - 1 \in 0 .. Ahead(p) - 1
  BY <1>5
<1> QED
  BY <1>5, <1>6

-----------------------------------------------------------------------------
(***************************************************************************)
(* The invariant.                                                          *)
(***************************************************************************)

\* The containers on the list hold a task not yet run.
Good(S, rank) ==
  /\ S \in SUBSET Containers /\ rank \in [Containers -> Int]
  /\ Chain(S, rank)
  /\ taskList \in S \cup {Nil}
  /\ \A c \in S : cb[c] # NoTask /\ c \in fresh

\* What is left of the list when it is shifted.
Rest(S) ==
  \E T \in SUBSET S : /\ loaded \in T \cup {Nil} /\ this \notin T
                      /\ \A c \in T : next[c] \in T \cup {Nil}

\* The container that the main loop has in hand.
InHand(S) ==
  /\ pc = "read" => taskList # Nil
  /\ pc \in {"loadNext", "storeShift"} => this \in S
  /\ pc = "storeShift" => Rest(S)
  /\ pc \in {"call", "freeCb"} => this \in Containers \ S /\ cb[this] # NoTask
  /\ pc = "call" => this \in fresh

ListInv == \E S, rank : Good(S, rank) /\ InHand(S)

LEMMA Prios == {TASKPRIO_NONE} \cup {PrioOf(t) : t \in Tasks} = 0 .. 2
<1>1. {PrioOf(t) : t \in Tasks} = {1, 2}
  <2>1. PrioOf("sixtopNotifReceive") = 1 /\ PrioOf("sixtopNotifSendDone") = 2
    BY DEF PrioOf
  <2> QED
    BY <2>1 DEF Tasks
<1> QED
  BY <1>1 DEF TASKPRIO_NONE

LEMMA ListInit == Init => TypeOK /\ ListInv
<1> SUFFICES ASSUME Init PROVE TypeOK /\ ListInv
  OBVIOUS
<1>1. TypeOK
  BY Prios DEF Init, TypeOK, Pointers, Containers, Nil, TASKPRIO_NONE, NoTask
<1>2. Good({}, [c \in Containers |-> 0]) /\ InHand({})
  BY DEF Init, Good, InHand, Chain
<1> QED
  BY <1>1, <1>2 DEF ListInv

\* A step of the main loop or an interrupt that leaves the list alone keeps
\* what Good says.
LEMMA SameGood ==
  ASSUME NEW S, NEW rank, Good(S, rank), UNCHANGED <<next, cb, fresh>>,
         taskList' \in S \cup {Nil}
  PROVE  Good(S, rank)'
BY Zenon DEF Good, Chain

-----------------------------------------------------------------------------
(***************************************************************************)
(* A push, in the three parts of the invariant.                            *)
(***************************************************************************)

\* What a push does, by the place a of the container before the new one.
LEMMA PushIs ==
  ASSUME TypeOK, NEW S, NEW rank, Good(S, rank),
         NEW task \in Tasks, scheduler_push_task(task)
  PROVE  \E c \in Containers \ S, b \in S \cup {Nil} :
           /\ cb[c] = NoTask
           /\ cb' = [cb EXCEPT ![c] = task]
           /\ prio' = [prio EXCEPT ![c] = PrioOf(task)]
           /\ fresh' = fresh \cup {c}
           /\ \/ b = taskList /\ taskList' = c /\ next' = [next EXCEPT ![c] = b]
              \/ \E a \in S : /\ next[a] = b /\ taskList' = taskList /\ taskList # Nil
                              /\ next' = [next EXCEPT ![c] = b, ![a] = c]
<1> DEFINE c == FirstEmpty
           n == Ahead(PrioOf(task))
<1>1. c \in Containers /\ cb[c] = NoTask
  BY FirstEmptyIs DEF scheduler_push_task
<1>2. c \notin S
  BY <1>1 DEF Good
<1>3. \A k \in 0 .. TASK_LIST_DEPTH : Walk[k] \in S \cup {Nil}
  BY WalkInChain DEF Good
<1>4. Walk[TASK_LIST_DEPTH] = Nil
  BY WalkEnds DEF Good
<1>5. n \in 0 .. TASK_LIST_DEPTH /\ (n # 0 => Walk[n-1] # Nil)
  <2>1. PrioOf(task) \in {1, 2}
    BY DEF PrioOf
  <2>2. prio \in [Containers -> 0 .. 2]
    BY Prios DEF TypeOK
  <2>3. \A k \in 0 .. TASK_LIST_DEPTH : Walk[k] \in Containers \cup {Nil}
    BY <1>3 DEF Good
  <2> QED
    BY <1>4, <2>1, <2>2, <2>3, AheadIs
<1>6. Walk[n] \in S \cup {Nil}
  BY <1>3, <1>5
<1>7. /\ cb' = [cb EXCEPT ![c] = task]
      /\ prio' = [prio EXCEPT ![c] = PrioOf(task)]
      /\ fresh' = fresh \cup {c}
      /\ IF n = 0
           THEN taskList' = c /\ next' = [next EXCEPT ![c] = Walk[n]]
           ELSE taskList' = taskList /\ next' = [next EXCEPT ![c] = Walk[n], ![Walk[n-1]] = c]
  BY DEF scheduler_push_task
<1>8. CASE n = 0
  <2>1. Walk[n] = taskList
    BY <1>8, WalkIs
  <2> QED
    BY <1>1, <1>2, <1>6, <1>7, <1>8, <2>1
<1>9. CASE n # 0
  <2>1. n \in 1 .. TASK_LIST_DEPTH /\ n - 1 \in 0 .. TASK_LIST_DEPTH
    BY <1>5, <1>9
  <2>2. Walk[n-1] \in S /\ next[Walk[n-1]] = Walk[n]
    <3>1. Walk[n-1] # Nil
      BY <1>5, <1>9
    <3> HIDE DEF n
    <3> QED
      BY <3>1, <2>1, <1>3, WalkIs
  <2>3. taskList # Nil
    <3> SUFFICES ASSUME taskList = Nil PROVE FALSE
      OBVIOUS
    <3>1. Chain({}, rank) /\ taskList \in {} \cup {Nil}
      BY DEF Chain
    <3>2. Walk[n-1] \in {} \cup {Nil}
      BY <3>1, <2>1, WalkInChain
    <3> QED
      BY <3>2, <1>5, <1>9
  <2> QED
    BY <1>1, <1>2, <1>6, <1>7, <1>9, <2>2, <2>3
<1> QED
  BY <1>8, <1>9


\* The ranks after a push: room for the new container between the others.
LEMMA PushGood ==
  ASSUME TypeOK, NEW S, NEW rank, Good(S, rank),
         NEW c \in Containers \ S, NEW b \in S \cup {Nil}, NEW task \in Tasks,
         cb' = [cb EXCEPT ![c] = task], fresh' = fresh \cup {c},
         \/ b = taskList /\ taskList' = c /\ next' = [next EXCEPT ![c] = b]
         \/ \E a \in S : /\ next[a] = b /\ taskList' = taskList
                         /\ next' = [next EXCEPT ![c] = b, ![a] = c]
  PROVE  \E r : Good(S \cup {c}, r)'
<1>1. /\ S \in SUBSET Containers /\ rank \in [Containers -> Int] /\ Chain(S, rank)
      /\ taskList \in S \cup {Nil} /\ next \in [Containers -> Pointers]
      /\ cb \in [Containers -> Tasks \cup {NoTask}]
  BY DEF Good, TypeOK
<1>2. c \in Containers /\ c # Nil /\ Nil \notin S /\ c \notin S
  BY <1>1 DEF Containers, Nil
<1>3. \A d \in S \cup {c} : cb'[d] # NoTask /\ d \in fresh'
  <2>1. task # NoTask
    BY DEF Tasks, NoTask
  <2>2. \A d \in S : cb[d] # NoTask /\ d \in fresh /\ d # c
    BY <1>2 DEF Good
  <2> QED
    BY <1>1, <1>2, <2>1, <2>2
<1>4. ASSUME NEW r \in [Containers -> Int], Chain(S \cup {c}, r)',
             taskList' \in S \cup {c, Nil}
      PROVE  Good(S \cup {c}, r)'
  BY <1>1, <1>3, <1>4 DEF Good
<1>5. CASE b = taskList /\ taskList' = c /\ next' = [next EXCEPT ![c] = b]
  <2> DEFINE top == IF b = Nil THEN 0 ELSE rank[b] + 1
             r == [rank EXCEPT ![c] = top]
  <2>1. top \in Int /\ r \in [Containers -> Int]
    BY <1>1
  <2>2. \A d \in S : next'[d] = next[d] /\ r[d] = rank[d]
    BY <1>1, <1>2, <1>5
  <2>3. next'[c] = b /\ r[c] = top
    BY <1>1, <1>2, <1>5
  <2>4. ASSUME NEW d \in S \cup {c}
        PROVE  /\ next'[d] \in S \cup {c} \cup {Nil}
               /\ next'[d] # Nil => r[next'[d]] < r[d]
    <3>1. CASE d = c
      <4>1. b # Nil => r[b] = rank[b] /\ top = rank[b] + 1 /\ rank[b] \in Int
        BY <1>1, <2>2
      <4> HIDE DEF r, top
      <4> QED
        BY <3>1, <4>1, <2>3
    <3>2. CASE d \in S
      <4>1. next[d] \in S \cup {Nil} /\ (next[d] # Nil => rank[next[d]] < rank[d])
        BY <1>1, <3>2 DEF Chain
      <4> HIDE DEF r
      <4> QED
        BY <3>2, <4>1, <2>2
    <3> QED
      BY <3>1, <3>2
  <2> HIDE DEF r
  <2>5. Chain(S \cup {c}, r)'
    BY <2>4 DEF Chain
  <2> QED
    BY <1>4, <1>5, <2>1, <2>5
<1>6. ASSUME NEW a \in S, next[a] = b, taskList' = taskList,
             next' = [next EXCEPT ![c] = b, ![a] = c]
      PROVE  \E r : Good(S \cup {c}, r)'
  <2> DEFINE r == [d \in Containers |-> IF d = c THEN 2 * rank[a] - 1 ELSE 2 * rank[d]]
  <2>1. r \in [Containers -> Int]
    BY <1>1
  <2>2. a # c /\ a \in Containers
    BY <1>1, <1>2
  <2>3. /\ next'[c] = b /\ next'[a] = c
        /\ \A d \in S : d # a => next'[d] = next[d]
    BY <1>1, <1>2, <1>6, <2>2
  <2>4. r[c] = 2 * rank[a] - 1 /\ \A d \in S : r[d] = 2 * rank[d] /\ rank[d] \in Int
    BY <1>1, <1>2
  <2>5. ASSUME NEW d \in S \cup {c}
        PROVE  /\ next'[d] \in S \cup {c} \cup {Nil}
               /\ next'[d] # Nil => r[next'[d]] < r[d]
    <3> HIDE DEF r
    <3>1. CASE d = c
      <4>1. b # Nil => rank[b] < rank[a]
        BY <1>1, <1>6 DEF Chain
      <4>2. b # Nil => r[b] = 2 * rank[b] /\ rank[b] \in Int /\ rank[a] \in Int
        BY <2>4
      <4>3. b # Nil => r[b] < r[c]
        BY <4>1, <4>2, <2>4
      <4> QED
        BY <3>1, <4>3, <2>3
    <3>2. CASE d = a
      <4>1. r[c] < r[a]
        BY <2>4
      <4> QED
        BY <3>2, <4>1, <2>3
    <3>3. CASE d \in S /\ d # a
      <4>1. next'[d] = next[d] /\ next[d] \in S \cup {Nil}
        BY <1>1, <3>3, <2>3 DEF Chain
      <4>2. next[d] # Nil => rank[next[d]] < rank[d]
        BY <1>1, <3>3 DEF Chain
      <4>3. next[d] # Nil => r[next[d]] = 2 * rank[next[d]] /\ rank[next[d]] \in Int
        BY <4>1, <2>4
      <4>4. r[d] = 2 * rank[d] /\ rank[d] \in Int
        BY <3>3, <2>4
      <4>5. next[d] # Nil => r[next[d]] < r[d]
        BY <4>2, <4>3, <4>4
      <4> QED
        BY <4>1, <4>5
    <3> QED
      BY <3>1, <3>2, <3>3
  <2> HIDE DEF r
  <2>6. Chain(S \cup {c}, r)'
    BY <2>5 DEF Chain
  <2> QED
    BY <1>4, <1>1, <1>6, <2>1, <2>6
<1> QED
  BY <1>5, <1>6

\* A push between the two halves of the shift.
LEMMA PushRest ==
  ASSUME TypeOK, NEW S \in SUBSET Containers, this \in S, Rest(S),
         NEW c \in Containers \ S, NEW b \in S \cup {Nil}, loaded' = loaded, this' = this,
         \/ next' = [next EXCEPT ![c] = b]
         \/ \E a \in S : next[a] = b /\ next' = [next EXCEPT ![c] = b, ![a] = c]
  PROVE  Rest(S \cup {c})'
<1>1. PICK T \in SUBSET S : /\ loaded \in T \cup {Nil} /\ this \notin T
                            /\ \A d \in T : next[d] \in T \cup {Nil}
  BY DEF Rest
<1>2. next \in [Containers -> Pointers] /\ c \notin T /\ T \in SUBSET Containers
  BY <1>1 DEF TypeOK
<1>3. ASSUME NEW U \in SUBSET (S \cup {c}), loaded' \in U \cup {Nil}, this' \notin U,
             \A d \in U : next'[d] \in U \cup {Nil}
      PROVE  Rest(S \cup {c})'
  BY <1>3 DEF Rest
<1>4. CASE next' = [next EXCEPT ![c] = b]
  <2>1. \A d \in T : next'[d] = next[d]
    BY <1>2, <1>4
  <2> QED
    BY <1>1, <1>3, <2>1
<1>5. ASSUME NEW a \in S, next[a] = b, next' = [next EXCEPT ![c] = b, ![a] = c]
      PROVE  Rest(S \cup {c})'
  <2>1. a # c /\ a \in Containers
    OBVIOUS
  <2>2. next'[c] = b /\ next'[a] = c /\ \A d \in T : d # a => next'[d] = next[d]
    BY <1>2, <1>5, <2>1
  <2>3. CASE a \in T
    <3> DEFINE U == T \cup {c}
    <3>1. \A d \in U : next'[d] \in U \cup {Nil}
      BY <1>1, <1>5, <2>2, <2>3
    <3>2. U \in SUBSET (S \cup {c}) /\ loaded' \in U \cup {Nil} /\ this' \notin U
      BY <1>1
    <3> HIDE DEF U
    <3> QED
      BY <1>3, <3>1, <3>2
  <2>4. CASE a \notin T
    <3>1. \A d \in T : next'[d] \in T \cup {Nil}
      BY <1>1, <2>2, <2>4
    <3> QED
      BY <1>1, <1>3, <3>1
  <2> QED
    BY <2>3, <2>4
<1> QED
  BY <1>4, <1>5

\* A push keeps the invariant, wherever it interrupts the main loop.
LEMMA PushStep ==
  ASSUME TypeOK, ListInv, NEW task \in Tasks, scheduler_push_task(task)
  PROVE  TypeOK' /\ ListInv'
<1>1. PICK S, rank : Good(S, rank) /\ InHand(S)
  BY DEF ListInv
<1>2. PICK c \in Containers \ S, b \in S \cup {Nil} :
           /\ cb[c] = NoTask
           /\ cb' = [cb EXCEPT ![c] = task]
           /\ prio' = [prio EXCEPT ![c] = PrioOf(task)]
           /\ fresh' = fresh \cup {c}
           /\ \/ b = taskList /\ taskList' = c /\ next' = [next EXCEPT ![c] = b]
              \/ \E a \in S : /\ next[a] = b /\ taskList' = taskList /\ taskList # Nil
                              /\ next' = [next EXCEPT ![c] = b, ![a] = c]
  BY <1>1, PushIs
<1>3. /\ pc' = IF pc = "asleep" THEN "check" ELSE pc
      /\ this' = this /\ loaded' = loaded
      /\ hit' = (hit \/ pc \in {"loadNext", "storeShift", "freePrio", "freeNext"})
  BY DEF scheduler_push_task, Wake
<1>4. S \in SUBSET Containers
  BY <1>1 DEF Good
<1>5. PICK r : Good(S \cup {c}, r)'
  BY <1>1, <1>2, PushGood
<1>6. InHand(S \cup {c})'
  <2>1. pc' = "read" => taskList' # Nil
    BY <1>1, <1>2, <1>3 DEF InHand, Containers, Nil
  <2>2. pc' \in {"loadNext", "storeShift"} => this' \in S \cup {c}
    BY <1>1, <1>3 DEF InHand
  <2>3. pc' = "storeShift" => Rest(S \cup {c})'
    <3> SUFFICES ASSUME pc = "storeShift" PROVE Rest(S \cup {c})'
      BY <1>3
    <3>1. this \in S /\ Rest(S)
      BY <1>1 DEF InHand
    <3> QED
      BY <1>2, <1>3, <1>4, <3>1, PushRest
  <2>4. pc' \in {"call", "freeCb"} => this' \in Containers \ (S \cup {c}) /\ cb'[this'] # NoTask
    <3> SUFFICES ASSUME pc \in {"call", "freeCb"}
                 PROVE  this \in Containers \ (S \cup {c}) /\ cb'[this] # NoTask
      BY <1>3
    <3>1. this \in Containers \ S /\ cb[this] # NoTask
      BY <1>1 DEF InHand
    <3>2. this # c
      BY <1>2, <3>1
    <3>3. cb'[this] = cb[this]
      BY <1>2, <3>1, <3>2 DEF TypeOK
    <3> QED
      BY <3>1, <3>2, <3>3
  <2>5. pc' = "call" => this' \in fresh'
    BY <1>1, <1>2, <1>3 DEF InHand
  <2> QED
    BY <2>1, <2>2, <2>3, <2>4, <2>5 DEF InHand
<1>7. TypeOK'
  <2>1. taskList' \in Pointers /\ next' \in [Containers -> Pointers]
    <3>1. c \in Pointers /\ b \in Pointers /\ next \in [Containers -> Pointers]
      BY <1>4 DEF Pointers, TypeOK
    <3> QED
      BY <1>2, <3>1 DEF TypeOK
  <2>2. prio' \in [Containers -> {TASKPRIO_NONE} \cup {PrioOf(t) : t \in Tasks}]
    <3>1. prio \in [Containers -> {TASKPRIO_NONE} \cup {PrioOf(t) : t \in Tasks}]
      BY DEF TypeOK
    <3>2. prio' = [prio EXCEPT ![c] = PrioOf(task)]
      BY <1>2
    <3> QED
      BY <3>1, <3>2
  <2>3. cb' \in [Containers -> Tasks \cup {NoTask}] /\ fresh' \in SUBSET Containers
    BY <1>2 DEF TypeOK
  <2>4. hit' \in BOOLEAN
    BY <1>3, Zenon DEF TypeOK
  <2>5. this' \in Pointers /\ loaded' \in Pointers
    BY <1>3 DEF TypeOK
  <2>6. pc' \in {"check", "read", "loadNext", "storeShift", "call",
                 "freeCb", "freePrio", "freeNext", "sleep", "asleep"}
    BY <1>3 DEF TypeOK
  <2> QED
    BY <2>1, <2>2, <2>3, <2>4, <2>5, <2>6 DEF TypeOK
<1> QED
  BY <1>5, <1>6, <1>7 DEF ListInv


-----------------------------------------------------------------------------
(***************************************************************************)
(* The main loop, and the steps that leave the list alone.                 *)
(***************************************************************************)

\* A reset leaves an empty list.
LEMMA OverflowStep == Overflow => TypeOK' /\ ListInv'
<1> SUFFICES ASSUME Overflow PROVE TypeOK' /\ ListInv'
  OBVIOUS
<1>1. TypeOK'
  BY Prios DEF Overflow, TypeOK, Pointers, Containers, Nil, TASKPRIO_NONE, NoTask
<1>2. Good({}, [c \in Containers |-> 0])' /\ InHand({})'
  BY DEF Overflow, Good, InHand, Chain
<1> QED
  BY <1>1, <1>2 DEF ListInv

\* The steps at which the main loop holds no container that it looks at.
LEMMA IdleStep ==
  ASSUME TypeOK, ListInv, OtherInterrupt \/ CheckList \/ board_sleep \/ UNCHANGED vars
  PROVE  TypeOK' /\ ListInv'
<1>1. PICK S, rank : Good(S, rank) /\ InHand(S)
  BY DEF ListInv
<1>2. /\ UNCHANGED <<list, this, loaded, fresh, hit>>
      /\ pc' = pc \/ pc' \in {"check", "sleep", "asleep"} \/ (pc' = "read" /\ taskList # Nil)
  BY DEF OtherInterrupt, CheckList, board_sleep, Wake, Goto, vars, list
<1>3. Good(S, rank)'
  BY <1>1, <1>2, SameGood DEF Good, list
<1>4. InHand(S)'
  BY <1>1, <1>2 DEF InHand, Rest, list
<1>5. TypeOK'
  BY <1>2 DEF TypeOK, list
<1> QED
  BY <1>3, <1>4, <1>5 DEF ListInv

\* pThisTask is the head of the list.
LEMMA ReadHeadStep ==
  ASSUME TypeOK, ListInv, ReadHead PROVE TypeOK' /\ ListInv'
<1>1. PICK S, rank : Good(S, rank) /\ InHand(S)
  BY DEF ListInv
<1>2. /\ pc = "read" /\ pc' = "loadNext" /\ this' = taskList /\ hit' = FALSE
      /\ UNCHANGED <<taskList, next, prio, cb, loaded, fresh>>
  BY DEF ReadHead, Goto, list
<1>3. Good(S, rank)'
  BY <1>1, <1>2, SameGood DEF Good
<1>4. InHand(S)'
  BY <1>1, <1>2 DEF InHand, Good
<1>5. TypeOK'
  BY <1>2 DEF TypeOK
<1> QED
  BY <1>3, <1>4, <1>5 DEF ListInv

\* What follows pThisTask on the list is what has a lower rank.
LEMMA LoadNextStep ==
  ASSUME TypeOK, ListInv, LoadNext PROVE TypeOK' /\ ListInv'
<1>1. PICK S, rank : Good(S, rank) /\ InHand(S)
  BY DEF ListInv
<1>2. /\ pc = "loadNext" /\ pc' = "storeShift" /\ loaded' = next[this]
      /\ UNCHANGED <<taskList, next, prio, cb, this, fresh, hit>>
  BY DEF LoadNext, Goto, list
<1>3. this \in S /\ S \in SUBSET Containers /\ Chain(S, rank) /\ rank \in [Containers -> Int]
  BY <1>1, <1>2 DEF InHand, Good
<1>4. Good(S, rank)'
  BY <1>1, <1>2, SameGood DEF Good
<1> DEFINE T == {c \in S : rank[c] < rank[this]}
<1>5. loaded' \in T \cup {Nil} /\ this \notin T
  BY <1>2, <1>3 DEF Chain
<1>6. \A c \in T : next[c] \in T \cup {Nil}
  <2>1. TAKE c \in T
  <2>2. SUFFICES ASSUME next[c] # Nil PROVE next[c] \in T
    OBVIOUS
  <2>3. next[c] \in S /\ rank[next[c]] < rank[c] /\ rank[c] < rank[this]
    BY <1>3, <2>2 DEF Chain
  <2>4. rank[next[c]] \in Int /\ rank[c] \in Int /\ rank[this] \in Int
    BY <1>3, <2>3
  <2> QED
    BY <2>3, <2>4
<1>7. Rest(S)'
  <2> HIDE DEF T
  <2>1. T \in SUBSET S
    BY DEF T
  <2>2. Rest(S)' = \E U \in SUBSET S :
          /\ loaded' \in U \cup {Nil} /\ this' \notin U
          /\ \A c \in U : next'[c] \in U \cup {Nil}
    BY DEF Rest
  <2> QED
    BY <1>2, <1>5, <1>6, <2>1, <2>2
<1>8. InHand(S)'
  BY <1>2, <1>3, <1>7 DEF InHand
<1>9. TypeOK'
  <2>1. loaded' \in Pointers
    BY <1>2, <1>3 DEF TypeOK
  <2> QED
    BY <1>2, <2>1 DEF TypeOK
<1> QED
  BY <1>4, <1>8, <1>9 DEF ListInv

\* The shift: the list becomes what follows pThisTask, less what an
\* interrupt pushed in front of it meanwhile.
LEMMA StoreShiftStep ==
  ASSUME TypeOK, ListInv, StoreShift PROVE TypeOK' /\ ListInv'
<1>1. PICK S, rank : Good(S, rank) /\ InHand(S)
  BY DEF ListInv
<1>2. /\ pc = "storeShift" /\ pc' = "call" /\ taskList' = loaded /\ loaded' = Nil
      /\ UNCHANGED <<next, prio, cb, this, fresh, hit>>
  BY DEF StoreShift, Goto
<1>3. this \in S /\ Rest(S)
  BY <1>1, <1>2 DEF InHand
<1>4. PICK T \in SUBSET S : /\ loaded \in T \cup {Nil} /\ this \notin T
                            /\ \A c \in T : next[c] \in T \cup {Nil}
  BY <1>3 DEF Rest
<1>5. Good(T, rank)'
  <2>1. Chain(T, rank)'
    BY <1>1, <1>2, <1>4 DEF Good, Chain
  <2> QED
    BY <1>1, <1>2, <1>4, <2>1 DEF Good
<1>6. InHand(T)'
  BY <1>1, <1>2, <1>3, <1>4 DEF InHand, Good
<1>7. TypeOK'
  BY <1>2 DEF TypeOK, Pointers
<1> QED
  BY <1>5, <1>6, <1>7 DEF ListInv

\* The callback runs, and then the container is released.
LEMMA CallAndFreeStep ==
  ASSUME TypeOK, ListInv, CallTask \/ FreeCb \/ FreePrio \/ FreeNext
  PROVE  TypeOK' /\ ListInv'
<1>1. PICK S, rank : Good(S, rank) /\ InHand(S)
  BY DEF ListInv
<1>2. CASE CallTask
  <2>1. /\ pc = "call" /\ pc' = "freeCb" /\ fresh' = fresh \ {this}
        /\ UNCHANGED <<taskList, next, prio, cb, this, loaded, hit>>
    BY <1>2 DEF CallTask, Goto, list
  <2>2. this \in Containers \ S /\ cb[this] # NoTask
    BY <1>1, <2>1 DEF InHand
  <2>3. Good(S, rank)'
    BY <1>1, <2>1, <2>2 DEF Good, Chain
  <2>4. InHand(S)'
    BY <2>1, <2>2 DEF InHand
  <2>5. TypeOK'
    BY <2>1 DEF TypeOK
  <2> QED
    BY <2>3, <2>4, <2>5 DEF ListInv
<1>3. CASE FreeCb
  <2>1. /\ pc = "freeCb" /\ pc' = "freePrio" /\ cb' = [cb EXCEPT ![this] = NoTask]
        /\ hit' = FALSE
        /\ UNCHANGED <<taskList, next, prio, this, loaded, fresh>>
    BY <1>3 DEF FreeCb, Goto
  <2>2. this \notin S
    BY <1>1, <2>1 DEF InHand
  <2>3. \A c \in S : cb'[c] = cb[c]
    BY <1>1, <2>1, <2>2 DEF TypeOK, Good
  <2>4. Good(S, rank)'
    BY <1>1, <2>1, <2>3 DEF Good, Chain
  <2>5. InHand(S)'
    BY <2>1 DEF InHand
  <2>6. TypeOK'
    BY <2>1 DEF TypeOK
  <2> QED
    BY <2>4, <2>5, <2>6 DEF ListInv
<1>4. CASE FreePrio
  <2>1. /\ pc = "freePrio" /\ pc' = "freeNext"
        /\ prio' = [prio EXCEPT ![this] = TASKPRIO_NONE]
        /\ UNCHANGED <<taskList, next, cb, this, loaded, fresh, hit>>
    BY <1>4 DEF FreePrio, Goto
  <2>2. Good(S, rank)'
    BY <1>1, <2>1, SameGood DEF Good
  <2>3. InHand(S)'
    BY <2>1 DEF InHand
  <2>4. TypeOK'
    BY <2>1 DEF TypeOK
  <2> QED
    BY <2>2, <2>3, <2>4 DEF ListInv
<1>5. CASE FreeNext
  <2>1. /\ pc = "freeNext" /\ pc' = "check" /\ next' = [next EXCEPT ![this] = Nil]
        /\ UNCHANGED <<taskList, prio, cb, this, loaded, fresh, hit>>
    BY <1>5 DEF FreeNext, Goto
  <2>2. \A c \in S : next'[c] = Nil \/ next'[c] = next[c]
    BY <1>1, <2>1 DEF TypeOK, Good
  <2>3. Good(S, rank)'
    BY <1>1, <2>1, <2>2 DEF Good, Chain
  <2>4. InHand(S)'
    BY <2>1 DEF InHand
  <2>5. TypeOK'
    BY <2>1 DEF TypeOK, Pointers
  <2> QED
    BY <2>3, <2>4, <2>5 DEF ListInv
<1> QED
  BY <1>2, <1>3, <1>4, <1>5

\* The invariant is inductive.
LEMMA ListStep ==
  ASSUME TypeOK, ListInv, [Next]_vars PROVE TypeOK' /\ ListInv'
<1>1. ASSUME NEW task \in Tasks, scheduler_push_task(task) PROVE TypeOK' /\ ListInv'
  BY <1>1, PushStep
<1>2. CASE Overflow
  BY <1>2, OverflowStep
<1>3. CASE OtherInterrupt \/ CheckList \/ board_sleep \/ UNCHANGED vars
  BY <1>3, IdleStep
<1>4. CASE ReadHead
  BY <1>4, ReadHeadStep
<1>5. CASE LoadNext
  BY <1>5, LoadNextStep
<1>6. CASE StoreShift
  BY <1>6, StoreShiftStep
<1>7. CASE CallTask \/ FreeCb \/ FreePrio \/ FreeNext
  BY <1>7, CallAndFreeStep
<1> QED
  BY <1>1, <1>2, <1>3, <1>4, <1>5, <1>6, <1>7 DEF Next, scheduler_start

\* What the invariant says of the walk that scheduler_push_task takes.
LEMMA InvSound ==
  ASSUME TypeOK, ListInv PROVE ListSound /\ NoStaleCall
<1>1. PICK S, rank : Good(S, rank) /\ InHand(S)
  BY DEF ListInv
<1>2. Walk[TASK_LIST_DEPTH] = Nil
  BY <1>1, WalkEnds DEF Good
<1>3. Listed \subseteq S
  BY <1>1, WalkInChain DEF Listed, Good
<1>4. ListSound
  BY <1>1, <1>2, <1>3 DEF ListSound, Good, InHand
<1>5. NoStaleCall
  BY <1>1 DEF NoStaleCall, InHand
<1> QED
  BY <1>4, <1>5

-----------------------------------------------------------------------------
(***************************************************************************)
(* What is on the list: the least set with the head that next stays in.    *)
(***************************************************************************)

LEMMA ListedClosed ==
  ASSUME NEW S, NEW rank, Good(S, rank)
  PROVE  /\ Listed \subseteq S /\ taskList \in Listed \cup {Nil}
         /\ \A c \in Listed : next[c] \in Listed \cup {Nil}
<1>1. Listed \subseteq S
  BY WalkInChain DEF Listed, Good
<1>2. taskList \in Listed \cup {Nil}
  BY WalkIs DEF Listed
<1>3. ASSUME NEW c \in Listed PROVE next[c] \in Listed \cup {Nil}
  <2>1. PICK k \in 0 .. TASK_LIST_DEPTH : c = Walk[k] /\ c # Nil
    BY DEF Listed
  <2>2. k # TASK_LIST_DEPTH
    BY <2>1, WalkEnds DEF Good
  <2>3. k + 1 \in 1 .. TASK_LIST_DEPTH /\ k + 1 \in 0 .. TASK_LIST_DEPTH /\ (k + 1) - 1 = k
    BY <2>2
  <2>4. Walk[k+1] = next[c]
    BY <2>1, <2>3, WalkIs
  <2> QED
    BY <2>3, <2>4 DEF Listed
<1> QED
  BY <1>1, <1>2, <1>3

ListClosed ==
  /\ taskList \in Listed \cup {Nil}
  /\ \A c \in Listed : next[c] \in Listed \cup {Nil}

LEMMA InvClosed == ListInv => ListClosed
  BY ListedClosed DEF ListInv, ListClosed

LEMMA InvClosedNext == ListInv' => ListClosed'
  BY InvClosed, PTL

LEMMA ListedLeast ==
  ASSUME NEW S, NEW rank, Good(S, rank), NEW X, taskList \in X \cup {Nil},
         \A d \in X \cap Listed : next[d] \in X \cup {Nil}
  PROVE  Listed \subseteq X
<1> DEFINE Y == X \cap Listed
<1>1. Listed \subseteq S /\ taskList \in Listed \cup {Nil}
      /\ \A c \in Listed : next[c] \in Listed \cup {Nil}
  BY ListedClosed
<1>2. Y \in SUBSET Containers /\ taskList \in Y \cup {Nil}
  BY <1>1 DEF Good
<1>3. Chain(Y, rank)
  BY <1>1 DEF Good, Chain
<1>4. \A k \in 0 .. TASK_LIST_DEPTH : Walk[k] \in Y \cup {Nil}
  <2> HIDE DEF Y
  <2> QED
    BY <1>2, <1>3, WalkInChain
<1> QED
  BY <1>4 DEF Listed

\* A step that leaves the pointers alone leaves the list.
LEMMA SameListed ==
  ASSUME NEW S, NEW rank, Good(S, rank), ListInv',
         taskList' = taskList, \A c \in Listed : next'[c] = next[c]
  PROVE  Listed \subseteq Listed'
<1>1. taskList' \in Listed' \cup {Nil} /\ \A c \in Listed' : next'[c] \in Listed' \cup {Nil}
  BY InvClosedNext DEF ListClosed
<1> DEFINE X == Listed'
<1>2. taskList \in X \cup {Nil} /\ \A d \in X \cap Listed : next[d] \in X \cup {Nil}
  BY <1>1
<1> HIDE DEF X
<1>3. Listed \subseteq X
  BY <1>2, ListedLeast
<1> QED
  BY <1>3 DEF X

\* The containers on the list stay there, and the new one joins them.
LEMMA PushListed ==
  ASSUME TypeOK, ListInv, NEW task \in Tasks, scheduler_push_task(task)
  PROVE  \E c : fresh' = fresh \cup {c} /\ Listed \cup {c} \subseteq Listed'
<1>1. PICK S, rank : Good(S, rank)
  BY DEF ListInv
<1>2. ListInv'
  BY PushStep
<1>3. /\ taskList \in Listed \cup {Nil}
      /\ \A c \in Listed : next[c] \in Listed \cup {Nil}
      /\ Listed \subseteq S
  BY <1>1, ListedClosed
<1>4. Good(Listed, rank)
  BY <1>1, <1>3 DEF Good, Chain
<1>5. PICK c \in Containers \ Listed, b \in Listed \cup {Nil} :
           /\ fresh' = fresh \cup {c}
           /\ \/ b = taskList /\ taskList' = c /\ next' = [next EXCEPT ![c] = b]
              \/ \E a \in Listed : /\ next[a] = b /\ taskList' = taskList /\ taskList # Nil
                                   /\ next' = [next EXCEPT ![c] = b, ![a] = c]
  <2> DEFINE L == Listed
  <2>1. Good(L, rank)
    BY <1>4
  <2> HIDE DEF L
  <2>2. \E c \in Containers \ L, b \in L \cup {Nil} :
           /\ fresh' = fresh \cup {c}
           /\ \/ b = taskList /\ taskList' = c /\ next' = [next EXCEPT ![c] = b]
              \/ \E a \in L : /\ next[a] = b /\ taskList' = taskList /\ taskList # Nil
                              /\ next' = [next EXCEPT ![c] = b, ![a] = c]
    BY <2>1, PushIs
  <2> QED
    BY <2>2 DEF L
<1> DEFINE X == Listed'
<1>6. taskList' \in X \cup {Nil} /\ \A d \in X : next'[d] \in X \cup {Nil}
  BY <1>2, InvClosedNext DEF ListClosed
<1>7. Listed \subseteq Containers /\ next \in [Containers -> Pointers] /\ c # Nil /\ Nil \notin Listed
  BY <1>4 DEF Good, TypeOK, Containers, Nil, Listed
<1> HIDE DEF X
<1>8. CASE b = taskList /\ taskList' = c /\ next' = [next EXCEPT ![c] = b]
  <2>1. next'[c] = b /\ \A d \in Listed : next'[d] = next[d]
    BY <1>5, <1>7, <1>8
  <2>2. c \in X
    BY <1>6, <1>7, <1>8
  <2>3. taskList \in X \cup {Nil}
    BY <1>6, <1>8, <2>1, <2>2
  <2>4. \A d \in X \cap Listed : next[d] \in X \cup {Nil}
    BY <1>6, <2>1
  <2>5. Listed \subseteq X
    BY <1>1, <2>3, <2>4, ListedLeast
  <2> QED
    BY <1>5, <2>2, <2>5 DEF X
<1>9. ASSUME NEW a \in Listed, next[a] = b, taskList' = taskList,
             next' = [next EXCEPT ![c] = b, ![a] = c]
      PROVE  Listed \cup {c} \subseteq X
  <2>1. /\ next'[c] = b /\ next'[a] = c
        /\ \A d \in Listed : d # a => next'[d] = next[d]
    BY <1>5, <1>7, <1>9
  <2>2. \A d \in X \cap Listed : next[d] \in X \cup {Nil}
    BY <1>6, <1>7, <1>9, <2>1
  <2>3. Listed \subseteq X
    BY <1>1, <1>6, <1>9, <2>2, ListedLeast
  <2> QED
    BY <1>6, <1>7, <2>1, <2>3
<1> QED
  BY <1>5, <1>8, <1>9 DEF X

\* The shift takes pThisTask off the list and nothing else, if it is the head
\* and what was loaded still follows it.
LEMMA ShiftListed ==
  ASSUME TypeOK, ListInv, StoreShift, taskList = this, loaded = next[this]
  PROVE  Listed \subseteq {this} \cup Listed'
<1>1. PICK S, rank : Good(S, rank)
  BY DEF ListInv
<1>2. ListInv'
  BY StoreShiftStep
<1>3. taskList' = loaded /\ next' = next
  BY DEF StoreShift
<1> DEFINE X == {this} \cup Listed'
<1>4. taskList' \in Listed' \cup {Nil} /\ \A d \in Listed' : next'[d] \in Listed' \cup {Nil}
  BY <1>2, InvClosedNext DEF ListClosed
<1>5. taskList \in X \cup {Nil} /\ \A d \in X \cap Listed : next[d] \in X \cup {Nil}
  BY <1>3, <1>4
<1>6. Listed \subseteq X
  <2> HIDE DEF X
  <2> QED
    BY <1>1, <1>5, ListedLeast
<1> QED
  BY <1>6

\* What no interrupt has hit is as the main loop left it.
HitInv ==
  /\ pc = "loadNext" => hit \/ taskList = this
  /\ pc = "storeShift" => hit \/ (taskList = this /\ loaded = next[this])
  /\ pc \in {"freePrio", "freeNext"} => hit \/ cb[this] = NoTask

LEMMA HitStep ==
  ASSUME TypeOK, ListInv, HitInv, [Next]_vars PROVE HitInv'
<1>1. ASSUME NEW task \in Tasks, scheduler_push_task(task) PROVE HitInv'
  <2>1. /\ pc' = IF pc = "asleep" THEN "check" ELSE pc
        /\ hit' = (hit \/ pc \in {"loadNext", "storeShift", "freePrio", "freeNext"})
    BY <1>1 DEF scheduler_push_task, Wake
  <2> QED
    BY <2>1 DEF HitInv
<1>2. CASE Overflow
  BY <1>2 DEF Overflow, HitInv
<1>3. CASE OtherInterrupt \/ CheckList \/ board_sleep
  <2>1. UNCHANGED <<list, this, loaded, fresh, hit>>
        /\ (pc' = pc \/ pc' \in {"check", "sleep", "asleep", "read"})
    BY <1>3 DEF OtherInterrupt, CheckList, board_sleep, Wake, Goto
  <2> QED
    BY <2>1, Zenon DEF HitInv, list
<1>4. CASE UNCHANGED vars
  BY <1>4, Zenon DEF HitInv, vars
<1>5. CASE ReadHead
  BY <1>5 DEF ReadHead, Goto, HitInv, list
<1>6. CASE LoadNext
  BY <1>6 DEF LoadNext, Goto, HitInv, list
<1>7. CASE StoreShift \/ CallTask
  BY <1>7 DEF StoreShift, CallTask, Goto, HitInv
<1>8. CASE FreeCb
  <2>1. this \in Containers
    BY <1>8 DEF ListInv, InHand, FreeCb, Goto
  <2>2. pc' = "freePrio" /\ this' = this /\ cb' = [cb EXCEPT ![this] = NoTask]
    BY <1>8 DEF FreeCb, Goto
  <2>3. cb'[this'] = NoTask
    BY <2>1, <2>2 DEF TypeOK
  <2> QED
    BY <2>2, <2>3 DEF HitInv
<1>9. CASE FreePrio \/ FreeNext
  BY <1>9 DEF FreePrio, FreeNext, Goto, HitInv
<1> QED
  BY <1>1, <1>2, <1>3, <1>4, <1>5, <1>6, <1>7, <1>8, <1>9 DEF Next, scheduler_start

LEMMA LostStep ==
  ASSUME TypeOK, ListInv, HitInv, [Next]_vars, ~hit PROVE Lost' \subseteq Lost
<1> DEFINE Held == pc \in {"loadNext", "storeShift", "call"}
<1>1. PICK S, rank : Good(S, rank)
  BY DEF ListInv
<1>2. ListInv'
  BY ListStep
<1>3. ASSUME NEW task \in Tasks, scheduler_push_task(task) PROVE Lost' \subseteq Lost
  <2>1. PICK c : fresh' = fresh \cup {c} /\ Listed \cup {c} \subseteq Listed'
    BY <1>3, PushListed
  <2>2. this' = this /\ pc' = IF pc = "asleep" THEN "check" ELSE pc
    BY <1>3 DEF scheduler_push_task, Wake
  <2> QED
    BY <2>1, <2>2 DEF Lost
<1>4. CASE Overflow
  BY <1>4 DEF Overflow, Lost
<1>5. ASSUME taskList' = taskList, next' = next, fresh' \subseteq fresh,
             ~Held \/ (Held' /\ this' = this) \/ this \notin fresh'
      PROVE  Lost' \subseteq Lost
  <2>1. Listed \subseteq Listed'
    BY <1>1, <1>2, <1>5, SameListed
  <2> QED
    BY <1>5, <2>1 DEF Lost
<1>6. CASE OtherInterrupt \/ CheckList \/ board_sleep \/ UNCHANGED vars
  <2>1. /\ UNCHANGED <<taskList, next, fresh, this>>
        /\ pc' = pc \/ ~Held
    BY <1>6 DEF OtherInterrupt, CheckList, board_sleep, Wake, Goto, list, vars
  <2> QED
    BY <1>5, <2>1
<1>7. CASE ReadHead \/ LoadNext \/ CallTask
  <2>1. /\ UNCHANGED <<taskList, next>> /\ fresh' \subseteq fresh
        /\ ~Held \/ (Held' /\ this' = this) \/ this \notin fresh'
    BY <1>7 DEF ReadHead, LoadNext, CallTask, Goto, list
  <2> QED
    BY <1>5, <2>1
<1>8. CASE FreeCb \/ FreePrio
  <2>1. UNCHANGED <<taskList, next, fresh>> /\ ~Held
    BY <1>8 DEF FreeCb, FreePrio, Goto
  <2> QED
    BY <1>5, <2>1
<1>9. CASE StoreShift
  <2>1. /\ pc = "storeShift" /\ pc' = "call" /\ this' = this /\ fresh' = fresh
    BY <1>9 DEF StoreShift, Goto
  <2>2. Listed \subseteq {this} \cup Listed'
    BY <1>9, <2>1, ShiftListed DEF HitInv
  <2> QED
    BY <2>1, <2>2 DEF Lost
<1>10. CASE FreeNext
  <2>1. /\ pc = "freeNext" /\ next' = [next EXCEPT ![this] = Nil]
        /\ UNCHANGED <<taskList, fresh>>
    BY <1>10 DEF FreeNext, Goto
  <2>2. Listed \subseteq S
    BY <1>1, ListedClosed
  <2>3. cb[this] = NoTask
    BY <2>1 DEF HitInv
  <2>4. this \notin Listed
    BY <1>1, <2>2, <2>3 DEF Good
  <2>5. \A c \in Listed : next'[c] = next[c]
    BY <1>1, <2>1, <2>2, <2>4 DEF Good, TypeOK
  <2>6. Listed \subseteq Listed'
    BY <1>1, <1>2, <2>1, <2>5, SameListed
  <2> QED
    BY <2>1, <2>6 DEF Lost
<1> QED
  BY <1>3, <1>4, <1>6, <1>7, <1>8, <1>9, <1>10 DEF Next, scheduler_start

-----------------------------------------------------------------------------
(***************************************************************************)
(* The theorems.                                                           *)
(***************************************************************************)

\* The pointers of scheduler_vars and of its containers, and pThisTask, stay
\* where the C code may follow them, for a pool of any size.
THEOREM TypeCorrect == Spec => []TypeOK
<1>1. Init => TypeOK /\ ListInv
  BY ListInit
<1>2. TypeOK /\ ListInv /\ [Next]_vars => TypeOK' /\ ListInv'
  BY ListStep
<1> QED
  BY <1>1, <1>2, PTL DEF Spec

\* At whatever statement of scheduler_start the interrupts push, the list
\* ends, holds only tasks that were pushed and not run, and does not hold the
\* task that runs: scheduler_push_task's walk terminates.
THEOREM ListCorrect == Spec => []ListSound
<1>1. Init => TypeOK /\ ListInv
  BY ListInit
<1>2. TypeOK /\ ListInv /\ [Next]_vars => TypeOK' /\ ListInv'
  BY ListStep
<1>3. TypeOK /\ ListInv => ListSound
  BY InvSound
<1> QED
  BY <1>1, <1>2, <1>3, PTL DEF Spec

\* scheduler_start never calls NULL and never runs a pushed task twice, for
\* all that it releases the container in three unprotected steps.
THEOREM CallCorrect == Spec => []NoStaleCall
<1>1. Init => TypeOK /\ ListInv
  BY ListInit
<1>2. TypeOK /\ ListInv /\ [Next]_vars => TypeOK' /\ ListInv'
  BY ListStep
<1>3. TypeOK /\ ListInv => NoStaleCall
  BY InvSound
<1> QED
  BY <1>1, <1>2, <1>3, PTL DEF Spec

\* Outside the two unprotected updates of scheduler_start, whatever is pushed
\* and whenever, every pushed task stays on the list, or is the one in hand,
\* until it is run.
THEOREM LossCorrect == Spec => LossNeedsRace
<1> DEFINE Safe == Lost' \subseteq Lost \/ hit
<1>1. Init => TypeOK /\ ListInv /\ HitInv
  BY ListInit DEF Init, HitInv
<1>2. TypeOK /\ ListInv /\ HitInv /\ [Next]_vars => TypeOK' /\ ListInv' /\ HitInv' /\ [Safe]_vars
  BY ListStep, HitStep, LostStep
<1>3. LossNeedsRace <=> [][Safe]_vars
  BY DEF LossNeedsRace
<1> QED
  BY <1>1, <1>2, <1>3, PTL DEF Spec

=============================================================================
