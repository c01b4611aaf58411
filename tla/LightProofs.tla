---------------------------- MODULE LightProofs ----------------------------
(***************************************************************************)
(* Proofs about the flooding application, for any motes and links, pools,  *)
(* burst and missed-burst counters of any even range.                      *)
(*                                                                         *)
(* The light state is right when burst number, missed bursts and state add *)
(* up to an even number.  ParityInv says what they add up to at each step  *)
(* of the task, where one of the three may be in the register.             *)
(*                                                                         *)
(* What the flood does to a mote is right while every number that looks    *)
(* new is new (Timely): FloodInv at the end of the module.                 *)
(***************************************************************************)
EXTENDS Light, FiniteSetTheorems, TLAPS

-----------------------------------------------------------------------------
(***************************************************************************)
(* Counters that wrap.                                                     *)
(***************************************************************************)

\* A counter of even range keeps its parity when it wraps.
LEMMA CountsUp ==
  ASSUME NEW n \in Nat \ {0}, n % 2 = 0, NEW a \in 0 .. n-1
  PROVE  (a + 1) % n \in 0 .. n-1 /\ ((a + 1) % n) % 2 = (a + 1) % 2
<1>1. CASE a + 1 < n
  <2>1. (a + 1) % n = a + 1
    BY <1>1
  <2> QED
    BY <2>1, <1>1
<1>2. CASE a + 1 = n
  <2>1. (a + 1) % n = 0 /\ 0 % 2 = 0
    BY <1>2
  <2> QED
    BY <2>1, <1>2
<1> QED
  BY <1>1, <1>2

LEMMA CountsDown ==
  ASSUME NEW n \in Nat \ {0}, n % 2 = 0, NEW a \in 0 .. n-1
  PROVE  (a - 1) % n \in 0 .. n-1 /\ ((a - 1) % n) % 2 = (a + 1) % 2
<1>1. CASE a = 0
  <2>1. (a - 1) % n = n - 1
    BY <1>1
  <2>2. (n - 1) % 2 = 1
    OBVIOUS
  <2> QED
    BY <2>1, <2>2, <1>1
<1>2. CASE a # 0
  <2>1. (a - 1) % n = a - 1
    BY <1>2
  <2> QED
    BY <2>1, <1>2
<1> QED
  BY <1>1, <1>2

LEMMA ModInt ==
  ASSUME NEW n \in Nat \ {0}, NEW a \in Int PROVE a % n \in 0 .. n-1
OBVIOUS

\* The parity of a sum of three, and a number that moved on by one.
Sum(a, b, l) == (a + b + l) % 2

Flipped(d, a) == d % 2 = (a + 1) % 2

\* Sums of three of which one or two change their parity.
LEMMA FlipOne ==
  ASSUME NEW a \in Nat, NEW b \in Nat, NEW l \in Nat, NEW e \in Nat,
         Sum(a, b, l) = 0, Flipped(e, b)
  PROVE  Sum(a, e, l) = 1
BY DEF Sum, Flipped

LEMMA FlipTwo ==
  ASSUME NEW a \in Nat, NEW b \in Nat, NEW l \in Nat, NEW d \in Nat, NEW e \in Nat,
         Sum(a, b, l) = 0, Flipped(d, a), Flipped(e, b)
  PROVE  Sum(d, e, l) = 0
BY DEF Sum, Flipped

LEMMA ToggleOne ==
  ASSUME NEW a \in Nat, NEW b \in Nat, NEW l \in {0, 1}, Sum(a, b, l) = 1
  PROVE  Sum(a, b, 1 - l) = 0
BY DEF Sum

LEMMA ToggleTwo ==
  ASSUME NEW a \in Nat, NEW b \in Nat, NEW l \in {0, 1}, NEW d \in Nat,
         Sum(a, b, l) = 0, Flipped(d, a)
  PROVE  Sum(d, b, 1 - l) = 0
<1>1. l \in Nat /\ 1 - l \in Nat /\ (1 - l) % 2 = (l + 1) % 2
  OBVIOUS
<1> QED
  BY <1>1 DEF Sum, Flipped

LEMMA ToggleBack ==
  ASSUME NEW a \in Nat, NEW b \in Nat, NEW l \in {0, 1}
  PROVE  Sum(a, b - 1, 1 - l) = Sum(a, b, l)
BY DEF Sum

-----------------------------------------------------------------------------
(***************************************************************************)
(* The types.                                                              *)
(***************************************************************************)

USE LightAssumption

Pcs == {"idle", "count", "storeCount", "uncount", "storeUncount",
        "update", "toggle", "commit", "relay"}

\* light_vars and the ghosts.
VarTypes ==
  /\ burstId \in [Motes -> 0 .. BURSTIDS - 1]
  /\ pktIDMap \in [Motes -> SUBSET (0 .. 3)]
  /\ lightState \in [Motes -> {0, 1}]
  /\ numMissedBursts \in [Motes -> 0 .. MISSEDS - 1]
  /\ seen \in [Motes -> Int]
  /\ torn \in [Motes -> BOOLEAN] /\ misled \in [Motes -> BOOLEAN]

\* The task: what it holds, and what is in the register between the halves of
\* an update.  The sensor has none.
TaskTypes ==
  /\ pc \in [Motes -> Pcs]
  /\ pkt \in [Motes -> Frames \cup {NoFrame}]
  /\ reg \in [Motes -> Nat]
  /\ \A m \in Motes :
       /\ pc[m] # "idle" => pkt[m] \in Frames
       /\ pc[m] \in {"storeCount", "storeUncount"} => reg[m] \in 0 .. MISSEDS - 1
       /\ pc[m] = "commit" => reg[m] \in {0, 1}
  /\ pc[Sensor] = "idle"

\* The packets of a mote.
RadioTypes ==
  /\ queue \in [Motes -> SUBSET Frames]
  /\ rx \in [Motes -> SUBSET Frames]
  /\ rx[Sensor] = {}
  /\ \A m \in Motes : /\ IsFiniteSet(queue[m]) /\ IsFiniteSet(rx[m])
                      /\ FreeBuffers(m) >= 0

TypeInv == VarTypes /\ TaskTypes /\ RadioTypes

LEMMA TypeInit == Init => TypeInv
<1> SUFFICES ASSUME Init PROVE TypeInv
  OBVIOUS
<1>1. VarTypes
  BY DEF Init, VarTypes
<1>2. TaskTypes
  BY DEF Init, TaskTypes, Pcs
<1>3. RadioTypes
  BY FS_EmptySet DEF Init, RadioTypes, FreeBuffers
<1> QED
  BY <1>1, <1>2, <1>3 DEF TypeInv

\* The pool of a mote depends on its packets and on its task being idle.
LEMMA PoolKept ==
  ASSUME RadioTypes, UNCHANGED <<queue, rx>>,
         \A m \in Motes : pc'[m] = "idle" <=> pc[m] = "idle"
  PROVE  RadioTypes'
BY Zenon DEF RadioTypes, FreeBuffers

LEMMA LightInfoType ==
  ASSUME VarTypes, NEW m \in Motes, NEW kind \in {"DATA", "BEACON"}, NEW p \in 0 .. 7
  PROVE  LightInfo(m, kind, p) \in Frames
<1>1. (seen[m] - burstId[m]) % BURSTIDS \in Int
  <2> DEFINE late == seen[m] - burstId[m]
  <2>1. late \in Int
    BY DEF VarTypes
  <2>2. late % BURSTIDS \in 0 .. BURSTIDS - 1
    <3> HIDE DEF late
    <3> QED
      BY <2>1, ModInt
  <2> QED
    BY <2>2
<1>2. seen[m] - ((seen[m] - burstId[m]) % BURSTIDS) \in Int
  BY <1>1 DEF VarTypes
<1> QED
  BY <1>2 DEF LightInfo, Frames, VarTypes

LEMMA PktIdType == \A f \in Frames : PktId(f) \in 0 .. 3
  BY DEF Frames, PktId

\* Counting on from a number of the type.
LEMMA CounterTypes ==
  ASSUME VarTypes, NEW m \in Motes
  PROVE  /\ (burstId[m] + 1) % BURSTIDS \in 0 .. BURSTIDS - 1
         /\ (numMissedBursts[m] + 1) % MISSEDS \in 0 .. MISSEDS - 1
         /\ (numMissedBursts[m] - 1) % MISSEDS \in 0 .. MISSEDS - 1
  BY CountsUp, CountsDown DEF VarTypes

-----------------------------------------------------------------------------
(***************************************************************************)
(* The packets.                                                            *)
(***************************************************************************)

\* The sensor's burst takes no more buffers than there are.
LEMMA BurstFits ==
  ASSUME NEW n \in Nat, NEW free \in Nat
  PROVE  LET P == {i \in 0 .. n-1 : i < free} IN IsFiniteSet(P) /\ Cardinality(P) <= free
<1> DEFINE P == {i \in 0 .. n-1 : i < free}
<1>1. P \subseteq 0 .. free - 1
  OBVIOUS
<1>2. IsFiniteSet(0 .. free - 1) /\ Cardinality(0 .. free - 1) = free
  <2>1. 0 \in Int /\ free - 1 \in Int
    OBVIOUS
  <2>2. /\ IsFiniteSet(0 .. free - 1)
        /\ Cardinality(0 .. free - 1) = IF 0 > free - 1 THEN 0 ELSE (free - 1) - 0 + 1
    BY <2>1, FS_Interval, Zenon
  <2> QED
    BY <2>2
<1> QED
  BY <1>1, <1>2, FS_Subset

\* A set with a few more elements.
LEMMA UnionFits ==
  ASSUME NEW S, IsFiniteSet(S), NEW T, IsFiniteSet(T)
  PROVE  IsFiniteSet(S \cup T) /\ Cardinality(S \cup T) <= Cardinality(S) + Cardinality(T)
<1>1. /\ IsFiniteSet(S \cup T) /\ IsFiniteSet(S \cap T)
      /\ Cardinality(S \cup T) = Cardinality(S) + Cardinality(T) - Cardinality(S \cap T)
  BY FS_Union, FS_Intersection
<1>2. Cardinality(S \cap T) \in Nat /\ Cardinality(S) \in Nat /\ Cardinality(T) \in Nat
  BY <1>1, FS_CardinalityType
<1> QED
  BY <1>1, <1>2

LEMMA AddFits ==
  ASSUME NEW S, IsFiniteSet(S), NEW x
  PROVE  IsFiniteSet(S \cup {x}) /\ Cardinality(S \cup {x}) <= Cardinality(S) + 1
<1>1. IsFiniteSet({x}) /\ Cardinality({x}) = 1
  BY FS_Singleton
<1> QED
  BY <1>1, UnionFits

LEMMA RemoveFits ==
  ASSUME NEW S, IsFiniteSet(S), NEW x
  PROVE  /\ IsFiniteSet(S \ {x}) /\ Cardinality(S \ {x}) <= Cardinality(S)
         /\ x \in S => Cardinality(S \ {x}) = Cardinality(S) - 1
<1>1. Cardinality(S) \in Nat
  BY FS_CardinalityType
<1>2. /\ IsFiniteSet(S \ {x})
      /\ Cardinality(S \ {x}) = IF x \in S THEN Cardinality(S) - 1 ELSE Cardinality(S)
  BY FS_RemoveElement, Zenon
<1> QED
  BY <1>1, <1>2

\* What each mote's pool is after a step, from the packets added.
PoolOf(m) == Cardinality(queue[m]) + Cardinality(rx[m]) + (IF pc[m] = "idle" THEN 0 ELSE 1)

LEMMA PoolIs ==
  ASSUME RadioTypes, NEW m \in Motes
  PROVE  /\ Cardinality(queue[m]) \in Nat /\ Cardinality(rx[m]) \in Nat
         /\ PoolOf(m) \in Nat /\ PoolOf(m) <= QUEUELENGTH
         /\ FreeBuffers(m) = QUEUELENGTH - PoolOf(m)
<1>1. Cardinality(queue[m]) \in Nat /\ Cardinality(rx[m]) \in Nat
  BY FS_CardinalityType DEF RadioTypes
<1>2. FreeBuffers(m) >= 0
  BY DEF RadioTypes
<1> QED
  BY <1>1, <1>2 DEF PoolOf, FreeBuffers

\* What is enough for the packets of a step to have their types.
LEMMA RadioStep ==
  ASSUME queue' \in [Motes -> SUBSET Frames], rx' \in [Motes -> SUBSET Frames],
         rx'[Sensor] = {},
         \A m \in Motes : /\ IsFiniteSet(queue'[m]) /\ IsFiniteSet(rx'[m])
                          /\ PoolOf(m)' <= QUEUELENGTH
  PROVE  RadioTypes'
<1>1. ASSUME NEW m \in Motes PROVE FreeBuffers(m)' >= 0
  <2>1. Cardinality(queue'[m]) \in Nat /\ Cardinality(rx'[m]) \in Nat
    BY FS_CardinalityType
  <2> QED
    BY <2>1 DEF FreeBuffers, PoolOf
<1> QED
  BY <1>1 DEF RadioTypes

LEMMA SensorStep ==
  ASSUME TypeInv, light_trigger_SENSOR PROVE TypeInv'
<1> DEFINE P == {i \in 0 .. LIGHT_BURSTSIZE - 1 : i < FreeBuffers(Sensor)}
           n == seen[Sensor] + 1
           id == (burstId[Sensor] + 1) % BURSTIDS
           state == 1 - lightState[Sensor]
           Packet(p) == [kind |-> "DATA", burstId |-> id, pktId |-> p, state |-> state,
                         number |-> n]
           burst == {Packet(p) : p \in P}
<1>1. VarTypes /\ TaskTypes /\ RadioTypes
  BY DEF TypeInv
<1>2. /\ burstId' = Set(burstId, Sensor, id)
      /\ lightState' = Set(lightState, Sensor, state)
      /\ queue' = Set(queue, Sensor, queue[Sensor] \cup burst)
      /\ seen' = Set(seen, Sensor, n)
      /\ UNCHANGED <<pktIDMap, numMissedBursts, rx, taskVars, relayed, miscounted, torn, misled>>
  BY DEF light_trigger_SENSOR
<1>3. n \in Int /\ id \in 0 .. BURSTIDS - 1 /\ state \in {0, 1}
  BY <1>1, CounterTypes DEF VarTypes
<1>4. VarTypes'
  <2> HIDE DEF n, id, state
  <2> QED
    BY <1>1, <1>2, <1>3 DEF VarTypes, Set
<1>5. TaskTypes'
  BY <1>1, <1>2 DEF TaskTypes, taskVars
<1>6. burst \in SUBSET Frames
  <2>1. \A p \in P : p \in 0 .. 7
    OBVIOUS
  <2> HIDE DEF n, id, state, P
  <2> QED
    BY <1>3, <2>1 DEF Frames
<1>7. IsFiniteSet(burst) /\ Cardinality(burst) <= FreeBuffers(Sensor)
  <2>1. FreeBuffers(Sensor) \in Nat
    BY <1>1, PoolIs
  <2>2. IsFiniteSet(P) /\ Cardinality(P) <= FreeBuffers(Sensor)
    BY <2>1, BurstFits
  <2> DEFINE f == [p \in P |-> Packet(p)]
  <2>3. f \in Surjection(P, burst)
    <3> HIDE DEF Packet, P
    <3> QED
      BY DEF Surjection
  <2>4. IsFiniteSet(burst) /\ Cardinality(burst) <= Cardinality(P)
    <3> HIDE DEF f, burst, P
    <3> QED
      BY <2>2, <2>3, FS_Surjection
  <2>5. Cardinality(burst) \in Nat /\ Cardinality(P) \in Nat
    BY <2>2, <2>4, FS_CardinalityType
  <2> QED
    BY <2>1, <2>2, <2>4, <2>5
<1>8. RadioTypes'
  <2> HIDE DEF burst
  <2>1. queue' \in [Motes -> SUBSET Frames]
    BY <1>1, <1>2, <1>6 DEF RadioTypes, Set
  <2>2. rx' \in [Motes -> SUBSET Frames] /\ rx'[Sensor] = {}
    BY <1>1, <1>2 DEF RadioTypes
  <2>3. ASSUME NEW m \in Motes
        PROVE  /\ IsFiniteSet(queue'[m]) /\ IsFiniteSet(rx'[m])
               /\ PoolOf(m)' <= QUEUELENGTH
    <3>1. CASE m # Sensor
      <4>1. queue'[m] = queue[m] /\ rx' = rx /\ pc' = pc
        BY <1>1, <1>2, <3>1 DEF RadioTypes, Set, taskVars
      <4> QED
        BY <1>1, <4>1, PoolIs DEF RadioTypes, PoolOf
    <3>2. CASE m = Sensor
      <4>1. queue'[m] = queue[m] \cup burst /\ rx' = rx /\ pc' = pc
        BY <1>1, <1>2, <3>2 DEF RadioTypes, Set, taskVars
      <4>2. /\ IsFiniteSet(queue'[m])
            /\ Cardinality(queue'[m]) <= Cardinality(queue[m]) + Cardinality(burst)
        <5>1. IsFiniteSet(queue[m]) /\ IsFiniteSet(burst)
          BY <1>1, <1>7 DEF RadioTypes
        <5> QED
          BY <4>1, <5>1, UnionFits, Zenon
      <4>3. /\ Cardinality(queue'[m]) \in Nat /\ Cardinality(queue[m]) \in Nat
            /\ Cardinality(rx[m]) \in Nat /\ Cardinality(burst) \in Nat
        BY <1>1, <1>7, <4>2, FS_CardinalityType DEF RadioTypes
      <4>4. PoolOf(m)' = Cardinality(queue'[m]) + Cardinality(rx[m])
                           + (IF pc[m] = "idle" THEN 0 ELSE 1)
        BY <4>1 DEF PoolOf
      <4>5. FreeBuffers(m) = QUEUELENGTH - PoolOf(m)
        BY <1>1, PoolIs
      <4>6. PoolOf(m)' <= QUEUELENGTH
        BY <1>7, <3>2, <4>2, <4>3, <4>4, <4>5 DEF PoolOf
      <4> QED
        BY <1>1, <4>1, <4>2, <4>6 DEF RadioTypes
    <3> QED
      BY <3>1, <3>2
  <2> QED
    BY <2>1, <2>2, <2>3, RadioStep
<1> QED
  BY <1>4, <1>5, <1>8 DEF TypeInv

LEMMA CatchUpStep ==
  ASSUME TypeInv, NEW m \in Motes, light_trigger_NOT_SENSOR(m) PROVE TypeInv'
<1>1. VarTypes /\ TaskTypes /\ RadioTypes
  BY DEF TypeInv
<1>2. /\ lightState' = Set(lightState, m, 1 - lightState[m])
      /\ numMissedBursts' = Set(numMissedBursts, m, numMissedBursts[m] - 1)
      /\ torn' = Set(torn, m, torn[m] \/ pc[m] \in {"storeCount", "storeUncount", "commit"})
      /\ UNCHANGED <<burstId, pktIDMap, radioVars, taskVars, seen, relayed, misled>>
      /\ numMissedBursts[m] > 0
  BY DEF light_trigger_NOT_SENSOR
<1>3. torn' \in [Motes -> BOOLEAN]
  BY <1>1, <1>2, Zenon DEF VarTypes, Set
<1>4. lightState' \in [Motes -> {0, 1}] /\ numMissedBursts' \in [Motes -> 0 .. MISSEDS - 1]
  BY <1>1, <1>2 DEF VarTypes, Set
<1>5. VarTypes'
  BY <1>1, <1>2, <1>3, <1>4 DEF VarTypes
<1>6. TaskTypes'
  BY <1>1, <1>2 DEF TaskTypes, taskVars
<1>7. RadioTypes'
  BY <1>1, <1>2, PoolKept DEF radioVars, taskVars
<1> QED
  BY <1>5, <1>6, <1>7 DEF TypeInv

LEMMA SendEBStep ==
  ASSUME TypeInv, NEW m \in Motes, sixtop_sendEB(m) PROVE TypeInv'
<1> DEFINE eb == LightInfo(m, "BEACON", 0)
<1>1. VarTypes /\ TaskTypes /\ RadioTypes
  BY DEF TypeInv
<1>2. /\ FreeBuffers(m) > 0 /\ queue' = Set(queue, m, queue[m] \cup {eb})
      /\ UNCHANGED <<lightVars, rx, taskVars, ghosts>>
  BY DEF sixtop_sendEB
<1>3. eb \in Frames
  BY <1>1, LightInfoType
<1>4. VarTypes' /\ TaskTypes'
  BY <1>1, <1>2 DEF VarTypes, TaskTypes, lightVars, taskVars, ghosts
<1> HIDE DEF eb
<1>5. queue' \in [Motes -> SUBSET Frames] /\ rx' \in [Motes -> SUBSET Frames]
      /\ rx'[Sensor] = {}
  BY <1>1, <1>2, <1>3 DEF RadioTypes, Set
<1>6. ASSUME NEW n \in Motes
      PROVE  /\ IsFiniteSet(queue'[n]) /\ IsFiniteSet(rx'[n])
             /\ PoolOf(n)' <= QUEUELENGTH
  <2>1. CASE n # m
    <3>1. queue'[n] = queue[n] /\ rx' = rx /\ pc' = pc
      BY <1>1, <1>2, <2>1 DEF RadioTypes, Set, taskVars
    <3> QED
      BY <1>1, <3>1, PoolIs DEF RadioTypes, PoolOf
  <2>2. CASE n = m
    <3>1. queue'[n] = queue[n] \cup {eb} /\ rx' = rx /\ pc' = pc
      BY <1>1, <1>2, <2>2 DEF RadioTypes, Set, taskVars
    <3>2. IsFiniteSet(queue[n]) /\ IsFiniteSet(rx[n])
      BY <1>1 DEF RadioTypes
    <3>3. IsFiniteSet(queue'[n]) /\ Cardinality(queue'[n]) <= Cardinality(queue[n]) + 1
      <4>1. /\ IsFiniteSet(queue[n] \cup {eb})
            /\ Cardinality(queue[n] \cup {eb}) <= Cardinality(queue[n]) + 1
        BY <3>2, AddFits
      <4> QED
        BY <3>1, <4>1
    <3>4. /\ Cardinality(queue'[n]) \in Nat /\ Cardinality(queue[n]) \in Nat
          /\ Cardinality(rx[n]) \in Nat
      BY <3>2, <3>3, FS_CardinalityType
    <3>5. FreeBuffers(n) = QUEUELENGTH - PoolOf(n)
      BY <1>1, PoolIs
    <3>6. PoolOf(n)' <= QUEUELENGTH
      BY <1>2, <2>2, <3>1, <3>3, <3>4, <3>5 DEF PoolOf
    <3> QED
      BY <3>1, <3>2, <3>3, <3>6
  <2> QED
    BY <2>1, <2>2
<1>7. RadioTypes'
  BY <1>5, <1>6, RadioStep
<1> QED
  BY <1>4, <1>7 DEF TypeInv

LEMMA TransmitStep ==
  ASSUME TypeInv, NEW m \in Motes, Transmit(m) PROVE TypeInv'
<1>1. VarTypes /\ TaskTypes /\ RadioTypes
  BY DEF TypeInv
<1>2. PICK f \in queue[m], R \in SUBSET {r \in Motes \ {Sensor} : <<m, r>> \in Links} :
        /\ \A r \in R : FreeBuffers(r) > 0
        /\ queue' = Set(queue, m, queue[m] \ {f})
        /\ rx' = [r \in Motes |-> IF r \in R THEN rx[r] \cup {f} ELSE rx[r]]
        /\ UNCHANGED <<lightVars, taskVars, ghosts>>
  BY DEF Transmit
<1>3. VarTypes' /\ TaskTypes'
  BY <1>1, <1>2 DEF VarTypes, TaskTypes, lightVars, taskVars, ghosts
<1>4. queue' \in [Motes -> SUBSET Frames] /\ rx' \in [Motes -> SUBSET Frames]
      /\ rx'[Sensor] = {}
  <2>1. f \in Frames /\ Sensor \notin R
    BY <1>1 DEF RadioTypes
  <2> QED
    BY <1>1, <1>2, <2>1 DEF RadioTypes, Set
<1>5. ASSUME NEW n \in Motes
      PROVE  /\ IsFiniteSet(queue'[n]) /\ IsFiniteSet(rx'[n])
             /\ PoolOf(n)' <= QUEUELENGTH
  <2>1. IsFiniteSet(queue[n]) /\ IsFiniteSet(rx[n])
    BY <1>1 DEF RadioTypes
  <2>2. IsFiniteSet(queue'[n]) /\ Cardinality(queue'[n]) <= Cardinality(queue[n])
    <3>1. CASE n = m
      <4>1. queue'[n] = queue[n] \ {f}
        BY <1>1, <1>2, <3>1 DEF RadioTypes, Set
      <4>2. /\ IsFiniteSet(queue[n] \ {f})
            /\ Cardinality(queue[n] \ {f}) <= Cardinality(queue[n])
        BY <2>1, RemoveFits
      <4> QED
        BY <4>1, <4>2
    <3>2. CASE n # m
      <4>1. queue'[n] = queue[n] /\ Cardinality(queue[n]) \in Nat
        BY <1>1, <1>2, <2>1, <3>2, FS_CardinalityType DEF RadioTypes, Set
      <4> QED
        BY <2>1, <4>1
    <3> QED
      BY <3>1, <3>2
  <2>3. /\ IsFiniteSet(rx'[n])
        /\ Cardinality(rx'[n]) <= Cardinality(rx[n]) + (IF n \in R THEN 1 ELSE 0)
    <3>1. CASE n \in R
      <4>1. rx'[n] = rx[n] \cup {f}
        BY <1>2, <3>1
      <4>2. /\ IsFiniteSet(rx[n] \cup {f})
            /\ Cardinality(rx[n] \cup {f}) <= Cardinality(rx[n]) + 1
        BY <2>1, AddFits
      <4> QED
        BY <3>1, <4>1, <4>2
    <3>2. CASE n \notin R
      <4>1. rx'[n] = rx[n] /\ Cardinality(rx[n]) \in Nat
        BY <1>2, <2>1, <3>2, FS_CardinalityType
      <4> QED
        BY <2>1, <3>2, <4>1
    <3> QED
      BY <3>1, <3>2
  <2>4. /\ Cardinality(queue'[n]) \in Nat /\ Cardinality(queue[n]) \in Nat
        /\ Cardinality(rx'[n]) \in Nat /\ Cardinality(rx[n]) \in Nat
    BY <2>1, <2>2, <2>3, FS_CardinalityType
  <2>5. /\ FreeBuffers(n) = QUEUELENGTH - PoolOf(n) /\ PoolOf(n) <= QUEUELENGTH
        /\ n \in R => FreeBuffers(n) > 0
    BY <1>1, <1>2, PoolIs
  <2>6. pc' = pc
    BY <1>2 DEF taskVars
  <2>7. PoolOf(n)' <= QUEUELENGTH
    BY <2>2, <2>3, <2>4, <2>5, <2>6 DEF PoolOf
  <2> QED
    BY <2>2, <2>3, <2>7
<1>6. RadioTypes'
  BY <1>4, <1>5, RadioStep
<1> QED
  BY <1>3, <1>6 DEF TypeInv

-----------------------------------------------------------------------------
(***************************************************************************)
(* The task.                                                               *)
(***************************************************************************)

\* A received packet is dropped, or becomes the packet of the task.
LEMMA ReceiveStep ==
  ASSUME TypeInv, NEW m \in Motes, Receive(m) PROVE TypeInv'
<1>1. VarTypes /\ TaskTypes /\ RadioTypes
  BY DEF TypeInv
<1>2. PICK f \in rx[m] :
        /\ pc[m] = "idle" /\ rx' = Set(rx, m, rx[m] \ {f})
        /\ \/ UNCHANGED <<pc, pkt>>
           \/ /\ pc' = Set(pc, m, "count") \/ pc' = Set(pc, m, "relay")
              /\ pkt' = Set(pkt, m, f)
        /\ \/ pktIDMap' = pktIDMap
           \/ \E map \in {{}, pktIDMap[m]} :
                pktIDMap' = Set(pktIDMap, m, map) \/
                pktIDMap' = Set(pktIDMap, m, map \cup {PktId(f)})
        /\ seen' = seen \/ seen' = Set(seen, m, f.number)
        /\ UNCHANGED <<burstId, lightState, numMissedBursts, queue, reg,
                       relayed, miscounted, torn, misled>>
  <2>1. PICK f \in rx[m] :
        LET isNew == IsNew(m, f)
            map   == MapFor(m, f)
            data  == f.kind = "DATA"
        IN /\ rx' = Set(rx, m, rx[m] \ {f})
           /\ \/ /\ Ahead(m, f) > WINDOW
                 /\ UNCHANGED <<pktIDMap, seen, pc, pkt>>
              \/ /\ Ahead(m, f) <= WINDOW
                 /\ data /\ PktId(f) \in map
                 /\ pktIDMap' = Set(pktIDMap, m, map)
                 /\ UNCHANGED <<seen, pc, pkt>>
              \/ /\ Ahead(m, f) <= WINDOW
                 /\ ~data \/ PktId(f) \notin map
                 /\ pktIDMap' = Set(pktIDMap, m,
                                    IF data THEN map \cup {PktId(f)} ELSE map)
                 /\ seen' = IF isNew THEN Set(seen, m, f.number) ELSE seen
                 /\ IF isNew THEN /\ pc' = Set(pc, m, "count")
                                  /\ pkt' = Set(pkt, m, f)
                    ELSE IF data /\ m # Sink THEN /\ pc' = Set(pc, m, "relay")
                                                  /\ pkt' = Set(pkt, m, f)
                    ELSE UNCHANGED <<pc, pkt>>
    BY DEF Receive
  <2>2. /\ pc[m] = "idle"
        /\ UNCHANGED <<burstId, lightState, numMissedBursts, queue, reg,
                       relayed, miscounted, torn, misled>>
    BY DEF Receive
  <2>3. MapFor(m, f) \in {{}, pktIDMap[m]}
    BY DEF MapFor
  <2>4. WITNESS f \in rx[m]
  <2>5. \/ UNCHANGED <<pc, pkt>>
        \/ /\ pc' = Set(pc, m, "count") \/ pc' = Set(pc, m, "relay")
           /\ pkt' = Set(pkt, m, f)
    BY <2>1, Zenon
  <2>6. \/ pktIDMap' = pktIDMap
        \/ \E map \in {{}, pktIDMap[m]} :
             pktIDMap' = Set(pktIDMap, m, map) \/
             pktIDMap' = Set(pktIDMap, m, map \cup {PktId(f)})
    BY <2>1, <2>3, Zenon
  <2>7. seen' = seen \/ seen' = Set(seen, m, f.number)
    BY <2>1, Zenon
  <2> QED
    BY <2>1, <2>2, <2>5, <2>6, <2>7, Zenon
<1>3. f \in Frames /\ m # Sensor /\ f.number \in Int
  BY <1>1 DEF RadioTypes, Frames
<1>4. VarTypes'
  <2>1. pktIDMap' \in [Motes -> SUBSET (0 .. 3)]
    BY <1>1, <1>2, <1>3, PktIdType DEF VarTypes, Set
  <2>2. seen' \in [Motes -> Int]
    BY <1>1, <1>2, <1>3 DEF VarTypes, Set
  <2> QED
    BY <1>1, <1>2, <2>1, <2>2 DEF VarTypes
<1>5. TaskTypes'
  <2>1. CASE UNCHANGED <<pc, pkt>>
    BY <1>1, <1>2, <2>1 DEF TaskTypes
  <2>2. CASE /\ pc' = Set(pc, m, "count") \/ pc' = Set(pc, m, "relay")
             /\ pkt' = Set(pkt, m, f)
    BY <1>1, <1>2, <1>3, <2>2 DEF TaskTypes, Set, Pcs
  <2> QED
    BY <1>2, <2>1, <2>2
<1>6. queue' \in [Motes -> SUBSET Frames] /\ rx' \in [Motes -> SUBSET Frames]
      /\ rx'[Sensor] = {}
  BY <1>1, <1>2, <1>3 DEF RadioTypes, Set
<1>7. ASSUME NEW n \in Motes
      PROVE  /\ IsFiniteSet(queue'[n]) /\ IsFiniteSet(rx'[n])
             /\ PoolOf(n)' <= QUEUELENGTH
  <2>1. IsFiniteSet(queue[n]) /\ IsFiniteSet(rx[n]) /\ queue' = queue
    BY <1>1, <1>2 DEF RadioTypes
  <2>2. CASE n # m
    <3>1. rx'[n] = rx[n] /\ pc'[n] = pc[n]
      BY <1>1, <1>2, <2>2 DEF RadioTypes, TaskTypes, Set
    <3> QED
      BY <1>1, <2>1, <3>1, PoolIs DEF PoolOf
  <2>3. CASE n = m
    <3>1. rx'[n] = rx[n] \ {f} /\ f \in rx[n] /\ pc[n] = "idle"
      BY <1>1, <1>2, <2>3 DEF RadioTypes, Set
    <3>2. IsFiniteSet(rx'[n]) /\ Cardinality(rx'[n]) = Cardinality(rx[n]) - 1
      <4>1. /\ IsFiniteSet(rx[n] \ {f})
            /\ Cardinality(rx[n] \ {f}) = Cardinality(rx[n]) - 1
        BY <2>1, <3>1, RemoveFits
      <4> QED
        BY <3>1, <4>1
    <3>3. /\ Cardinality(queue[n]) \in Nat /\ Cardinality(rx'[n]) \in Nat
          /\ Cardinality(rx[n]) \in Nat
      BY <2>1, <3>2, FS_CardinalityType
    <3>4. PoolOf(n) <= QUEUELENGTH
      BY <1>1, PoolIs
    <3>5. PoolOf(n)' <= QUEUELENGTH
      BY <2>1, <3>1, <3>2, <3>3, <3>4 DEF PoolOf
    <3> QED
      BY <2>1, <3>2, <3>5
  <2> QED
    BY <2>2, <2>3
<1>8. RadioTypes'
  BY <1>6, <1>7, RadioStep
<1> QED
  BY <1>4, <1>5, <1>8 DEF TypeInv

\* The steps of a task that counts and updates: the packets stay.
LEMMA UpdateSteps ==
  ASSUME TypeInv, NEW m \in Motes,
         \/ Count(m) \/ StoreCount(m) \/ Uncount(m) \/ StoreUncount(m)
         \/ Update(m) \/ Toggle(m)
  PROVE  TypeInv'
<1>1. VarTypes /\ TaskTypes /\ RadioTypes
  BY DEF TypeInv
<1>2. m # Sensor /\ pc[m] # "idle" /\ UNCHANGED <<queue, rx, pkt, seen, torn, pktIDMap, lightState>>
  BY <1>1 DEF TaskTypes, Count, StoreCount, Uncount, StoreUncount, Update, Toggle, Goto,
              radioVars, lightVars, ghosts
<1>3. PICK to \in Pcs \ {"idle"} : pc' = Set(pc, m, to)
  BY DEF Count, StoreCount, Uncount, StoreUncount, Update, Toggle, Goto, Pcs
<1>4. \A n \in Motes : pc'[n] = IF n = m THEN to ELSE pc[n]
  BY <1>1, <1>3 DEF TaskTypes, Set
<1>5. RadioTypes'
  BY <1>1, <1>2, <1>4, PoolKept
<1>6. VarTypes' /\ reg' \in [Motes -> Nat]
      /\ (to \in {"storeCount", "storeUncount"} => reg'[m] \in 0 .. MISSEDS - 1)
      /\ (to = "commit" => reg'[m] \in {0, 1})
      /\ \A n \in Motes \ {m} : reg'[n] = reg[n]
  <2>1. CASE Count(m)
    BY <1>1, <1>2, <1>4, <2>1, CounterTypes DEF VarTypes, TaskTypes, Count, Goto, Set, ghosts
  <2>2. CASE StoreCount(m)
    BY <1>1, <1>2, <1>4, <2>2 DEF VarTypes, TaskTypes, StoreCount, Goto, Set, ghosts
  <2>3. CASE Uncount(m)
    BY <1>1, <1>2, <1>4, <2>3, CounterTypes
       DEF VarTypes, TaskTypes, Uncount, Goto, Set, ghosts, lightVars
  <2>4. CASE StoreUncount(m)
    BY <1>1, <1>2, <1>4, <2>4 DEF VarTypes, TaskTypes, StoreUncount, Goto, Set, ghosts
  <2>5. CASE Update(m)
    <3>1. pkt[m].state \in {0, 1}
      BY <1>1, <1>2 DEF TaskTypes, Frames
    <3>2. misled' \in [Motes -> BOOLEAN]
      BY <1>1, <2>5, Zenon DEF Update, VarTypes, Set, UpToDate
    <3>3. UNCHANGED <<burstId, numMissedBursts>>
      BY <2>5 DEF Update, lightVars
    <3>4. \/ reg' = reg /\ to = "toggle"
          \/ reg' = Set(reg, m, pkt[m].state) /\ to = "commit"
      <4>1. \/ pc' = Set(pc, m, "commit") /\ reg' = Set(reg, m, pkt[m].state)
            \/ pc' = Set(pc, m, "toggle") /\ reg' = reg
        BY <2>5 DEF Update
      <4> QED
        BY <1>1, <1>4, <4>1 DEF TaskTypes, Set
    <3>5. VarTypes'
      BY <1>1, <1>2, <3>2, <3>3 DEF VarTypes
    <3> QED
      BY <1>1, <3>1, <3>4, <3>5 DEF TaskTypes, Set
  <2>6. CASE Toggle(m)
    BY <1>1, <1>2, <1>4, <2>6 DEF VarTypes, TaskTypes, Toggle, Goto, Set, ghosts, lightVars
  <2> QED
    BY <2>1, <2>2, <2>3, <2>4, <2>5, <2>6
<1>7. TaskTypes'
  <2>1. pc' \in [Motes -> Pcs] /\ pkt' \in [Motes -> Frames \cup {NoFrame}]
    BY <1>1, <1>2, <1>3 DEF TaskTypes, Set
  <2>2. pc'[Sensor] = "idle"
    BY <1>1, <1>2, <1>4 DEF TaskTypes
  <2>3. ASSUME NEW n \in Motes
        PROVE  /\ pc'[n] # "idle" => pkt'[n] \in Frames
               /\ pc'[n] \in {"storeCount", "storeUncount"} => reg'[n] \in 0 .. MISSEDS - 1
               /\ pc'[n] = "commit" => reg'[n] \in {0, 1}
    BY <1>1, <1>2, <1>4, <1>6 DEF TaskTypes
  <2> QED
    BY <1>6, <2>1, <2>2, <2>3 DEF TaskTypes
<1> QED
  BY <1>5, <1>6, <1>7 DEF TypeInv

\* The end of the task frees its packet.
LEMMA IdleTypes ==
  ASSUME TaskTypes, NEW m \in Motes, Idle(m),
         reg' = reg \/ reg' = Set(reg, m, 0)
  PROVE  TaskTypes' /\ \A n \in Motes : pc'[n] = IF n = m THEN "idle" ELSE pc[n]
<1>1. \A n \in Motes : /\ pc'[n] = IF n = m THEN "idle" ELSE pc[n]
                       /\ pkt'[n] = IF n = m THEN NoFrame ELSE pkt[n]
                       /\ n # m => reg'[n] = reg[n]
  BY DEF TaskTypes, Idle, Set
<1>2. /\ pc' \in [Motes -> Pcs] /\ pkt' \in [Motes -> Frames \cup {NoFrame}]
      /\ reg' \in [Motes -> Nat]
  BY DEF TaskTypes, Idle, Set, Pcs
<1> QED
  BY <1>1, <1>2 DEF TaskTypes

LEMMA CommitStep ==
  ASSUME TypeInv, NEW m \in Motes, Commit(m) PROVE TypeInv'
<1>1. VarTypes /\ TaskTypes /\ RadioTypes
  BY DEF TypeInv
<1>2. /\ pc[m] = "commit" /\ lightState' = Set(lightState, m, reg[m])
      /\ reg' = Set(reg, m, 0)
      /\ (pc' = Set(pc, m, "relay") /\ pkt' = pkt) \/ Idle(m)
      /\ UNCHANGED <<burstId, pktIDMap, numMissedBursts, queue, rx, seen, torn, misled>>
  BY DEF Commit, radioVars, ghosts
<1>3. VarTypes'
  BY <1>1, <1>2 DEF VarTypes, TaskTypes, Set
<1>4. CASE pc' = Set(pc, m, "relay") /\ pkt' = pkt
  <2>1. TaskTypes'
    BY <1>1, <1>2, <1>4 DEF TaskTypes, Set, Pcs
  <2>2. \A n \in Motes : pc'[n] = "idle" <=> pc[n] = "idle"
    BY <1>1, <1>2, <1>4 DEF TaskTypes, Set
  <2>3. RadioTypes'
    BY <1>1, <1>2, <2>2, PoolKept
  <2> QED
    BY <1>3, <2>1, <2>3 DEF TypeInv
<1>5. CASE Idle(m)
  <2>1. TaskTypes' /\ \A n \in Motes : pc'[n] = IF n = m THEN "idle" ELSE pc[n]
    BY <1>1, <1>2, <1>5, IdleTypes
  <2>2. ASSUME NEW n \in Motes
        PROVE  /\ IsFiniteSet(queue'[n]) /\ IsFiniteSet(rx'[n])
               /\ PoolOf(n)' <= QUEUELENGTH
    <3>1. queue' = queue /\ rx' = rx /\ IsFiniteSet(queue[n]) /\ IsFiniteSet(rx[n])
      BY <1>1, <1>2 DEF RadioTypes
    <3>2. /\ Cardinality(queue[n]) \in Nat /\ Cardinality(rx[n]) \in Nat
          /\ PoolOf(n) <= QUEUELENGTH
      BY <1>1, PoolIs
    <3> QED
      BY <2>1, <3>1, <3>2 DEF PoolOf
  <2>3. RadioTypes'
    BY <1>1, <1>2, <2>2, RadioStep DEF RadioTypes
  <2> QED
    BY <1>3, <2>1, <2>3 DEF TypeInv
<1> QED
  BY <1>2, <1>4, <1>5

LEMMA RelayStep ==
  ASSUME TypeInv, NEW m \in Motes, Relay(m) PROVE TypeInv'
<1> DEFINE info == LightInfo(m, "DATA", PktId(pkt[m]))
<1>1. VarTypes /\ TaskTypes /\ RadioTypes
  BY DEF TypeInv
<1>2. /\ pc[m] = "relay" /\ Idle(m)
      /\ \/ FreeBuffers(m) > 0 /\ queue' = Set(queue, m, queue[m] \cup {info})
         \/ queue' = queue
      /\ UNCHANGED <<lightVars, rx, reg, seen, miscounted, torn, misled>>
  BY DEF Relay
<1>3. info \in Frames
  <2>1. PktId(pkt[m]) \in 0 .. 7
    BY <1>1, <1>2, PktIdType DEF TaskTypes
  <2> QED
    BY <1>1, <2>1, LightInfoType
<1> HIDE DEF info
<1>4. VarTypes'
  BY <1>1, <1>2 DEF VarTypes, lightVars
<1>5. TaskTypes' /\ \A n \in Motes : pc'[n] = IF n = m THEN "idle" ELSE pc[n]
  BY <1>1, <1>2, IdleTypes
<1>6. queue' \in [Motes -> SUBSET Frames] /\ rx' \in [Motes -> SUBSET Frames]
      /\ rx'[Sensor] = {}
  BY <1>1, <1>2, <1>3 DEF RadioTypes, Set
<1>7. ASSUME NEW n \in Motes
      PROVE  /\ IsFiniteSet(queue'[n]) /\ IsFiniteSet(rx'[n])
             /\ PoolOf(n)' <= QUEUELENGTH
  <2>1. /\ IsFiniteSet(queue[n]) /\ IsFiniteSet(rx[n]) /\ rx' = rx
        /\ Cardinality(queue[n]) \in Nat /\ Cardinality(rx[n]) \in Nat
        /\ PoolOf(n) <= QUEUELENGTH /\ FreeBuffers(n) = QUEUELENGTH - PoolOf(n)
    BY <1>1, <1>2, PoolIs DEF RadioTypes
  <2>2. CASE queue'[n] = queue[n]
    BY <1>5, <2>1, <2>2 DEF PoolOf
  <2>3. CASE n = m /\ queue'[n] = queue[n] \cup {info}
    <3>1. /\ IsFiniteSet(queue[n] \cup {info})
          /\ Cardinality(queue[n] \cup {info}) <= Cardinality(queue[n]) + 1
      BY <2>1, AddFits
    <3>2. Cardinality(queue'[n]) \in Nat
      BY <2>3, <3>1, FS_CardinalityType
    <3> QED
      BY <1>2, <1>5, <2>1, <2>3, <3>1, <3>2 DEF PoolOf
  <2> QED
    BY <1>1, <1>2, <2>2, <2>3 DEF RadioTypes, Set
<1>8. RadioTypes'
  BY <1>6, <1>7, RadioStep
<1> QED
  BY <1>4, <1>5, <1>8 DEF TypeInv

LEMMA TypeStep == TypeInv /\ [Next]_vars => TypeInv'
<1> SUFFICES ASSUME TypeInv, [Next]_vars PROVE TypeInv'
  OBVIOUS
<1>1. CASE Interrupt
  BY <1>1, SensorStep, CatchUpStep, SendEBStep, TransmitStep DEF Interrupt
<1>2. ASSUME NEW m \in Motes, Task(m) PROVE TypeInv'
  BY <1>2, ReceiveStep, UpdateSteps, CommitStep, RelayStep DEF Task
<1>3. CASE UNCHANGED vars
  <2>1. VarTypes' /\ TaskTypes'
    BY <1>3 DEF vars, lightVars, taskVars, ghosts, TypeInv, VarTypes, TaskTypes
  <2>2. RadioTypes'
    <3>1. RadioTypes /\ UNCHANGED <<queue, rx, pc>>
      BY <1>3 DEF vars, radioVars, taskVars, TypeInv
    <3> QED
      BY <3>1, PoolKept
  <2> QED
    BY <2>1, <2>2 DEF TypeInv
<1> QED
  BY <1>1, <1>2, <1>3 DEF Next

\* The variables of the application and of its task keep their types, and no
\* mote keeps more packets than its pool has buffers: those waiting for a
\* cell, those received, and the one of the task.
THEOREM TypeCorrect == Spec => []TypeOK
<1>1. ASSUME TypeInv PROVE TypeOK
  BY <1>1 DEF TypeInv, VarTypes, TaskTypes, RadioTypes, TypeOK, Pcs
<1> QED
  BY <1>1, TypeInit, TypeStep, PTL DEF Spec

-----------------------------------------------------------------------------
(***************************************************************************)
(* The light state.                                                        *)
(***************************************************************************)

\* Mote m has not been interrupted between a load and its store, and has
\* taken over the state of no mote that had not caught up.
Clean(m) == ~torn[m] /\ ~misled[m]

\* What the sum of burst, missed bursts and state is at each step of the task
\* of m, the register standing for what it will be stored to.
ParityAt(m) ==
  /\ pc[m] \in {"idle", "relay", "count", "uncount"} =>
       Sum(burstId[m], numMissedBursts[m], lightState[m]) = 0
  /\ pc[m] = "storeCount" => Sum(burstId[m], reg[m], lightState[m]) = 0
  /\ pc[m] = "storeUncount" => Sum(burstId[m], reg[m], lightState[m]) = 1
  /\ pc[m] \in {"update", "toggle"} =>
       Sum(burstId[m], numMissedBursts[m], lightState[m]) = 1
  /\ pc[m] = "commit" => Sum(burstId[m], numMissedBursts[m], reg[m]) = 0
  /\ pc[m] \in {"uncount", "storeUncount", "update", "toggle", "commit"} =>
       burstId[m] = pkt[m].burstId

ParityInv == \A m \in Motes : Clean(m) => ParityAt(m)

LEMMA ParityInit == Init => ParityInv
  BY DEF Init, ParityInv, ParityAt, Sum

\* A step touches one mote's state; the others keep theirs.
LEMMA ParityOthers ==
  ASSUME TypeInv, ParityInv, NEW m \in Motes,
         \A n \in Motes \ {m} :
           /\ burstId'[n] = burstId[n] /\ numMissedBursts'[n] = numMissedBursts[n]
           /\ lightState'[n] = lightState[n] /\ pc'[n] = pc[n] /\ reg'[n] = reg[n]
           /\ pkt'[n] = pkt[n] /\ torn'[n] = torn[n] /\ misled'[n] = misled[n],
         Clean(m)' => ParityAt(m)'
  PROVE  ParityInv'
<1>1. ASSUME NEW n \in Motes \ {m} PROVE (Clean(n) <=> Clean(n)') /\ (ParityAt(n) <=> ParityAt(n)')
  BY Zenon DEF Clean, ParityAt
<1> QED
  BY <1>1, Zenon DEF ParityInv

\* The numbers that are added up.
LEMMA Addends ==
  ASSUME TypeInv, NEW m \in Motes
  PROVE  /\ burstId[m] \in Nat /\ numMissedBursts[m] \in Nat /\ lightState[m] \in {0, 1}
         /\ reg[m] \in Nat
         /\ Flipped((burstId[m] + 1) % BURSTIDS, burstId[m])
         /\ Flipped((numMissedBursts[m] + 1) % MISSEDS, numMissedBursts[m])
         /\ Flipped((numMissedBursts[m] - 1) % MISSEDS, numMissedBursts[m])
<1>1. burstId[m] \in 0 .. BURSTIDS - 1 /\ numMissedBursts[m] \in 0 .. MISSEDS - 1
  BY DEF TypeInv, VarTypes
<1>2. lightState[m] \in {0, 1} /\ reg[m] \in Nat
  BY DEF TypeInv, VarTypes, TaskTypes
<1>3. Flipped((burstId[m] + 1) % BURSTIDS, burstId[m])
  BY <1>1, CountsUp DEF Flipped
<1>4. /\ Flipped((numMissedBursts[m] + 1) % MISSEDS, numMissedBursts[m])
      /\ Flipped((numMissedBursts[m] - 1) % MISSEDS, numMissedBursts[m])
  BY <1>1, CountsUp, CountsDown DEF Flipped
<1> QED
  BY <1>1, <1>2, <1>3, <1>4

\* The sensor's light switches: burst and state both move on by one.
LEMMA SensorParity ==
  ASSUME TypeInv, ParityInv, light_trigger_SENSOR PROVE ParityInv'
<1> DEFINE m == Sensor
<1>1. /\ burstId' = Set(burstId, m, (burstId[m] + 1) % BURSTIDS)
      /\ lightState' = Set(lightState, m, 1 - lightState[m])
      /\ UNCHANGED <<numMissedBursts, pc, pkt, reg, torn, misled>>
  BY DEF light_trigger_SENSOR, taskVars
<1>2. pc[m] = "idle" /\ pc \in [Motes -> Pcs]
  BY DEF TypeInv, TaskTypes
<1>3. /\ burstId'[m] = (burstId[m] + 1) % BURSTIDS /\ lightState'[m] = 1 - lightState[m]
      /\ \A n \in Motes \ {m} : burstId'[n] = burstId[n] /\ lightState'[n] = lightState[n]
  BY <1>1 DEF TypeInv, VarTypes, Set
<1>4. ASSUME Clean(m)' PROVE ParityAt(m)'
  <2>1. Clean(m)
    BY <1>1, <1>4 DEF Clean
  <2>2. Sum(burstId[m], numMissedBursts[m], lightState[m]) = 0
    BY <1>2, <2>1 DEF ParityInv, ParityAt
  <2> DEFINE b == (burstId[m] + 1) % BURSTIDS
  <2>3. b \in Nat /\ Flipped(b, burstId[m])
    BY Addends, CounterTypes DEF TypeInv
  <2>4. Sum(b, numMissedBursts[m], 1 - lightState[m]) = 0
    <3> HIDE DEF b
    <3> QED
      <4>1. burstId[m] \in Nat /\ numMissedBursts[m] \in Nat /\ lightState[m] \in {0, 1}
        BY Addends
      <4> QED
        BY <2>2, <2>3, <4>1, ToggleTwo
  <2> QED
    BY <1>1, <1>2, <1>3, <2>4 DEF ParityAt
<1> QED
  BY <1>1, <1>3, <1>4, ParityOthers

\* The mote catches up: one missed burst less, and the other state.
LEMMA CatchUpParity ==
  ASSUME TypeInv, ParityInv, NEW m \in Motes, light_trigger_NOT_SENSOR(m)
  PROVE  ParityInv'
<1>1. /\ lightState' = Set(lightState, m, 1 - lightState[m])
      /\ numMissedBursts' = Set(numMissedBursts, m, numMissedBursts[m] - 1)
      /\ torn' = Set(torn, m, torn[m] \/ pc[m] \in {"storeCount", "storeUncount", "commit"})
      /\ UNCHANGED <<burstId, pc, pkt, reg, misled>>
      /\ numMissedBursts[m] > 0
  BY DEF light_trigger_NOT_SENSOR, taskVars
<1>2. /\ lightState'[m] = 1 - lightState[m] /\ numMissedBursts'[m] = numMissedBursts[m] - 1
      /\ \A n \in Motes \ {m} : /\ numMissedBursts'[n] = numMissedBursts[n]
                                /\ lightState'[n] = lightState[n] /\ torn'[n] = torn[n]
      /\ torn'[m] <=> torn[m] \/ pc[m] \in {"storeCount", "storeUncount", "commit"}
  BY <1>1 DEF TypeInv, VarTypes, Set
<1>3. ASSUME Clean(m)' PROVE ParityAt(m)'
  <2>1. Clean(m) /\ pc[m] \notin {"storeCount", "storeUncount", "commit"}
    BY <1>1, <1>2, <1>3 DEF Clean
  <2>2. ParityAt(m)
    BY <2>1 DEF ParityInv
  <2>3. Sum(burstId[m], numMissedBursts[m] - 1, 1 - lightState[m])
          = Sum(burstId[m], numMissedBursts[m], lightState[m])
    BY Addends, ToggleBack
  <2> QED
    BY <1>1, <1>2, <2>1, <2>2, <2>3 DEF ParityAt
<1> QED
  BY <1>1, <1>2, <1>3, ParityOthers

\* The task, one lemma for its counting and one for its end.
LEMMA CountParity ==
  ASSUME TypeInv, ParityInv, NEW m \in Motes,
         Count(m) \/ StoreCount(m) \/ Uncount(m) \/ StoreUncount(m)
  PROVE  ParityInv'
<1>1. UNCHANGED <<lightState, pkt, torn, misled>>
  BY DEF Count, StoreCount, Uncount, StoreUncount, lightVars, ghosts
<1>2. /\ \A n \in Motes \ {m} : /\ burstId'[n] = burstId[n] /\ reg'[n] = reg[n]
                                /\ numMissedBursts'[n] = numMissedBursts[n]
                                /\ pc'[n] = pc[n]
  BY DEF Count, StoreCount, Uncount, StoreUncount, lightVars, Goto, Set,
         TypeInv, VarTypes, TaskTypes
<1>3. ASSUME Clean(m)' PROVE ParityAt(m)'
  <2>1. Clean(m)
    BY <1>1, <1>3 DEF Clean
  <2>2. ParityAt(m)
    BY <2>1 DEF ParityInv
  <2>3. CASE Count(m)
    <3> DEFINE b == (burstId[m] + 1) % BURSTIDS
               n == (numMissedBursts[m] + 1) % MISSEDS
    <3>1. pc[m] = "count" /\ pc'[m] = "storeCount" /\ burstId'[m] = b /\ reg'[m] = n
      BY <2>3 DEF Count, Goto, Set, TypeInv, VarTypes, TaskTypes
    <3>2. /\ b \in Nat /\ Flipped(b, burstId[m])
          /\ n \in Nat /\ Flipped(n, numMissedBursts[m])
      BY Addends, CounterTypes DEF TypeInv
    <3>3. Sum(burstId[m], numMissedBursts[m], lightState[m]) = 0
      BY <2>2, <3>1 DEF ParityAt
    <3> HIDE DEF b, n
    <3>4. Sum(b, n, lightState[m]) = 0
      <4>1. burstId[m] \in Nat /\ numMissedBursts[m] \in Nat /\ lightState[m] \in {0, 1}
        BY Addends
      <4> QED
        BY <3>2, <3>3, <4>1, FlipTwo
    <3> QED
      BY <1>1, <3>1, <3>4 DEF ParityAt
  <2>4. CASE StoreCount(m)
    <3>1. /\ pc[m] = "storeCount" /\ burstId'[m] = burstId[m]
          /\ pc'[m] = IF burstId[m] = pkt[m].burstId THEN "uncount" ELSE "count"
          /\ numMissedBursts'[m] = reg[m]
      BY <2>4 DEF StoreCount, Goto, Set, TypeInv, VarTypes, TaskTypes
    <3> QED
      BY <1>1, <2>2, <3>1 DEF ParityAt
  <2>5. CASE Uncount(m)
    <3> DEFINE n == (numMissedBursts[m] - 1) % MISSEDS
    <3>1. /\ pc[m] = "uncount" /\ pc'[m] = "storeUncount" /\ burstId'[m] = burstId[m]
          /\ reg'[m] = n
      BY <2>5 DEF Uncount, Goto, Set, lightVars, TypeInv, VarTypes, TaskTypes
    <3>2. n \in Nat /\ Flipped(n, numMissedBursts[m])
      BY Addends, CounterTypes DEF TypeInv
    <3>3. Sum(burstId[m], numMissedBursts[m], lightState[m]) = 0
      BY <2>2, <3>1 DEF ParityAt
    <3> HIDE DEF n
    <3>4. Sum(burstId[m], n, lightState[m]) = 1
      <4>1. burstId[m] \in Nat /\ numMissedBursts[m] \in Nat /\ lightState[m] \in {0, 1}
        BY Addends
      <4> QED
        BY <3>2, <3>3, <4>1, FlipOne
    <3> QED
      BY <1>1, <2>2, <3>1, <3>4 DEF ParityAt
  <2>6. CASE StoreUncount(m)
    <3>1. /\ pc[m] = "storeUncount" /\ pc'[m] = "update" /\ burstId'[m] = burstId[m]
          /\ numMissedBursts'[m] = reg[m]
      BY <2>6 DEF StoreUncount, Goto, Set, TypeInv, VarTypes, TaskTypes
    <3> QED
      BY <1>1, <2>2, <3>1 DEF ParityAt
  <2> QED
    BY <2>3, <2>4, <2>5, <2>6
<1> QED
  BY <1>1, <1>2, <1>3, ParityOthers

LEMMA UpdateParity ==
  ASSUME TypeInv, ParityInv, NEW m \in Motes, Update(m) \/ Toggle(m) \/ Commit(m)
  PROVE  ParityInv'
<1>1. UNCHANGED <<burstId, numMissedBursts, torn>>
  BY DEF Update, Toggle, Commit, lightVars, ghosts
<1>2. \A n \in Motes \ {m} : /\ reg'[n] = reg[n] /\ pc'[n] = pc[n] /\ pkt'[n] = pkt[n]
                             /\ lightState'[n] = lightState[n] /\ misled'[n] = misled[n]
  BY DEF Update, Toggle, Commit, Idle, lightVars, ghosts, Goto, Set,
         TypeInv, VarTypes, TaskTypes
<1>3. ASSUME Clean(m)' PROVE ParityAt(m)'
  <2>1. CASE Update(m)
    <3>1. pc[m] = "update" /\ pkt'[m] = pkt[m] /\ lightState'[m] = lightState[m]
      BY <2>1 DEF Update, lightVars
    <3>2. CASE numMissedBursts[m] = 0
      <4>1. /\ pc'[m] = "commit" /\ reg'[m] = pkt[m].state
            /\ misled'[m] = (misled[m] \/ ~UpToDate(pkt[m]))
        BY <2>1, <3>2 DEF Update, Set, TypeInv, VarTypes, TaskTypes
      <4>2. Clean(m) /\ UpToDate(pkt[m])
        BY <1>1, <1>3, <4>1 DEF Clean
      <4>3. burstId[m] = pkt[m].burstId
        BY <3>1, <4>2 DEF ParityInv, ParityAt
      <4>4. Sum(burstId[m], numMissedBursts[m], pkt[m].state) = 0
        <5>1. (burstId[m] + pkt[m].state) % 2 = 0
          BY <4>2, <4>3 DEF UpToDate
        <5>2. burstId[m] + numMissedBursts[m] = burstId[m]
          BY <3>2, Addends
        <5> QED
          BY <5>1, <5>2 DEF Sum
      <4> QED
        BY <1>1, <3>1, <4>1, <4>3, <4>4 DEF ParityAt
    <3>3. CASE numMissedBursts[m] # 0
      <4>1. pc'[m] = "toggle" /\ misled' = misled
        BY <2>1, <3>3 DEF Update, Set, TypeInv, VarTypes, TaskTypes
      <4>2. Clean(m)
        BY <1>1, <1>3, <4>1 DEF Clean
      <4> QED
        BY <1>1, <3>1, <4>1, <4>2 DEF ParityInv, ParityAt
    <3> QED
      BY <3>2, <3>3
  <2>2. CASE Toggle(m)
    <3>1. /\ pc[m] = "toggle" /\ pc'[m] = "commit" /\ reg'[m] = 1 - lightState[m]
          /\ pkt' = pkt /\ lightState' = lightState /\ misled' = misled
      BY <2>2 DEF Toggle, Goto, Set, lightVars, ghosts, TypeInv, VarTypes, TaskTypes
    <3>2. Clean(m)
      BY <1>1, <1>3, <3>1 DEF Clean
    <3>3. /\ Sum(burstId[m], numMissedBursts[m], lightState[m]) = 1
          /\ burstId[m] = pkt[m].burstId
      BY <3>1, <3>2 DEF ParityInv, ParityAt
    <3>4. Sum(burstId[m], numMissedBursts[m], 1 - lightState[m]) = 0
      <4>1. burstId[m] \in Nat /\ numMissedBursts[m] \in Nat /\ lightState[m] \in {0, 1}
        BY Addends
      <4> QED
        BY <3>3, <4>1, ToggleOne
    <3> QED
      BY <1>1, <3>1, <3>3, <3>4 DEF ParityAt
  <2>3. CASE Commit(m)
    <3>1. /\ pc[m] = "commit" /\ pc'[m] \in {"relay", "idle"}
          /\ lightState'[m] = reg[m] /\ misled' = misled
      BY <2>3 DEF Commit, Idle, Set, ghosts, TypeInv, VarTypes, TaskTypes
    <3>2. Clean(m)
      BY <1>1, <1>3, <3>1 DEF Clean
    <3> QED
      BY <1>1, <3>1, <3>2 DEF ParityInv, ParityAt
  <2> QED
    BY <2>1, <2>2, <2>3
<1> QED
  BY <1>1, <1>2, <1>3, ParityOthers

\* What starts or ends a task, or is only about packets, leaves the sum.
LEMMA PacketParity ==
  ASSUME TypeInv, ParityInv, NEW m \in Motes,
         sixtop_sendEB(m) \/ Transmit(m) \/ Receive(m) \/ Relay(m)
  PROVE  ParityInv'
<1>1. UNCHANGED <<burstId, lightState, numMissedBursts, reg, torn, misled>>
  BY DEF sixtop_sendEB, Transmit, Receive, Relay, lightVars, taskVars, ghosts
<1>2. CASE sixtop_sendEB(m) \/ Transmit(m)
  <2>1. UNCHANGED <<pc, pkt>>
    BY <1>2 DEF sixtop_sendEB, Transmit, taskVars
  <2> QED
    BY <1>1, <2>1, Zenon DEF ParityInv, ParityAt, Clean
<1>3. CASE Receive(m) \/ Relay(m)
  <2>1. /\ pc[m] \in {"idle", "relay"}
        /\ \/ UNCHANGED <<pc, pkt>>
           \/ \E to \in {"idle", "relay", "count"} :
                \E f : pc' = Set(pc, m, to) /\ pkt' = Set(pkt, m, f)
    BY <1>3 DEF Receive, Relay, Idle
  <2>2. CASE UNCHANGED <<pc, pkt>>
    BY <1>1, <2>2, Zenon DEF ParityInv, ParityAt, Clean
  <2>3. ASSUME NEW to \in {"idle", "relay", "count"}, NEW f,
               pc' = Set(pc, m, to), pkt' = Set(pkt, m, f)
        PROVE  ParityInv'
    <3>1. /\ pc'[m] = to
          /\ \A n \in Motes \ {m} : pc'[n] = pc[n] /\ pkt'[n] = pkt[n]
      BY <2>3 DEF Set, TypeInv, TaskTypes
    <3>2. ASSUME Clean(m)' PROVE ParityAt(m)'
      <4>1. Clean(m)
        BY <1>1, <3>2 DEF Clean
      <4>2. Sum(burstId[m], numMissedBursts[m], lightState[m]) = 0
        BY <2>1, <4>1 DEF ParityInv, ParityAt
      <4> QED
        BY <1>1, <3>1, <4>2 DEF ParityAt
    <3> QED
      BY <1>1, <3>1, <3>2, ParityOthers
  <2> QED
    BY <2>1, <2>2, <2>3
<1> QED
  BY <1>2, <1>3

LEMMA ParityStep ==
  ASSUME TypeInv, ParityInv, [Next]_vars PROVE ParityInv'
<1>1. CASE Interrupt
  BY <1>1, SensorParity, CatchUpParity, PacketParity DEF Interrupt
<1>2. ASSUME NEW m \in Motes, Task(m) PROVE ParityInv'
  BY <1>2, CountParity, UpdateParity, PacketParity DEF Task
<1>3. CASE UNCHANGED vars
  BY <1>3, Zenon DEF vars, lightVars, taskVars, ghosts, ParityInv, ParityAt, Clean
<1> QED
  BY <1>1, <1>2, <1>3 DEF Next

\* Through missed bursts, old packets, duplicates, EBs and the interrupts that
\* catch up, the state of the light is that of the burst less the missed ones,
\* save where an update was interrupted half-way or a mote believed another
\* that had not caught up.
THEOREM StateCorrect == Spec => []StateFollowsBurst
<1>1. ParityInv => StateFollowsBurst
  BY Zenon DEF ParityInv, ParityAt, Clean, StateFollowsBurst, Sum
<1> QED
  BY <1>1, TypeInit, TypeStep, ParityInit, ParityStep, PTL DEF Spec

-----------------------------------------------------------------------------
(***************************************************************************)
(* The flood: old bursts, missed bursts and relayed packets, as long as    *)
(* packets are Timely.                                                     *)
(***************************************************************************)

\* The number of a burst and what is left of it in four bits.
Numbered(x, b) == \E k \in Int : x = b + BURSTIDS * k

LEMMA NumberedNext ==
  ASSUME NEW x \in Int, NEW b \in 0 .. BURSTIDS - 1, Numbered(x, b)
  PROVE  Numbered(x + 1, (b + 1) % BURSTIDS)
<1>1. PICK k \in Int : x = b + BURSTIDS * k
  BY DEF Numbered
<1>2. CASE b + 1 < BURSTIDS
  <2>1. (b + 1) % BURSTIDS = b + 1
    BY <1>2
  <2>2. x + 1 = (b + 1) + BURSTIDS * k
    BY <1>1
  <2> QED
    BY <2>1, <2>2 DEF Numbered
<1>3. CASE b + 1 = BURSTIDS
  <2>1. (b + 1) % BURSTIDS = 0
    BY <1>3
  <2>2. x + 1 = 0 + BURSTIDS * (k + 1) /\ k + 1 \in Int
    BY <1>1, <1>3
  <2> QED
    BY <2>1, <2>2, Zenon DEF Numbered
<1> QED
  BY <1>2, <1>3

\* How far one four-bit number is ahead of another.
LEMMA AheadIs ==
  ASSUME NEW a \in 0 .. BURSTIDS - 1, NEW b \in 0 .. BURSTIDS - 1
  PROVE  (a - b) % BURSTIDS = IF a >= b THEN a - b ELSE a - b + BURSTIDS
<1>1. CASE a >= b
  <2>1. a - b \in 0 .. BURSTIDS - 1
    BY <1>1
  <2> QED
    BY <1>1, <2>1
<1>2. CASE a < b
  <2>1. a - b + BURSTIDS \in 0 .. BURSTIDS - 1 /\ a - b = BURSTIDS * (-1) + (a - b + BURSTIDS)
    BY <1>2
  <2>2. (a - b) % BURSTIDS = a - b + BURSTIDS
    BY <2>1
  <2> QED
    BY <1>2, <2>2
<1> QED
  BY <1>1, <1>2

LEMMA Remainder ==
  ASSUME NEW q \in Int, NEW r \in 0 .. BURSTIDS - 1
  PROVE  (r + BURSTIDS * q) % BURSTIDS = r
<1> DEFINE n == BURSTIDS
           x == r + n * q
           e == x % n
<1>1. n \in Nat \ {0} /\ x \in Int
  OBVIOUS
<1>2. e \in 0 .. n - 1 /\ \E k \in Int : x = n * k + e
  <2>1. x = n * (x \div n) + (x % n) /\ x \div n \in Int /\ x % n \in 0 .. n - 1
    <3> HIDE DEF n, x
    <3> QED
      BY <1>1
  <2> QED
    BY <2>1
<1>3. PICK k \in Int : x = n * k + e
  BY <1>2
<1> HIDE DEF n, e
<1>4. n * (q - k) = e - r
  BY <1>1, <1>2, <1>3
<1>5. q - k >= 1 => n * (q - k) >= n
  BY <1>1
<1>6. q - k <= -1 => n * (q - k) <= -n
  BY <1>1
<1>7. q - k = 0
  BY <1>1, <1>2, <1>4, <1>5, <1>6 DEF n
<1>8. n * (q - k) = 0
  BY <1>1, <1>7
<1>9. e = r
  BY <1>2, <1>4, <1>8
<1> QED
  BY <1>9 DEF n, e, x

\* The number of a light_info byte is one with its four bits.
LEMMA NumberIs ==
  ASSUME NEW x \in Int, NEW c \in 0 .. BURSTIDS - 1, Numbered(x, c),
         NEW b \in 0 .. BURSTIDS - 1
  PROVE  Numbered(x - ((x - b) % BURSTIDS), b)
<1>1. PICK k \in Int : x = c + BURSTIDS * k
  BY DEF Numbered
<1>2. CASE c >= b
  <2>1. c - b \in 0 .. BURSTIDS - 1 /\ x - b = (c - b) + BURSTIDS * k
    BY <1>1, <1>2
  <2>2. (x - b) % BURSTIDS = c - b
    BY <2>1, Remainder, Zenon
  <2>3. x - ((x - b) % BURSTIDS) = b + BURSTIDS * k
    BY <1>1, <2>2
  <2> QED
    BY <2>3 DEF Numbered
<1>3. CASE c < b
  <2>1. c - b + BURSTIDS \in 0 .. BURSTIDS - 1 /\ k - 1 \in Int
        /\ x - b = (c - b + BURSTIDS) + BURSTIDS * (k - 1)
    BY <1>1, <1>3
  <2>2. (x - b) % BURSTIDS = c - b + BURSTIDS
    BY <2>1, Remainder, Zenon
  <2>3. x - ((x - b) % BURSTIDS) = b + BURSTIDS * (k - 1)
    BY <1>1, <2>1, <2>2
  <2> QED
    BY <2>1, <2>3, Zenon DEF Numbered
<1> QED
  BY <1>2, <1>3

\* A timely packet whose four bits look new is that many bursts later, or a
\* whole round of the numbers more.
LEMMA LaterIs ==
  ASSUME NEW x \in Int, NEW c \in 0 .. BURSTIDS - 1, Numbered(x, c),
         NEW y \in Int, NEW b \in 0 .. BURSTIDS - 1, Numbered(y, b),
         NEW d \in Int, d = (b - c) % BURSTIDS, d <= WINDOW, x - y < BURSTIDS - WINDOW
  PROVE  y >= x + d
<1>1. PICK k \in Int : x = c + BURSTIDS * k
  BY DEF Numbered
<1>2. PICK l \in Int : y = b + BURSTIDS * l
  BY DEF Numbered
<1>3. d = b - c \/ d = b - c + BURSTIDS
  BY AheadIs
<1>4. PICK j \in Int : y = x + d + BURSTIDS * j
  <2>1. CASE d = b - c
    <3> DEFINE K == BURSTIDS * k
               L == BURSTIDS * l
               J == BURSTIDS * (l - k)
    <3>1. l - k \in Int /\ J = L - K
      OBVIOUS
    <3>2. K \in Int /\ L \in Int /\ J \in Int /\ x = c + K /\ y = b + L
      BY <1>1, <1>2
    <3>3. y = x + d + J
      <4> HIDE DEF K, L, J
      <4> QED
        BY <3>2, <2>1, <3>1
    <3> QED
      BY <3>1, <3>3
  <2>2. CASE d = b - c + BURSTIDS
    <3> DEFINE K == BURSTIDS * k
               L == BURSTIDS * l
               J == BURSTIDS * (l - k - 1)
    <3>1. l - k - 1 \in Int /\ J = L - K - BURSTIDS
      OBVIOUS
    <3>2. K \in Int /\ L \in Int /\ J \in Int /\ x = c + K /\ y = b + L
      BY <1>1, <1>2
    <3>3. y = x + d + J
      <4> HIDE DEF K, L, J
      <4> QED
        BY <3>2, <2>2, <3>1
    <3> QED
      BY <3>1, <3>3
  <2> QED
    BY <1>3, <2>1, <2>2
<1>5. j >= 0
  <2> SUFFICES ASSUME j <= -1 PROVE FALSE
    OBVIOUS
  <2>1. BURSTIDS * j <= -BURSTIDS
    OBVIOUS
  <2> QED
    BY <1>4, <2>1
<1>6. BURSTIDS * j >= 0
  BY <1>5
<1> QED
  BY <1>4, <1>6

\* The ghosts of the flood.
FloodTypes ==
  /\ miscounted \in [Motes -> BOOLEAN]
  /\ relayed \in [Motes -> SUBSET (Int \X (0 .. 3))]

\* The number of a packet has its burstId for its four bits.
FramesNumbered ==
  \A m \in Motes : \A f \in queue[m] \cup rx[m] : Numbered(f.number, f.burstId)

\* The number of a mote's burst, which its burstId has yet to reach while the
\* task counts.
NumberAt(m) ==
  /\ seen[m] >= 0
  /\ IF pc[m] \in {"count", "storeCount"} THEN Numbered(seen[m], pkt[m].burstId)
     ELSE Numbered(seen[m], burstId[m])

\* What is missed, and what the task will still count, is no more than the
\* bursts there were; less, once the burst being received does not count.
CountAt(m) ==
  /\ pc[m] \in {"idle", "update", "toggle", "commit", "relay"} =>
       numMissedBursts[m] = 0 \/ numMissedBursts[m] < seen[m]
  /\ pc[m] = "count" =>
       Ahead(m, pkt[m]) >= 1 /\ numMissedBursts[m] + Ahead(m, pkt[m]) <= seen[m]
  /\ pc[m] = "storeCount" =>
       /\ numMissedBursts[m] <= seen[m] /\ reg[m] + Ahead(m, pkt[m]) <= seen[m]
       /\ reg[m] >= 1 \/ seen[m] >= MISSEDS
  /\ pc[m] = "uncount" =>
       /\ numMissedBursts[m] <= seen[m]
       /\ numMissedBursts[m] >= 1 \/ seen[m] >= MISSEDS
  /\ pc[m] = "storeUncount" => numMissedBursts[m] <= seen[m] /\ reg[m] < seen[m]

\* What was relayed of the last burst is in the map; what is to be relayed is
\* in the map too, and was not relayed.
RelayAt(m) ==
  /\ \A e \in relayed[m] : /\ e[1] <= seen[m]
                           /\ e[1] = seen[m] => e[2] \in pktIDMap[m]
  /\ pc[m] = "relay" => pkt[m].kind = "DATA"
  /\ pc[m] # "idle" /\ pkt[m].kind = "DATA" =>
       PktId(pkt[m]) \in pktIDMap[m] /\ <<seen[m], PktId(pkt[m])>> \notin relayed[m]

FloodAt(m) == NumberAt(m) /\ (~miscounted[m] => CountAt(m)) /\ RelayAt(m)

FloodInv == FloodTypes /\ FramesNumbered /\ \A m \in Motes : FloodAt(m)

LEMMA FloodInit == Init => FloodInv
<1> SUFFICES ASSUME Init PROVE FloodInv
  OBVIOUS
<1>1. FloodTypes /\ FramesNumbered
  BY DEF Init, FloodTypes, FramesNumbered
<1>2. ASSUME NEW m \in Motes PROVE FloodAt(m)
  <2>1. /\ pc[m] = "idle" /\ seen[m] = 0 /\ burstId[m] = 0 /\ numMissedBursts[m] = 0
        /\ relayed[m] = {}
    BY DEF Init
  <2>2. Numbered(0, 0)
    <3>1. 0 = 0 + BURSTIDS * 0
      OBVIOUS
    <3> QED
      BY <3>1 DEF Numbered
  <2> QED
    BY <2>1, <2>2 DEF FloodAt, NumberAt, CountAt, RelayAt
<1> QED
  BY <1>1, <1>2 DEF FloodInv

\* What FloodAt says of a mote depends on that mote's variables.
SameAt(n) ==
  /\ burstId'[n] = burstId[n] /\ pktIDMap'[n] = pktIDMap[n]
  /\ numMissedBursts'[n] = numMissedBursts[n]
  /\ pc'[n] = pc[n] /\ pkt'[n] = pkt[n] /\ reg'[n] = reg[n]
  /\ seen'[n] = seen[n] /\ relayed'[n] = relayed[n] /\ miscounted'[n] = miscounted[n]

LEMMA FloodSame ==
  ASSUME NEW n \in Motes, FloodAt(n), SameAt(n) PROVE FloodAt(n)'
<1>1. NumberAt(n)'
  BY Zenon DEF SameAt, FloodAt, NumberAt
<1>2. CountAt(n) => CountAt(n)'
  BY Zenon DEF SameAt, CountAt, Ahead
<1>3. RelayAt(n)'
  BY Zenon DEF SameAt, FloodAt, RelayAt
<1> QED
  BY <1>1, <1>2, <1>3, Zenon DEF FloodAt, SameAt

LEMMA FloodOthers ==
  ASSUME FloodInv, FloodTypes', FramesNumbered', NEW m \in Motes,
         \A n \in Motes \ {m} : SameAt(n), FloodAt(m)'
  PROVE  FloodInv'
<1>1. ASSUME NEW n \in Motes PROVE FloodAt(n)'
  BY <1>1, FloodSame DEF FloodInv
<1> QED
  BY <1>1 DEF FloodInv

LEMMA LightInfoNumbered ==
  ASSUME TypeInv, NEW m \in Motes, NumberAt(m), NEW kind, NEW p
  PROVE  Numbered(LightInfo(m, kind, p).number, LightInfo(m, kind, p).burstId)
<1>1. seen[m] \in Int /\ burstId[m] \in 0 .. BURSTIDS - 1
  BY DEF TypeInv, VarTypes
<1>2. PICK c \in 0 .. BURSTIDS - 1 : Numbered(seen[m], c)
  <2>1. CASE pc[m] \in {"count", "storeCount"}
    <3>1. pkt[m].burstId \in 0 .. BURSTIDS - 1
      BY <2>1 DEF TypeInv, TaskTypes, Frames
    <3> QED
      BY <2>1, <3>1 DEF NumberAt
  <2>2. CASE pc[m] \notin {"count", "storeCount"}
    BY <1>1, <2>2 DEF NumberAt
  <2> QED
    BY <2>1, <2>2
<1>3. Numbered(seen[m] - ((seen[m] - burstId[m]) % BURSTIDS), burstId[m])
  BY <1>1, <1>2, NumberIs
<1> QED
  BY <1>3 DEF LightInfo

LEMMA SensorFlood ==
  ASSUME TypeInv, FloodInv, light_trigger_SENSOR PROVE FloodInv'
<1> DEFINE m == Sensor
           n == seen[m] + 1
           id == (burstId[m] + 1) % BURSTIDS
           state == 1 - lightState[m]
           Packet(p) == [kind |-> "DATA", burstId |-> id, pktId |-> p, state |-> state,
                         number |-> n]
           P == {i \in 0 .. LIGHT_BURSTSIZE - 1 : i < FreeBuffers(m)}
<1>1. /\ burstId' = Set(burstId, m, id)
      /\ queue' = Set(queue, m, queue[m] \cup {Packet(p) : p \in P})
      /\ seen' = Set(seen, m, n)
      /\ UNCHANGED <<pktIDMap, numMissedBursts, rx, pc, pkt, reg, relayed, miscounted>>
  BY DEF light_trigger_SENSOR, taskVars
<1>2. pc[m] = "idle" /\ FloodAt(m)
  BY DEF TypeInv, TaskTypes, FloodInv
<1>3. Numbered(n, id)
  BY <1>2, NumberedNext DEF FloodAt, NumberAt, TypeInv, VarTypes
<1> HIDE DEF P, state, id
<1>4. FramesNumbered'
  <2>1. \A k \in Motes : queue'[k] \subseteq queue[k] \cup {Packet(p) : p \in P} /\ rx' = rx
    BY <1>1 DEF TypeInv, RadioTypes, Set
  <2> QED
    BY <1>3, <2>1 DEF FramesNumbered, FloodInv
<1>5. FloodTypes'
  BY <1>1 DEF FloodTypes, FloodInv
<1>6. /\ burstId'[m] = id /\ seen'[m] = n
      /\ \A k \in Motes \ {m} : SameAt(k)
  BY <1>1 DEF TypeInv, VarTypes, Set, SameAt
<1>7. FloodAt(m)'
  <2>0. seen[m] \in Int /\ numMissedBursts[m] \in Int /\ seen[m] >= 0
        /\ relayed[m] \in SUBSET (Int \X (0 .. 3))
    BY <1>2 DEF TypeInv, VarTypes, FloodAt, NumberAt, FloodInv, FloodTypes
  <2>1. NumberAt(m)'
    BY <1>1, <1>2, <1>3, <1>6, <2>0 DEF NumberAt
  <2>2. ~miscounted'[m] => CountAt(m)'
    BY <1>1, <1>2, <1>6, <2>0 DEF FloodAt, CountAt
  <2>3. RelayAt(m)'
    BY <1>1, <1>2, <1>6, <2>0 DEF FloodAt, RelayAt
  <2> QED
    BY <2>1, <2>2, <2>3 DEF FloodAt
<1> QED
  BY <1>4, <1>5, <1>6, <1>7, FloodOthers

LEMMA CatchUpFlood ==
  ASSUME TypeInv, FloodInv, NEW m \in Motes, light_trigger_NOT_SENSOR(m)
  PROVE  FloodInv'
<1>1. /\ numMissedBursts[m] > 0
      /\ numMissedBursts' = Set(numMissedBursts, m, numMissedBursts[m] - 1)
      /\ miscounted' = Set(miscounted, m, miscounted[m]
                             \/ pc[m] \in {"uncount", "storeUncount"})
      /\ UNCHANGED <<burstId, pktIDMap, queue, rx, pc, pkt, reg, seen, relayed>>
  BY DEF light_trigger_NOT_SENSOR, radioVars, taskVars
<1>2. FloodTypes' /\ FramesNumbered'
  BY <1>1, Zenon DEF FloodInv, FloodTypes, FramesNumbered, Set
<1>3. /\ numMissedBursts'[m] = numMissedBursts[m] - 1
      /\ miscounted'[m] <=> miscounted[m] \/ pc[m] \in {"uncount", "storeUncount"}
      /\ \A k \in Motes \ {m} : SameAt(k)
  BY <1>1 DEF TypeInv, VarTypes, FloodInv, FloodTypes, Set, SameAt
<1>4. FloodAt(m)
  BY DEF FloodInv
<1>5. NumberAt(m)' /\ RelayAt(m)'
  BY <1>1, <1>4, Zenon DEF FloodAt, NumberAt, RelayAt
<1>6. ASSUME ~miscounted'[m] PROVE CountAt(m)'
  <2>1. CountAt(m) /\ pc[m] \notin {"uncount", "storeUncount"}
    BY <1>3, <1>4, <1>6 DEF FloodAt
  <2>2. Ahead(m, pkt[m])' = Ahead(m, pkt[m])
    BY <1>1 DEF Ahead
  <2>3. /\ pc[m] = "count" => Ahead(m, pkt[m]) \in Int
        /\ numMissedBursts[m] \in Int /\ seen[m] \in Int
    <3>1. CASE pc[m] = "count"
      <4>1. /\ burstId[m] \in 0 .. BURSTIDS - 1 /\ pkt[m].burstId \in 0 .. BURSTIDS - 1
            /\ numMissedBursts[m] \in Int /\ seen[m] \in Int
        BY <3>1 DEF TypeInv, VarTypes, TaskTypes, Frames
      <4> DEFINE p == pkt[m].burstId
      <4>2. (p - burstId[m]) % BURSTIDS \in Int
        <5> HIDE DEF p
        <5>1. (p - burstId[m]) % BURSTIDS
                = IF p >= burstId[m] THEN p - burstId[m] ELSE p - burstId[m] + BURSTIDS
          BY <4>1, AheadIs DEF p
        <5> QED
          BY <4>1, <5>1 DEF p
      <4> QED
        BY <4>1, <4>2, Zenon DEF Ahead
    <3> QED
      BY <3>1 DEF TypeInv, VarTypes
  <2> HIDE DEF CountAt
  <2>4. /\ pc[m] \in {"idle", "update", "toggle", "commit", "relay"} =>
             numMissedBursts'[m] = 0 \/ numMissedBursts'[m] < seen[m]
        /\ pc[m] = "count" => /\ Ahead(m, pkt[m]) >= 1
                              /\ numMissedBursts'[m] + Ahead(m, pkt[m]) <= seen[m]
        /\ pc[m] = "storeCount" => numMissedBursts'[m] <= seen[m]
    BY <1>1, <1>3, <2>1, <2>3 DEF CountAt
  <2> QED
    BY <1>1, <2>1, <2>2, <2>4, Zenon DEF CountAt
<1> QED
  BY <1>2, <1>3, <1>5, <1>6, FloodOthers DEF FloodAt

LEMMA RadioFlood ==
  ASSUME TypeInv, FloodInv, NEW m \in Motes, sixtop_sendEB(m) \/ Transmit(m)
  PROVE  FloodInv'
<1>1. UNCHANGED <<lightVars, taskVars, ghosts>>
  BY DEF sixtop_sendEB, Transmit
<1>2. \A n \in Motes : SameAt(n)
  BY <1>1, Zenon DEF SameAt, lightVars, taskVars, ghosts
<1>3. FloodTypes'
  BY <1>1 DEF FloodInv, FloodTypes, ghosts
<1>4. FramesNumbered'
  <2>1. CASE sixtop_sendEB(m)
    <3> DEFINE eb == LightInfo(m, "BEACON", 0)
    <3>1. Numbered(eb.number, eb.burstId)
      BY LightInfoNumbered DEF FloodInv, FloodAt
    <3>2. queue' = Set(queue, m, queue[m] \cup {eb}) /\ rx' = rx
      BY <2>1 DEF sixtop_sendEB
    <3> HIDE DEF eb
    <3>3. \A n \in Motes : queue'[n] \subseteq queue[n] \cup {eb}
      BY <3>2 DEF Set, TypeInv, RadioTypes
    <3> QED
      BY <3>1, <3>2, <3>3 DEF FramesNumbered, FloodInv
  <2>2. CASE Transmit(m)
    <3>1. PICK f \in queue[m] :
            /\ queue' = Set(queue, m, queue[m] \ {f})
            /\ \A r \in Motes : rx'[r] \subseteq rx[r] \cup {f}
      BY <2>2 DEF Transmit
    <3>2. \A n \in Motes : queue'[n] \subseteq queue[n]
      BY <3>1 DEF Set, TypeInv, RadioTypes
    <3> QED
      BY <3>1, <3>2 DEF FramesNumbered, FloodInv
  <2> QED
    BY <2>1, <2>2
<1> QED
  BY <1>2, <1>3, <1>4, FloodSame DEF FloodInv

\* Where packets must be Timely: a new burst is as much later as it looks.
LEMMA TimelyIsLater ==
  ASSUME TypeInv, FloodInv, Timely, NEW m \in Motes, pc[m] = "idle",
         NEW f \in rx[m], IsNew(m, f)
  PROVE  /\ Ahead(m, f) \in 1 .. WINDOW
         /\ f.number \in Int /\ f.number >= seen[m] + Ahead(m, f)
         /\ Numbered(f.number, f.burstId)
<1>1. /\ f.number \in Int /\ f.burstId \in 0 .. BURSTIDS - 1
      /\ seen[m] \in Int /\ burstId[m] \in 0 .. BURSTIDS - 1
  BY DEF TypeInv, VarTypes, RadioTypes, Frames
<1>2. Numbered(seen[m], burstId[m]) /\ Numbered(f.number, f.burstId)
  BY DEF FloodInv, FloodAt, NumberAt, FramesNumbered
<1>3. Ahead(m, f) \in 1 .. WINDOW
  BY DEF IsNew
<1>4. seen[m] - f.number < BURSTIDS - WINDOW
  BY DEF Timely
<1>5. /\ Ahead(m, f) \in Int /\ Ahead(m, f) <= WINDOW
      /\ Ahead(m, f) = (f.burstId - burstId[m]) % BURSTIDS
  BY <1>3 DEF Ahead
<1>6. f.number >= seen[m] + Ahead(m, f)
  <2> HIDE DEF Ahead
  <2> QED
    BY <1>1, <1>2, <1>4, <1>5, LaterIs
<1> QED
  BY <1>1, <1>2, <1>3, <1>6

LEMMA ReceiveFlood ==
  ASSUME TypeInv, FloodInv, Timely, NEW m \in Motes, Receive(m)
  PROVE  FloodInv' /\ seen'[m] >= seen[m]
<1>1. pc[m] = "idle" /\ FloodAt(m)
  BY DEF Receive, FloodInv
<1>2. UNCHANGED <<burstId, numMissedBursts, queue, reg, relayed, miscounted>>
  BY DEF Receive
<1>3. PICK f \in rx[m] :
        LET isNew == IsNew(m, f)
            map   == MapFor(m, f)
            data  == f.kind = "DATA"
        IN /\ rx' = Set(rx, m, rx[m] \ {f})
           /\ \/ /\ Ahead(m, f) > WINDOW
                 /\ UNCHANGED <<pktIDMap, seen, pc, pkt>>
              \/ /\ Ahead(m, f) <= WINDOW
                 /\ data /\ PktId(f) \in map
                 /\ pktIDMap' = Set(pktIDMap, m, map)
                 /\ UNCHANGED <<seen, pc, pkt>>
              \/ /\ Ahead(m, f) <= WINDOW
                 /\ ~data \/ PktId(f) \notin map
                 /\ pktIDMap' = Set(pktIDMap, m,
                                    IF data THEN map \cup {PktId(f)} ELSE map)
                 /\ seen' = IF isNew THEN Set(seen, m, f.number) ELSE seen
                 /\ IF isNew THEN /\ pc' = Set(pc, m, "count")
                                  /\ pkt' = Set(pkt, m, f)
                    ELSE IF data /\ m # Sink THEN /\ pc' = Set(pc, m, "relay")
                                                  /\ pkt' = Set(pkt, m, f)
                    ELSE UNCHANGED <<pc, pkt>>
  BY Zenon DEF Receive
<1>4. FramesNumbered'
  <2>1. \A n \in Motes : rx'[n] \subseteq rx[n]
    BY <1>3 DEF Set, TypeInv, RadioTypes
  <2> QED
    BY <1>2, <2>1 DEF FramesNumbered, FloodInv
<1>5. FloodTypes'
  BY <1>2 DEF FloodTypes, FloodInv
<1>6. \A n \in Motes \ {m} : SameAt(n)
  BY <1>2, <1>3 DEF SameAt, Set, TypeInv, VarTypes, TaskTypes
<1>7. seen[m] \in Int /\ numMissedBursts[m] \in Nat /\ pktIDMap[m] \in SUBSET (0 .. 3)
  BY DEF TypeInv, VarTypes
<1> DEFINE Nothing == pc' = pc /\ pkt' = pkt /\ seen' = seen /\ pktIDMap[m] \subseteq pktIDMap'[m]
           ToRelay ==
             /\ ~IsNew(m, f) /\ f.kind = "DATA" /\ PktId(f) \notin pktIDMap[m]
             /\ pc' = Set(pc, m, "relay") /\ pkt' = Set(pkt, m, f) /\ seen' = seen
             /\ pktIDMap' = Set(pktIDMap, m, pktIDMap[m] \cup {PktId(f)})
           NewBurst ==
             /\ IsNew(m, f)
             /\ pc' = Set(pc, m, "count") /\ pkt' = Set(pkt, m, f)
             /\ seen' = Set(seen, m, f.number)
             /\ pktIDMap' = Set(pktIDMap, m, IF f.kind = "DATA" THEN {PktId(f)} ELSE {})
<1>8. CASE Nothing
  <2>1. NumberAt(m)' /\ (CountAt(m) => CountAt(m)')
    BY <1>1, <1>2, <1>8 DEF FloodAt, NumberAt, CountAt
  <2>2. RelayAt(m)'
    BY <1>1, <1>2, <1>8 DEF FloodAt, RelayAt
  <2>3. FloodAt(m)'
    BY <1>1, <1>2, <2>1, <2>2, Zenon DEF FloodAt
  <2> QED
    BY <1>4, <1>5, <1>6, <1>7, <1>8, <2>3, FloodOthers
<1>9. CASE ToRelay
  <2>1. /\ pc'[m] = "relay" /\ pkt'[m] = f /\ pktIDMap'[m] = pktIDMap[m] \cup {PktId(f)}
    BY <1>9 DEF Set, TypeInv, VarTypes, TaskTypes
  <2>2. NumberAt(m)'
    BY <1>1, <1>2, <1>9, <2>1 DEF FloodAt, NumberAt
  <2>3. CountAt(m) => CountAt(m)'
    BY <1>1, <1>2, <1>9, <2>1 DEF CountAt
  <2>4. RelayAt(m)'
    <3>1. <<seen[m], PktId(f)>> \notin relayed[m]
      BY <1>1, <1>9 DEF FloodAt, RelayAt
    <3>2. \A e \in relayed[m] : e[1] <= seen[m] /\ (e[1] = seen[m] => e[2] \in pktIDMap[m])
      BY <1>1 DEF FloodAt, RelayAt
    <3>3. PktId(pkt'[m]) = PktId(f)
      BY <2>1
    <3> QED
      BY <1>2, <1>9, <2>1, <3>1, <3>2, <3>3 DEF RelayAt
  <2>5. FloodAt(m)'
    BY <1>1, <1>2, <2>2, <2>3, <2>4, Zenon DEF FloodAt
  <2> QED
    BY <1>4, <1>5, <1>6, <1>7, <1>9, <2>5, FloodOthers
<1>10. CASE NewBurst
  <2>1. /\ pc'[m] = "count" /\ pkt'[m] = f /\ seen'[m] = f.number
        /\ pktIDMap'[m] = IF f.kind = "DATA" THEN {PktId(f)} ELSE {}
    BY <1>10 DEF Set, TypeInv, VarTypes, TaskTypes
  <2>2. /\ Ahead(m, f) \in 1 .. WINDOW
        /\ f.number \in Int /\ f.number >= seen[m] + Ahead(m, f)
        /\ Numbered(f.number, f.burstId)
    BY <1>1, <1>10, TimelyIsLater
  <2>3. seen[m] >= 0 /\ f.number > seen[m]
    BY <1>1, <1>7, <2>2 DEF FloodAt, NumberAt
  <2>4. NumberAt(m)'
    BY <1>7, <2>1, <2>2, <2>3 DEF NumberAt
  <2>5. CountAt(m) => CountAt(m)'
    <3>1. ASSUME CountAt(m) PROVE numMissedBursts[m] + Ahead(m, f) <= f.number
      BY <1>1, <1>7, <2>2, <2>3, <3>1 DEF CountAt
    <3>2. Ahead(m, pkt[m])' = Ahead(m, f)
      BY <1>2, <2>1 DEF Ahead
    <3> QED
      BY <1>2, <2>1, <2>2, <3>1, <3>2 DEF CountAt
  <2>6. RelayAt(m)'
    <3>1. \A e \in relayed[m] : e[1] <= seen[m]
      BY <1>1 DEF FloodAt, RelayAt
    <3>2. \A e \in relayed[m] : e[1] \in Int /\ e[1] < f.number
      BY <1>7, <2>2, <2>3, <3>1 DEF FloodInv, FloodTypes
    <3>3. <<f.number, PktId(f)>> \notin relayed[m]
      BY <2>2, <3>2
    <3>4. PktId(pkt'[m]) = PktId(f)
      BY <2>1
    <3> QED
      BY <1>2, <2>1, <2>2, <3>2, <3>3, <3>4 DEF RelayAt
  <2>7. FloodAt(m)'
    BY <1>1, <1>2, <2>4, <2>5, <2>6, Zenon DEF FloodAt
  <2>8. FloodInv'
    BY <1>4, <1>5, <1>6, <2>7, FloodOthers
  <2> QED
    BY <1>7, <2>1, <2>2, <2>3, <2>8
<1>11. Nothing \/ ToRelay \/ NewBurst
  <2>1. CASE IsNew(m, f)
    <3>1. MapFor(m, f) = {}
      BY <2>1 DEF MapFor
    <3>2. Ahead(m, f) <= WINDOW /\ ~(Ahead(m, f) > WINDOW)
      BY <2>1 DEF IsNew
    <3> QED
      BY <1>3, <2>1, <3>1, <3>2
  <2>2. CASE ~IsNew(m, f)
    <3>1. MapFor(m, f) = pktIDMap[m]
      BY <2>2 DEF MapFor
    <3> QED
      BY <1>3, <2>2, <3>1 DEF TypeInv, VarTypes, Set
  <2> QED
    BY <2>1, <2>2
<1> QED
  BY <1>8, <1>9, <1>10, <1>11

\* The steps of the task that keep the packets and the map.
TaskFrame(m) ==
  /\ UNCHANGED <<pktIDMap, queue, rx, seen, relayed, miscounted>>
  /\ \A n \in Motes \ {m} : SameAt(n)

LEMMA TaskFrames ==
  ASSUME TypeInv, NEW m \in Motes,
         \/ Count(m) \/ StoreCount(m) \/ Uncount(m) \/ StoreUncount(m)
         \/ Update(m) \/ Toggle(m) \/ Commit(m)
  PROVE  TaskFrame(m)
<1>1. UNCHANGED <<pktIDMap, queue, rx, seen, relayed, miscounted>>
  BY DEF Count, StoreCount, Uncount, StoreUncount, Update, Toggle, Commit,
         lightVars, radioVars, ghosts
<1>2. ASSUME NEW n \in Motes \ {m} PROVE SameAt(n)
  BY <1>1 DEF Count, StoreCount, Uncount, StoreUncount, Update, Toggle, Commit, Goto, Idle,
         Set, lightVars, SameAt, TypeInv, VarTypes, TaskTypes
<1> QED
  BY <1>1, <1>2 DEF TaskFrame

LEMMA FromTaskFrame ==
  ASSUME TypeInv, FloodInv, NEW m \in Motes, TaskFrame(m), FloodAt(m)' PROVE FloodInv'
<1>1. FloodTypes' /\ FramesNumbered'
  BY Zenon DEF TaskFrame, FloodInv, FloodTypes, FramesNumbered
<1> QED
  BY <1>1, FloodOthers DEF TaskFrame

\* What is relayed does not depend on where the task is, as long as it keeps
\* its packet.
LEMMA RelayKept ==
  ASSUME NEW m \in Motes, RelayAt(m), TaskFrame(m), pkt'[m] = pkt[m], pc[m] # "idle",
         pc'[m] = "relay" => pkt[m].kind = "DATA"
  PROVE  RelayAt(m)'
<1>1. /\ relayed'[m] = relayed[m] /\ seen'[m] = seen[m] /\ pktIDMap'[m] = pktIDMap[m]
      /\ PktId(pkt'[m]) = PktId(pkt[m])
  BY DEF TaskFrame
<1> QED
  BY <1>1, Zenon DEF RelayAt

LEMMA CountFlood ==
  ASSUME TypeInv, FloodInv, NEW m \in Motes, Count(m)
  PROVE  FloodInv'
<1> DEFINE b == (burstId[m] + 1) % BURSTIDS
           n == (numMissedBursts[m] + 1) % MISSEDS
<1>1. /\ pc[m] = "count" /\ pc'[m] = "storeCount" /\ burstId'[m] = b /\ reg'[m] = n
      /\ numMissedBursts'[m] = numMissedBursts[m] /\ pkt'[m] = pkt[m]
  BY DEF Count, Goto, Set, TypeInv, VarTypes, TaskTypes
<1>2. FloodAt(m) /\ TaskFrame(m)
  BY TaskFrames DEF FloodInv
<1>3. seen'[m] = seen[m] /\ miscounted'[m] = miscounted[m]
  BY <1>2 DEF TaskFrame
<1>4. NumberAt(m)'
  BY <1>1, <1>2, <1>3, Zenon DEF FloodAt, NumberAt
<1>5. RelayAt(m)'
  BY <1>1, <1>2, RelayKept DEF FloodAt
<1>6. ASSUME CountAt(m) PROVE CountAt(m)'
  <2> DEFINE p == pkt[m].burstId
             d == Ahead(m, pkt[m])
             e == Ahead(m, pkt[m])'
  <2>1. /\ burstId[m] \in 0 .. BURSTIDS - 1 /\ p \in 0 .. BURSTIDS - 1
        /\ numMissedBursts[m] \in 0 .. MISSEDS - 1 /\ seen[m] \in Int
    BY <1>1 DEF TypeInv, VarTypes, TaskTypes, Frames
  <2>2. d = (p - burstId[m]) % BURSTIDS /\ e = (p - b) % BURSTIDS
    BY <1>1 DEF Ahead
  <2>3. d >= 1 /\ numMissedBursts[m] + d <= seen[m]
    BY <1>1, <1>6 DEF CountAt
  <2>4. b \in 0 .. BURSTIDS - 1
        /\ b = IF burstId[m] + 1 = BURSTIDS THEN 0 ELSE burstId[m] + 1
    <3>1. CASE burstId[m] + 1 = BURSTIDS
      BY <2>1, <3>1
    <3>2. CASE burstId[m] + 1 # BURSTIDS
      <4>1. burstId[m] + 1 \in 0 .. BURSTIDS - 1
        BY <2>1, <3>2
      <4> QED
        BY <3>2, <4>1
    <3> QED
      BY <3>1, <3>2
  <2> HIDE DEF b, d, e, p
  <2>5. /\ d = IF p >= burstId[m] THEN p - burstId[m] ELSE p - burstId[m] + BURSTIDS
        /\ e = IF p >= b THEN p - b ELSE p - b + BURSTIDS
    BY <2>1, <2>2, <2>4, AheadIs
  <2>6. e = d - 1 /\ d \in Nat
    BY <2>1, <2>3, <2>4, <2>5
  <2>7. n = IF numMissedBursts[m] + 1 = MISSEDS THEN 0 ELSE numMissedBursts[m] + 1
    <3>1. CASE numMissedBursts[m] + 1 = MISSEDS
      BY <2>1, <3>1
    <3>2. CASE numMissedBursts[m] + 1 # MISSEDS
      <4>1. numMissedBursts[m] + 1 \in 0 .. MISSEDS - 1
        BY <2>1, <3>2
      <4> QED
        BY <3>2, <4>1
    <3> QED
      BY <3>1, <3>2
  <2> HIDE DEF n
  <2>8. n + e <= seen[m] /\ (n >= 1 \/ seen[m] >= MISSEDS) /\ numMissedBursts[m] <= seen[m]
    BY <2>1, <2>3, <2>6, <2>7
  <2> QED
    BY <1>1, <1>3, <2>8 DEF CountAt, e
<1>7. FloodAt(m)'
  BY <1>2, <1>3, <1>4, <1>5, <1>6, Zenon DEF FloodAt
<1> QED
  BY <1>2, <1>7, FromTaskFrame

LEMMA StoreCountFlood ==
  ASSUME TypeInv, FloodInv, NEW m \in Motes, StoreCount(m)
  PROVE  FloodInv'
<1>1. /\ pc[m] = "storeCount"
      /\ pc'[m] = IF burstId[m] = pkt[m].burstId THEN "uncount" ELSE "count"
      /\ burstId' = burstId /\ numMissedBursts'[m] = reg[m] /\ pkt' = pkt
  BY DEF StoreCount, Goto, Set, TypeInv, VarTypes, TaskTypes
<1>2. FloodAt(m) /\ TaskFrame(m)
  BY TaskFrames DEF FloodInv
<1>3. seen'[m] = seen[m] /\ miscounted'[m] = miscounted[m]
  BY <1>2 DEF TaskFrame
<1>4. NumberAt(m)'
  BY <1>1, <1>2, <1>3 DEF FloodAt, NumberAt
<1>5. RelayAt(m)'
  BY <1>1, <1>2, RelayKept DEF FloodAt
<1>6. ASSUME CountAt(m) PROVE CountAt(m)'
  <2> DEFINE d == Ahead(m, pkt[m])
  <2>1. Ahead(m, pkt[m])' = d
    BY <1>1 DEF Ahead
  <2>2. reg[m] \in Nat /\ seen[m] \in Int
    BY DEF TypeInv, TaskTypes, VarTypes
  <2>3. /\ burstId[m] \in 0 .. BURSTIDS - 1 /\ pkt[m].burstId \in 0 .. BURSTIDS - 1
    BY <1>1 DEF TypeInv, VarTypes, TaskTypes, Frames
  <2>4. d \in Nat /\ (d = 0 => burstId[m] = pkt[m].burstId)
    BY <2>3, AheadIs DEF Ahead
  <2>5. reg[m] + d <= seen[m] /\ (reg[m] >= 1 \/ seen[m] >= MISSEDS)
    BY <1>1, <1>6 DEF CountAt
  <2> HIDE DEF d
  <2> QED
    BY <1>1, <1>3, <2>1, <2>2, <2>4, <2>5 DEF CountAt
<1>7. FloodAt(m)'
  BY <1>2, <1>3, <1>4, <1>5, <1>6, Zenon DEF FloodAt
<1> QED
  BY <1>2, <1>7, FromTaskFrame

LEMMA UncountFlood ==
  ASSUME TypeInv, FloodInv, NEW m \in Motes, Uncount(m) \/ StoreUncount(m)
  PROVE  FloodInv'
<1>1. /\ burstId' = burstId /\ pkt' = pkt
      /\ \/ /\ pc[m] = "uncount" /\ pc'[m] = "storeUncount"
            /\ reg'[m] = (numMissedBursts[m] - 1) % MISSEDS
            /\ numMissedBursts'[m] = numMissedBursts[m]
         \/ /\ pc[m] = "storeUncount" /\ pc'[m] = "update"
            /\ numMissedBursts'[m] = reg[m]
  BY DEF Uncount, StoreUncount, Goto, Set, lightVars, TypeInv, VarTypes, TaskTypes
<1>2. FloodAt(m) /\ TaskFrame(m)
  BY TaskFrames DEF FloodInv
<1>3. seen'[m] = seen[m] /\ miscounted'[m] = miscounted[m]
  BY <1>2 DEF TaskFrame
<1>4. NumberAt(m)'
  BY <1>1, <1>2, <1>3 DEF FloodAt, NumberAt
<1>5. RelayAt(m)'
  BY <1>1, <1>2, RelayKept DEF FloodAt
<1>6. ASSUME CountAt(m) PROVE CountAt(m)'
  <2> DEFINE n == (numMissedBursts[m] - 1) % MISSEDS
  <2>1. /\ numMissedBursts[m] \in 0 .. MISSEDS - 1 /\ seen[m] \in Int /\ MISSEDS \in Nat
    BY DEF TypeInv, VarTypes
  <2>2. CASE pc[m] = "uncount"
    <3>1. /\ numMissedBursts[m] <= seen[m]
          /\ numMissedBursts[m] >= 1 \/ seen[m] >= MISSEDS
      BY <1>6, <2>2 DEF CountAt
    <3>2. n = IF numMissedBursts[m] = 0 THEN MISSEDS - 1 ELSE numMissedBursts[m] - 1
      <4>1. CASE numMissedBursts[m] = 0
        BY <4>1
      <4>2. CASE numMissedBursts[m] # 0
        <5>1. numMissedBursts[m] - 1 \in 0 .. MISSEDS - 1
          BY <2>1, <4>2
        <5> QED
          BY <4>2, <5>1
      <4> QED
        BY <4>1, <4>2
    <3> HIDE DEF n
    <3>3. n < seen[m]
      BY <2>1, <3>1, <3>2
    <3> QED
      BY <1>1, <1>3, <2>2, <3>1, <3>3 DEF CountAt, n
  <2>3. CASE pc[m] = "storeUncount"
    BY <1>1, <1>3, <1>6, <2>3 DEF CountAt
  <2> QED
    BY <1>1, <2>2, <2>3
<1>7. FloodAt(m)'
  BY <1>2, <1>3, <1>4, <1>5, <1>6, Zenon DEF FloodAt
<1> QED
  BY <1>2, <1>7, FromTaskFrame

LEMMA UpdateFlood ==
  ASSUME TypeInv, FloodInv, NEW m \in Motes, Update(m) \/ Toggle(m) \/ Commit(m)
  PROVE  FloodInv'
<1>1. /\ burstId' = burstId /\ numMissedBursts' = numMissedBursts
      /\ pc[m] \in {"update", "toggle", "commit"}
      /\ \/ pkt' = pkt /\ pc'[m] \in {"toggle", "commit"}
         \/ pkt' = pkt /\ pc'[m] = "relay" /\ pkt[m].kind = "DATA"
         \/ pkt'[m] = NoFrame /\ pc'[m] = "idle"
  BY DEF Update, Toggle, Commit, Idle, Goto, Set, lightVars, TypeInv, VarTypes, TaskTypes
<1>2. FloodAt(m) /\ TaskFrame(m)
  BY TaskFrames DEF FloodInv
<1>3. UNCHANGED <<seen, miscounted, relayed, pktIDMap>>
  BY <1>2 DEF TaskFrame
<1>4. NumberAt(m)'
  BY <1>1, <1>2, <1>3 DEF FloodAt, NumberAt
<1>5. RelayAt(m)'
  <2>1. CASE pkt' = pkt
    BY <1>1, <1>2, <2>1, RelayKept DEF FloodAt
  <2>2. CASE pc'[m] = "idle"
    BY <1>2, <1>3, <2>2 DEF FloodAt, RelayAt
  <2> QED
    BY <1>1, <2>1, <2>2
<1>6. CountAt(m) => CountAt(m)'
  BY <1>1, <1>3 DEF CountAt
<1>7. FloodAt(m)'
  BY <1>2, <1>3, <1>4, <1>5, <1>6, Zenon DEF FloodAt
<1> QED
  BY <1>2, <1>7, FromTaskFrame

LEMMA RelayFlood ==
  ASSUME TypeInv, FloodInv, NEW m \in Motes, Relay(m)
  PROVE  FloodInv' /\ <<seen[m], PktId(pkt[m])>> \notin relayed[m]
<1> DEFINE id == PktId(pkt[m])
           f == LightInfo(m, "DATA", id)
<1>1. /\ pc[m] = "relay" /\ pc' = Set(pc, m, "idle") /\ pkt' = Set(pkt, m, NoFrame)
      /\ \/ /\ queue' = Set(queue, m, queue[m] \cup {f})
            /\ relayed' = Set(relayed, m, relayed[m] \cup {<<seen[m], id>>})
         \/ UNCHANGED <<queue, relayed>>
      /\ UNCHANGED <<lightVars, rx, reg, seen, miscounted>>
  BY DEF Relay, Idle
<1>2. FloodAt(m)
  BY DEF FloodInv
<1>3. pkt[m] \in Frames /\ id \in 0 .. 3
  <2>1. pkt[m] \in Frames
    BY <1>1 DEF TypeInv, TaskTypes
  <2> QED
    BY <2>1, PktIdType
<1>4. id \in pktIDMap[m] /\ <<seen[m], id>> \notin relayed[m]
  BY <1>1, <1>2 DEF FloodAt, RelayAt
<1>5. Numbered(f.number, f.burstId)
  BY <1>2, LightInfoNumbered DEF FloodAt
<1> HIDE DEF f, id
<1>6. FramesNumbered'
  <2>1. \A n \in Motes : queue'[n] \subseteq queue[n] \cup {f}
    BY <1>1 DEF Set, TypeInv, RadioTypes
  <2> QED
    BY <1>1, <1>5, <2>1 DEF FramesNumbered, FloodInv
<1>7. FloodTypes'
  <2>1. <<seen[m], id>> \in Int \X (0 .. 3)
    BY <1>3 DEF TypeInv, VarTypes
  <2> QED
    BY <1>1, <2>1 DEF FloodTypes, FloodInv, Set
<1>8. \A n \in Motes \ {m} : SameAt(n)
  BY <1>1 DEF SameAt, Set, lightVars, TypeInv, TaskTypes, FloodInv, FloodTypes
<1>9. /\ pc'[m] = "idle" /\ seen' = seen /\ pktIDMap' = pktIDMap
      /\ burstId' = burstId /\ numMissedBursts' = numMissedBursts /\ miscounted' = miscounted
      /\ relayed'[m] \subseteq relayed[m] \cup {<<seen[m], id>>}
  BY <1>1 DEF Set, lightVars, TypeInv, TaskTypes, FloodInv, FloodTypes
<1>10. NumberAt(m)' /\ (CountAt(m) => CountAt(m)')
  BY <1>1, <1>2, <1>9 DEF FloodAt, NumberAt, CountAt
<1>11. RelayAt(m)'
  <2>1. seen[m] \in Int
    BY DEF TypeInv, VarTypes
  <2>2. \A e \in relayed[m] \cup {<<seen[m], id>>} :
          e[1] <= seen[m] /\ (e[1] = seen[m] => e[2] \in pktIDMap[m])
    BY <1>2, <1>4, <2>1 DEF FloodAt, RelayAt
  <2> QED
    BY <1>9, <2>2 DEF RelayAt
<1>12. FloodAt(m)'
  BY <1>2, <1>9, <1>10, <1>11, Zenon DEF FloodAt
<1> QED
  BY <1>4, <1>6, <1>7, <1>8, <1>12, FloodOthers DEF id

LEMMA FloodStep ==
  ASSUME TypeInv, FloodInv, Timely, [Next]_vars PROVE FloodInv'
<1>1. CASE Interrupt
  BY <1>1, SensorFlood, CatchUpFlood, RadioFlood DEF Interrupt
<1>2. ASSUME NEW m \in Motes, Task(m) PROVE FloodInv'
  BY <1>2, ReceiveFlood, CountFlood, StoreCountFlood, UncountFlood, UpdateFlood,
     RelayFlood DEF Task
<1>3. CASE UNCHANGED vars
  <2>1. \A n \in Motes : SameAt(n)
    BY <1>3, Zenon DEF SameAt, vars, lightVars, taskVars, ghosts
  <2>2. FloodTypes' /\ FramesNumbered'
    BY <1>3, Zenon DEF FloodInv, FloodTypes, FramesNumbered, vars, radioVars, ghosts
  <2> QED
    BY <2>1, <2>2, FloodSame DEF FloodInv
<1> QED
  BY <1>1, <1>2, <1>3 DEF Next

LEMMA FloodProps ==
  ASSUME TypeInv, FloodInv
  PROVE  MissedCounts
<1> SUFFICES ASSUME NEW m \in Motes, ~miscounted[m]
             PROVE  \/ numMissedBursts[m] = 0
                    \/ numMissedBursts[m] < seen[m]
                    \/ numMissedBursts[m] = seen[m] /\ pc[m] \notin {"idle", "relay"}
  BY DEF MissedCounts
<1>1. CountAt(m)
  BY DEF FloodInv, FloodAt
<1>2. numMissedBursts[m] \in Nat /\ seen[m] \in Int /\ pc[m] \in Pcs
  BY DEF TypeInv, VarTypes, TaskTypes
<1>3. pc[m] = "count" => Ahead(m, pkt[m]) \in Int
  <2>1. ASSUME pc[m] = "count"
        PROVE  /\ burstId[m] \in 0 .. BURSTIDS - 1
               /\ pkt[m].burstId \in 0 .. BURSTIDS - 1
    BY <2>1 DEF TypeInv, VarTypes, TaskTypes, Frames
  <2> QED
    BY <2>1, AheadIs DEF Ahead
<1> QED
  BY <1>1, <1>2, <1>3 DEF CountAt, Pcs

LEMMA FloodSteps ==
  ASSUME TypeInv, FloodInv, Timely, [Next]_vars
  PROVE  \A m \in Motes :
           /\ seen'[m] >= seen[m]
           /\ pc[m] = "relay" /\ pc'[m] = "idle" =>
                <<seen[m], PktId(pkt[m])>> \notin relayed[m]
<1> SUFFICES ASSUME NEW n \in Motes
             PROVE  /\ seen'[n] >= seen[n]
                    /\ pc[n] = "relay" /\ pc'[n] = "idle" =>
                         <<seen[n], PktId(pkt[n])>> \notin relayed[n]
  OBVIOUS
<1>1. seen[n] \in Int /\ seen \in [Motes -> Int] /\ pc \in [Motes -> Pcs]
  BY DEF TypeInv, VarTypes, TaskTypes
<1>2. CASE light_trigger_SENSOR
  BY <1>1, <1>2 DEF light_trigger_SENSOR, Set, taskVars
<1>3. ASSUME NEW m \in Motes,
             light_trigger_NOT_SENSOR(m) \/ sixtop_sendEB(m) \/ Transmit(m)
      PROVE  seen' = seen /\ pc' = pc
  BY <1>3 DEF light_trigger_NOT_SENSOR, sixtop_sendEB, Transmit, taskVars, ghosts
<1>4. ASSUME NEW m \in Motes, Receive(m)
      PROVE  seen'[n] >= seen[n] /\ ~(pc[n] = "relay" /\ pc'[n] = "idle")
  <2>1. /\ pc[m] = "idle"
        /\ \/ pc' = pc
           \/ \E to : pc' = Set(pc, m, to)
        /\ \/ seen' = seen
           \/ \E x : seen' = Set(seen, m, x)
    BY <1>4, Zenon DEF Receive
  <2>2. CASE n = m
    BY <1>4, <2>1, <2>2, ReceiveFlood
  <2>3. CASE n # m
    BY <1>1, <2>1, <2>3 DEF Set
  <2> QED
    BY <2>2, <2>3
<1>5. ASSUME NEW m \in Motes, Relay(m)
      PROVE  /\ seen' = seen
             /\ pc[n] = "relay" /\ pc'[n] = "idle" =>
                  <<seen[n], PktId(pkt[n])>> \notin relayed[n]
  <2>1. seen' = seen /\ pc' = Set(pc, m, "idle")
    BY <1>5 DEF Relay, Idle
  <2>2. n # m => pc'[n] = pc[n]
    BY <1>1, <2>1 DEF Set
  <2> QED
    BY <1>5, <2>1, <2>2, RelayFlood
<1>6. ASSUME NEW m \in Motes,
             \/ Count(m) \/ StoreCount(m) \/ Uncount(m) \/ StoreUncount(m)
             \/ Update(m) \/ Toggle(m) \/ Commit(m)
      PROVE  seen' = seen /\ ~(pc[n] = "relay" /\ pc'[n] = "idle")
  <2>1. TaskFrame(m)
    BY <1>6, TaskFrames
  <2>2. seen' = seen /\ pc[m] # "relay" /\ (n # m => pc'[n] = pc[n])
    BY <1>6, <2>1 DEF TaskFrame, SameAt, Count, StoreCount, Uncount, StoreUncount, Update,
       Toggle, Commit, Goto
  <2> QED
    BY <2>2
<1>7. CASE UNCHANGED vars
  BY <1>1, <1>7 DEF vars, ghosts, taskVars
<1> QED
  BY <1>1, <1>2, <1>3, <1>4, <1>5, <1>6, <1>7 DEF Next, Interrupt, Task

\* A mote never has as many bursts to catch up as there were, however the
\* bursts it missed, the interrupts that catch up and the two counters that
\* wrap come together, as long as packets are Timely and no interrupt falls
\* into the window of the task.
THEOREM MissedCorrect == Spec /\ []Timely => []MissedCounts
<1>1. TypeInv /\ FloodInv => MissedCounts
  BY FloodProps
<1>2. TypeInv /\ FloodInv /\ Timely /\ [Next]_vars => FloodInv'
  BY FloodStep
<1> QED
  BY <1>1, <1>2, TypeInit, TypeStep, FloodInit, PTL DEF Spec

\* light.c:221 and light.c:287 do what their comment says: of the packets
\* that are Timely, none of an earlier burst takes a mote back.
THEOREM BurstsCorrect == Spec /\ []Timely => BurstsAdvance
<1> DEFINE Advance == \A m \in Motes : seen'[m] >= seen[m]
<1>1. TypeInv /\ FloodInv /\ Timely /\ [Next]_vars => FloodInv' /\ [Advance]_vars
  BY FloodStep, FloodSteps
<1>2. BurstsAdvance <=> [][Advance]_vars
  BY DEF BurstsAdvance
<1> QED
  BY <1>1, <1>2, TypeInit, TypeStep, FloodInit, PTL DEF Spec

\* light.c:294: while packets are Timely, the map of the
\* packets of the last burst is enough for a mote to relay each once.
THEOREM RelayCorrect == Spec /\ []Timely => RelayOnce
<1> DEFINE Once == \A m \in Motes :
                     pc[m] = "relay" /\ pc'[m] = "idle" =>
                       <<seen[m], PktId(pkt[m])>> \notin relayed[m]
<1>1. TypeInv /\ FloodInv /\ Timely /\ [Next]_vars => FloodInv' /\ [Once]_vars
  BY FloodStep, FloodSteps
<1>2. RelayOnce <=> [][Once]_vars
  BY DEF RelayOnce
<1> QED
  BY <1>1, <1>2, TypeInit, TypeStep, FloodInit, PTL DEF Spec

=============================================================================
