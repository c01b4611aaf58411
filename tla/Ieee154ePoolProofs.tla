------------------------- MODULE Ieee154ePoolProofs -------------------------
(***************************************************************************)
(* Proofs about the packets of module Ieee154e: who owns the buffers of    *)
(* the pool while interrupts and tasks interleave.                         *)
(***************************************************************************)
EXTENDS Ieee154eControlProofs

USE QueueAssumption, MoteAssumption

-----------------------------------------------------------------------------
(***************************************************************************)
(* The inductive invariant.  To the properties of Ieee154e it adds what    *)
(* they rest on: what waits for the MAC is ready for it, there is no EB    *)
(* before the mote has a rank (so that the removal of all EBs in           *)
(* sixtop_sendEB finds none), and the running task owns the buffers it     *)
(* points to, whatever the interrupts do.                                  *)
(***************************************************************************)

QueuedAreReady ==
  \A b \in Buffers :
    queue[b].owner = "SIXTOP_TO_IEEE802154E"
      => /\ queue[b].creator \in {"SIXTOP", "LIGHT"}
         /\ queue[b].retries = 1

EbsNeedRank ==
  hasRank \/ \A b \in Buffers : queue[b].creator # "SIXTOP"

TaskHolds ==
  /\ task = "idle" <=> msg = Null
  /\ task = "send" <=> pkt # Null
  /\ msg # Null => queue[msg].owner \in {"SIXTOP", "NEIGHBORS", "LIGHT"}
  /\ pkt # Null => queue[pkt].owner = "OPENQUEUE" /\ queue[pkt].creator = "LIGHT"

PoolInv ==
  /\ MacOwnsDataToSend /\ QueuedAreReady /\ EbsNeedRank
  /\ TaskHolds /\ NoBufferStranded
  /\ OneTaskPerPacket /\ NoCritical

-----------------------------------------------------------------------------
(***************************************************************************)
(* Counting the packets handed up.                                         *)
(***************************************************************************)

LEMMA BuffersFinite == \A S \in SUBSET Buffers : IsFiniteSet(S)
<1>1. 0 \in Int /\ QUEUELENGTH - 1 \in Int
  OBVIOUS
<1>2. IsFiniteSet(Buffers)
  BY <1>1, FS_Interval DEF Buffers
<1> QED BY <1>2, FS_Subset

LEMMA OneMore ==
  ASSUME NEW S \in SUBSET Buffers, NEW b \in Buffers, b \notin S
  PROVE  Cardinality(S \cup {b}) = Cardinality(S) + 1
  BY BuffersFinite, FS_AddElement

LEMMA OneLess ==
  ASSUME NEW S \in SUBSET Buffers, NEW b \in S
  PROVE  Cardinality(S \ {b}) = Cardinality(S) - 1
  BY BuffersFinite, FS_RemoveElement

LEMMA SomeCounted ==
  ASSUME NEW S \in SUBSET Buffers, Cardinality(S) > 0
  PROVE  S # {}
  BY FS_EmptySet

\* A received packet and a sent one are different buffers of the pool.
LEMMA PacketSets ==
  /\ ReceivedPackets(queue) =
       {b \in Buffers : /\ queue[b].owner = "IEEE802154E_TO_SIXTOP"
                        /\ queue[b].creator = "IEEE802154E"}
  /\ SentPackets(queue) =
       {b \in Buffers : /\ queue[b].owner = "IEEE802154E_TO_SIXTOP"
                        /\ queue[b].creator # "IEEE802154E"}
  BY DEF ReceivedPackets, SentPackets, OwnedBy

LEMMA PacketSetsNext ==
  /\ ReceivedPackets(queue)' =
       {b \in Buffers : /\ queue'[b].owner = "IEEE802154E_TO_SIXTOP"
                        /\ queue'[b].creator = "IEEE802154E"}
  /\ SentPackets(queue)' =
       {b \in Buffers : /\ queue'[b].owner = "IEEE802154E_TO_SIXTOP"
                        /\ queue'[b].creator # "IEEE802154E"}
  BY DEF ReceivedPackets, SentPackets, OwnedBy

-----------------------------------------------------------------------------
(***************************************************************************)
(* What one interrupt does to the pool is one of four things.              *)
(***************************************************************************)

TaskKept == UNCHANGED taskVars

\* The MAC and the packets handed up are left alone.
PoolKept ==
  /\ UNCHANGED <<queue, dataToSend, rxTasks, txTasks>>
  /\ state' \in TxStates <=> state \in TxStates

\* The packet of the slot goes up.
PacketBack ==
  /\ dataToSend \in Buffers
  /\ \E e \in Entries :
       /\ queue' = [queue EXCEPT ![dataToSend] = e]
       /\ e.owner = "IEEE802154E_TO_SIXTOP"
       /\ e.creator = queue[dataToSend].creator
  /\ dataToSend' = Null /\ state' \notin TxStates
  /\ txTasks' = txTasks + 1
  /\ UNCHANGED rxTasks

\* A free buffer takes a received frame.
FrameUp ==
  /\ dataToSend = Null
  /\ \E b \in FreeBuffers(queue), k \in Kinds : queue' = [queue EXCEPT ![b] = Received(k)]
  /\ dataToSend' = Null /\ state' \notin TxStates
  /\ rxTasks' = rxTasks + 1
  /\ UNCHANGED txTasks

\* Free buffers take new packets and the slot may start with one.
SlotStarts ==
  /\ dataToSend = Null
  /\ \E q \in [Buffers -> Entries] :
       /\ \A b \in Buffers :
            \/ q[b] = queue[b]
            \/ /\ queue[b].owner = "NULL"
               /\ q[b] = HandedDown("LIGHT") \/ (hasRank /\ q[b] = HandedDown("SIXTOP"))
       /\ \/ /\ dataToSend' = Null /\ state' \notin TxStates
             /\ queue' = q
          \/ /\ dataToSend' \in OwnedBy(q, "SIXTOP_TO_IEEE802154E")
             /\ state' \in TxStates
             /\ queue' = [q EXCEPT ![dataToSend'].owner = "IEEE802154E"]
  /\ UNCHANGED <<rxTasks, txTasks>>

\* The life of the buffers that PacketPool describes, in one step; and the
\* packet the MAC keeps is not touched.
PhasesMove ==
  \A b \in Buffers :
    LET old == PhaseOf(queue[b])
        new == PhaseOf(queue'[b])
    IN /\ new = old \/ <<old, new>> \in Pool!Moves
       /\ old = "mac" /\ new = "mac" => queue'[b] = queue[b]

LEMMA PoolKeptStep ==
  ASSUME TypeOK, PoolInv, TaskKept, PoolKept
  PROVE  PoolInv' /\ PhasesMove
<1>1. PoolInv'
  BY DEF PoolInv, TaskKept, taskVars, PoolKept, MacOwnsDataToSend, QueuedAreReady,
         EbsNeedRank, TaskHolds, NoBufferStranded, OneTaskPerPacket, NoCritical,
         OwnedBy, ReceivedPackets, SentPackets
<1>2. PhasesMove
  BY DEF PoolKept, PhasesMove
<1> QED BY <1>1, <1>2

LEMMA PacketBackStep ==
  ASSUME TypeOK, PoolInv, TaskKept, PacketBack
  PROVE  PoolInv' /\ PhasesMove
<1> DEFINE d == dataToSend
<1>1. PICK e \in Entries :
        /\ queue' = [queue EXCEPT ![d] = e]
        /\ e.owner = "IEEE802154E_TO_SIXTOP"
        /\ e.creator = queue[d].creator
  BY DEF PacketBack
<1>2. d \in Buffers /\ d # Null /\ dataToSend' = Null /\ state' \notin TxStates
  BY NullIsNoBuffer DEF PacketBack
<1>3. queue[d].owner = "IEEE802154E" /\ queue[d].creator \in {"SIXTOP", "LIGHT"}
  BY <1>2 DEF PoolInv, MacOwnsDataToSend, OwnedBy
<1>4. /\ queue'[d].owner = "IEEE802154E_TO_SIXTOP"
      /\ queue'[d].creator = queue[d].creator /\ queue'[d].creator # "IEEE802154E"
      /\ \A b \in Buffers : b # d => queue'[b] = queue[b]
  BY <1>1, <1>2, <1>3 DEF TypeOK
<1>5. MacOwnsDataToSend'
  BY <1>2, <1>4 DEF PoolInv, MacOwnsDataToSend, OwnedBy
<1>6. QueuedAreReady' /\ EbsNeedRank' /\ NoBufferStranded' /\ NoCritical'
  BY <1>2, <1>3, <1>4
     DEF PoolInv, TaskKept, taskVars, QueuedAreReady, EbsNeedRank, NoBufferStranded, NoCritical
<1>7. TaskHolds'
  <2>1. msg # d /\ pkt # d
    BY <1>2, <1>3 DEF PoolInv, TaskHolds
  <2> QED BY <1>4, <2>1 DEF PoolInv, TaskKept, taskVars, TaskHolds, TypeOK, Pointers
<1>8. OneTaskPerPacket'
  <2>1. ReceivedPackets(queue)' = ReceivedPackets(queue)
    BY <1>2, <1>3, <1>4, PacketSets, PacketSetsNext
  <2>2. SentPackets(queue)' = SentPackets(queue) \cup {d} /\ d \notin SentPackets(queue)
    BY <1>2, <1>3, <1>4, PacketSets, PacketSetsNext
  <2>3. Cardinality(SentPackets(queue) \cup {d}) = Cardinality(SentPackets(queue)) + 1
    BY <1>2, <2>2, PacketSets, OneMore
  <2>4. rxTasks' = rxTasks /\ txTasks' = txTasks + 1
    BY DEF PacketBack
  <2> QED BY <2>1, <2>2, <2>3, <2>4 DEF PoolInv, OneTaskPerPacket
<1>9. PhasesMove
  BY <1>2, <1>3, <1>4 DEF PhasesMove, PhaseOf, Pool!Moves
<1> QED BY <1>5, <1>6, <1>7, <1>8, <1>9 DEF PoolInv

LEMMA FrameUpStep ==
  ASSUME TypeOK, PoolInv, TaskKept, FrameUp
  PROVE  PoolInv' /\ PhasesMove
<1>1. PICK d \in FreeBuffers(queue), k \in Kinds : queue' = [queue EXCEPT ![d] = Received(k)]
  BY DEF FrameUp
<1>2. d \in Buffers /\ queue[d].owner = "NULL"
  BY DEF FreeBuffers
<1>3. dataToSend = Null /\ dataToSend' = Null /\ state' \notin TxStates
  BY DEF FrameUp
<1>4. /\ queue'[d].owner = "IEEE802154E_TO_SIXTOP" /\ queue'[d].creator = "IEEE802154E"
      /\ \A b \in Buffers : b # d => queue'[b] = queue[b]
  BY <1>1, <1>2 DEF TypeOK, Received
<1>5. MacOwnsDataToSend'
  BY <1>3, <1>4 DEF PoolInv, MacOwnsDataToSend, OwnedBy
<1>6. QueuedAreReady' /\ EbsNeedRank' /\ NoBufferStranded' /\ NoCritical'
  BY <1>2, <1>4
     DEF PoolInv, TaskKept, taskVars, QueuedAreReady, EbsNeedRank, NoBufferStranded, NoCritical
<1>7. TaskHolds'
  <2>1. msg # d /\ pkt # d
    BY <1>2, NullIsNoBuffer DEF PoolInv, TaskHolds
  <2> QED BY <1>4, <2>1 DEF PoolInv, TaskKept, taskVars, TaskHolds, TypeOK, Pointers
<1>8. OneTaskPerPacket'
  <2>1. SentPackets(queue)' = SentPackets(queue)
    BY <1>2, <1>4, PacketSets, PacketSetsNext
  <2>2. /\ ReceivedPackets(queue)' = ReceivedPackets(queue) \cup {d}
        /\ d \notin ReceivedPackets(queue)
    BY <1>2, <1>4, PacketSets, PacketSetsNext
  <2>3. Cardinality(ReceivedPackets(queue) \cup {d}) = Cardinality(ReceivedPackets(queue)) + 1
    BY <1>2, <2>2, PacketSets, OneMore
  <2>4. rxTasks' = rxTasks + 1 /\ txTasks' = txTasks
    BY DEF FrameUp
  <2> QED BY <2>1, <2>2, <2>3, <2>4 DEF PoolInv, OneTaskPerPacket
<1>9. PhasesMove
  BY <1>2, <1>4 DEF PhasesMove, PhaseOf, Pool!Moves
<1> QED BY <1>5, <1>6, <1>7, <1>8, <1>9 DEF PoolInv

LEMMA SlotStartsStep ==
  ASSUME TypeOK, PoolInv, TaskKept, SlotStarts
  PROVE  PoolInv' /\ PhasesMove
<1> DEFINE d == dataToSend'
<1>1. PICK q \in [Buffers -> Entries] :
        /\ \A b \in Buffers :
             \/ q[b] = queue[b]
             \/ /\ queue[b].owner = "NULL"
                /\ q[b] = HandedDown("LIGHT") \/ (hasRank /\ q[b] = HandedDown("SIXTOP"))
        /\ \/ /\ d = Null /\ state' \notin TxStates
              /\ queue' = q
           \/ /\ d \in OwnedBy(q, "SIXTOP_TO_IEEE802154E")
              /\ state' \in TxStates
              /\ queue' = [q EXCEPT ![d].owner = "IEEE802154E"]
  BY DEF SlotStarts
<1>2. dataToSend = Null /\ \A b \in Buffers : queue[b].owner # "IEEE802154E"
  BY DEF SlotStarts, PoolInv, MacOwnsDataToSend, OwnedBy
\* What was filled is ready, and the other buffers are as they were.
<1>3. ASSUME NEW b \in Buffers
      PROVE  \/ q[b] = queue[b]
             \/ /\ queue[b].owner = "NULL"
                /\ q[b].owner = "SIXTOP_TO_IEEE802154E" /\ q[b].retries = 1
                /\ q[b].creator = "LIGHT" \/ (hasRank /\ q[b].creator = "SIXTOP")
  BY <1>1 DEF HandedDown
<1>4. \A b \in Buffers :
        q[b].owner = "SIXTOP_TO_IEEE802154E"
          => q[b].creator \in {"SIXTOP", "LIGHT"} /\ q[b].retries = 1
  BY <1>3 DEF PoolInv, QueuedAreReady
\* The packet of the slot is one of those that were ready.
<1>5. /\ d = Null <=> state' \notin TxStates
      /\ d # Null => /\ d \in Buffers /\ q[d].owner = "SIXTOP_TO_IEEE802154E"
                     /\ queue'[d].owner = "IEEE802154E"
                     /\ queue'[d].creator = q[d].creator
                     /\ queue'[d].retries = q[d].retries
      /\ \A b \in Buffers : b # d => queue'[b] = q[b]
  <2>1. CASE d = Null /\ state' \notin TxStates /\ queue' = q
    BY <2>1
  <2>2. CASE /\ d \in OwnedBy(q, "SIXTOP_TO_IEEE802154E")
             /\ state' \in TxStates
             /\ queue' = [q EXCEPT ![d].owner = "IEEE802154E"]
    <3>1. d \in Buffers /\ q[d].owner = "SIXTOP_TO_IEEE802154E" /\ d # Null
      BY <2>2, NullIsNoBuffer DEF OwnedBy
    <3>2. queue' = [q EXCEPT ![d] = [q[d] EXCEPT !.owner = "IEEE802154E"]]
      BY <2>2
    <3>3. /\ queue'[d] = [q[d] EXCEPT !.owner = "IEEE802154E"]
          /\ \A b \in Buffers : b # d => queue'[b] = q[b]
      BY <3>1, <3>2
    <3>4. q[d] \in Entries
      BY <3>1
    <3>5. /\ queue'[d].owner = "IEEE802154E"
          /\ queue'[d].creator = q[d].creator
          /\ queue'[d].retries = q[d].retries
      BY <3>3, <3>4 DEF Entries
    <3> QED BY <2>2, <3>1, <3>3, <3>5
  <2> QED BY <1>1, <2>1, <2>2
<1>6. MacOwnsDataToSend'
  <2>1. \A b \in Buffers : q[b].owner # "IEEE802154E"
    BY <1>2, <1>3
  <2>2. OwnedBy(queue, "IEEE802154E")' = (IF d = Null THEN {} ELSE {d})
    BY <1>5, <2>1, NullIsNoBuffer DEF OwnedBy
  <2> QED BY <1>4, <1>5, <2>2 DEF MacOwnsDataToSend
\* A buffer is as it was, or it went from free or ready to ready or the MAC.
<1>7. ASSUME NEW b \in Buffers
      PROVE  \/ queue'[b] = queue[b]
             \/ /\ queue[b].owner \in {"NULL", "SIXTOP_TO_IEEE802154E"}
                /\ \/ queue'[b].owner = "SIXTOP_TO_IEEE802154E" /\ queue'[b].retries = 1
                   \/ queue'[b].owner = "IEEE802154E"
                /\ \/ queue'[b].creator = "LIGHT"
                   \/ queue'[b].creator = "SIXTOP" /\ (hasRank \/ queue[b].creator = "SIXTOP")
  <2>1. CASE b # d
    <3>1. queue'[b] = q[b]
      BY <1>5, <2>1
    <3> QED BY <1>3, <3>1
  <2>2. CASE b = d
    <3>1. /\ q[b].owner = "SIXTOP_TO_IEEE802154E"
          /\ queue'[b].owner = "IEEE802154E" /\ queue'[b].creator = q[b].creator
      BY <1>5, <2>2, NullIsNoBuffer
    <3>2. q[b].creator \in {"SIXTOP", "LIGHT"}
      BY <1>4, <3>1
    <3>3. CASE q[b] = queue[b]
      BY <3>1, <3>2, <3>3
    <3>4. CASE q[b] # queue[b]
      BY <1>3, <3>1, <3>4
    <3> QED BY <3>3, <3>4
  <2> QED BY <2>1, <2>2
<1>8. hasRank' = hasRank /\ task' = task /\ msg' = msg /\ pkt' = pkt /\ critical' = critical
  BY DEF TaskKept, taskVars
<1>9. QueuedAreReady' /\ EbsNeedRank'
  <2>1. QueuedAreReady'
    BY <1>7 DEF PoolInv, QueuedAreReady
  <2>2. EbsNeedRank'
    BY <1>7, <1>8 DEF PoolInv, EbsNeedRank
  <2> QED BY <2>1, <2>2
<1>10. NoBufferStranded' /\ NoCritical'
  BY <1>7, <1>8 DEF PoolInv, NoBufferStranded, NoCritical
<1>11. TaskHolds'
  <2>1. ASSUME NEW b \in Buffers,
               queue[b].owner \in {"OPENQUEUE", "SIXTOP", "NEIGHBORS", "LIGHT"}
        PROVE  queue'[b] = queue[b]
    BY <1>7, <2>1
  <2> QED BY <1>8, <2>1 DEF PoolInv, TaskHolds, TypeOK, Pointers
<1>12. OneTaskPerPacket'
  <2>1. ASSUME NEW b \in Buffers
        PROVE  /\ queue'[b].owner = "IEEE802154E_TO_SIXTOP"
                    <=> queue[b].owner = "IEEE802154E_TO_SIXTOP"
               /\ queue[b].owner = "IEEE802154E_TO_SIXTOP"
                    => queue'[b].creator = queue[b].creator
    BY <1>7
  <2>2. /\ ReceivedPackets(queue)' = ReceivedPackets(queue)
        /\ SentPackets(queue)' = SentPackets(queue)
    BY <2>1, PacketSets, PacketSetsNext
  <2> QED BY <2>2 DEF SlotStarts, PoolInv, OneTaskPerPacket
<1>13. PhasesMove
  BY <1>7 DEF PhasesMove, PhaseOf, Pool!Moves
<1> QED BY <1>6, <1>9, <1>10, <1>11, <1>12, <1>13 DEF PoolInv

-----------------------------------------------------------------------------
(***************************************************************************)
(* Every interrupt does one of the four.                                   *)
(***************************************************************************)

\* The packet the MAC owns has one transmission left: endSlot hands it up.
LEMMA EndSlotEffect ==
  ASSUME TypeOK, PoolInv, endSlot, UNCHANGED rxTasks
  PROVE  PoolKept \/ PacketBack
<1>1. dataToSend' = Null /\ state' \notin TxStates
  BY DEF endSlot, Sleep, TxStates
<1>2. CASE dataToSend = Null
  BY <1>1, <1>2 DEF endSlot, PoolKept, PoolInv, MacOwnsDataToSend
<1>3. CASE dataToSend # Null
  <2> DEFINE e == [queue[dataToSend] EXCEPT !.retries = 0, !.owner = "IEEE802154E_TO_SIXTOP"]
  <2>1. dataToSend \in Buffers /\ queue[dataToSend] \in Entries
    BY <1>3 DEF TypeOK, Pointers
  <2>2. queue[dataToSend].retries = 1
    BY <1>3 DEF PoolInv, MacOwnsDataToSend
  <2>3. Decremented(queue, dataToSend) =
          [queue EXCEPT ![dataToSend] = [queue[dataToSend] EXCEPT !.retries = 0]]
    BY <2>1, <2>2 DEF Decremented, TypeOK
  <2>4. Decremented(queue, dataToSend)[dataToSend].retries = 0
    BY <2>1, <2>3 DEF Entries, TypeOK
  <2>5. /\ queue' = HandUp(Decremented(queue, dataToSend), dataToSend)
        /\ txTasks' = txTasks + 1
    BY <1>3, <2>4 DEF endSlot
  <2>6. queue' = [queue EXCEPT ![dataToSend] = e]
    BY <2>1, <2>3, <2>5 DEF HandUp, TypeOK
  <2>7. e \in Entries /\ e.owner = "IEEE802154E_TO_SIXTOP"
        /\ e.creator = queue[dataToSend].creator
    <3>1. 0 \in 0 .. 255 /\ "IEEE802154E_TO_SIXTOP" \in Components
      BY DEF Components, AboveMac
    <3> QED BY <2>1, <3>1 DEF Entries
  <2> QED BY <1>1, <2>1, <2>5, <2>6, <2>7 DEF PacketBack
<1> QED BY <1>2, <1>3

LEMMA SentFrameEffect ==
  ASSUME TypeOK, PoolInv, EndOfSentFrame
  PROVE  PacketBack
<1> DEFINE e == [queue[dataToSend] EXCEPT !.owner = "IEEE802154E_TO_SIXTOP"]
<1>1. dataToSend # Null
  BY DEF EndOfSentFrame, PoolInv, MacOwnsDataToSend, TxStates
<1>2. dataToSend \in Buffers /\ queue[dataToSend] \in Entries
  BY <1>1 DEF TypeOK, Pointers
<1>3. queue' = [queue EXCEPT ![dataToSend] = e]
  BY <1>2 DEF EndOfSentFrame, HandUp, TypeOK
<1>4. e \in Entries /\ e.owner = "IEEE802154E_TO_SIXTOP"
      /\ e.creator = queue[dataToSend].creator
  BY <1>2 DEF Entries, Components, AboveMac
<1> QED BY <1>2, <1>3, <1>4 DEF EndOfSentFrame, Sleep, PacketBack, TxStates

\* The buffer of a received frame was free.
LEMMA NewBufferIsFree ==
  ASSUME FreePacketBuffer(queue, isSync, "IEEE802154E") # Null
  PROVE  FreePacketBuffer(queue, isSync, "IEEE802154E") \in FreeBuffers(queue)
<1>1. FreePacketBuffer(queue, isSync, "IEEE802154E") = First(FreeBuffers(queue))
  BY DEF FreePacketBuffer, AboveMac
<1>2. FreeBuffers(queue) \in SUBSET Buffers
  BY DEF FreeBuffers
<1> QED BY <1>1, <1>2, FirstFinds

LEMMA ReceivedFrameEffect ==
  ASSUME PoolInv, NEW frame \in Frames, EndOfReceivedFrame(frame)
  PROVE  PoolKept \/ FrameUp
<1>1. dataToSend = Null /\ state \notin TxStates
  BY DEF EndOfReceivedFrame, PoolInv, MacOwnsDataToSend, TxStates
<1>2. dataToSend' = Null /\ state' \notin TxStates /\ UNCHANGED txTasks
  BY DEF EndOfReceivedFrame, Sleep, TxStates
<1>3. frame.kind \in Kinds
  BY DEF Frames
<1> QED BY <1>1, <1>2, <1>3, NewBufferIsFree DEF EndOfReceivedFrame, PoolKept, FrameUp

LEMMA SearchingFrameEffect ==
  ASSUME ControlInv, PoolInv, NEW frame \in Frames, EndOfFrameSearching(frame)
  PROVE  PoolKept \/ FrameUp
<1>1. dataToSend = Null /\ state \notin TxStates
  BY DEF EndOfFrameSearching, ControlInv, StatesOfMode, PoolInv, MacOwnsDataToSend,
         SyncStates, TxStates
<1>2. frame.kind \in Kinds
  BY DEF Frames
<1>3. dataToSend' = Null /\ state' \notin TxStates /\ UNCHANGED txTasks
  BY <1>1 DEF EndOfFrameSearching, Sleep, TxStates
<1> QED BY <1>1, <1>2, <1>3, NewBufferIsFree DEF EndOfFrameSearching, PoolKept, FrameUp

\* The packets a slot may start with: new ones in free buffers, and if one is
\* sent it was ready.
LEMMA StartEffect ==
  ASSUME TypeOK, EbsNeedRank, NEW start \in Starts
  PROVE  /\ start[1] \in [Buffers -> Entries]
         /\ \A b \in Buffers :
              \/ start[1][b] = queue[b]
              \/ /\ queue[b].owner = "NULL"
                 /\ \/ start[1][b] = HandedDown("LIGHT")
                    \/ hasRank /\ start[1][b] = HandedDown("SIXTOP")
         /\ start[2] # Null => start[2] \in OwnedBy(start[1], "SIXTOP_TO_IEEE802154E")
<1> DEFINE Fills(q, r) ==
             \A b \in Buffers :
               \/ r[b] = q[b]
               \/ /\ q[b].owner = "NULL"
                  /\ r[b] = HandedDown("LIGHT") \/ (hasRank /\ r[b] = HandedDown("SIXTOP"))
<1>1. ASSUME NEW q \in Triggered(queue)
      PROVE  q \in [Buffers -> Entries] /\ Fills(queue, q)
  <2>1. CASE q = queue
    BY <2>1 DEF TypeOK
  <2>2. CASE q = Burst(queue)
    BY <2>2, EntryTypes DEF Burst, FreeBuffers, TypeOK
  <2> QED BY <2>1, <2>2 DEF Triggered
<1>2. ASSUME NEW q \in Triggered(queue)
      PROVE  Fills(queue, SendEB(q))
  <2>1. CASE ~hasRank
    <3>1. \A b \in Buffers : q[b].creator # "SIXTOP"
      BY <1>1, <2>1 DEF EbsNeedRank, HandedDown
    <3>2. SendEB(q) = [b \in Buffers |-> q[b]]
      BY <2>1, <3>1 DEF SendEB, RemoveAllCreatedBy
    <3> QED BY <1>1, <3>2
  <2>2. CASE hasRank /\ FreeBuffers(q) = {}
    BY <1>1, <2>2 DEF SendEB
  <2>3. CASE hasRank /\ FreeBuffers(q) # {}
    <3> DEFINE f == First(FreeBuffers(q))
    <3>1. f \in FreeBuffers(q)
      BY <2>3, FirstFinds DEF FreeBuffers
    <3>2. f \in Buffers /\ q[f].owner = "NULL"
      BY <3>1 DEF FreeBuffers
    <3>3. q[f] = queue[f] /\ queue[f].owner = "NULL"
      BY <1>1, <3>2 DEF HandedDown
    <3>4. SendEB(q) = [q EXCEPT ![f] = HandedDown("SIXTOP")]
      BY <2>3 DEF SendEB
    <3> HIDE DEF f
    <3>5. /\ SendEB(q)[f] = HandedDown("SIXTOP")
          /\ \A b \in Buffers : b # f => SendEB(q)[b] = q[b]
      BY <1>1, <3>2, <3>4
    <3> QED BY <1>1, <2>3, <3>3, <3>5
  <2> QED BY <2>1, <2>2, <2>3
<1>3. Fills(queue, start[1])
  BY <1>1, <1>2 DEF Starts
<1>4. start[2] \in {Null, MacGetEBPacket(start[1]), MacGetDataPacket(start[1])}
  BY DEF Starts
<1>5. /\ MacGetEBPacket(start[1]) # Null
           => MacGetEBPacket(start[1]) \in OwnedBy(start[1], "SIXTOP_TO_IEEE802154E")
      /\ MacGetDataPacket(start[1]) # Null
           => MacGetDataPacket(start[1]) \in OwnedBy(start[1], "SIXTOP_TO_IEEE802154E")
  <2> DEFINE Ready == OwnedBy(start[1], "SIXTOP_TO_IEEE802154E")
             Ebs   == {b \in Ready : start[1][b].creator = "SIXTOP"}
             Data  == {b \in Ready : start[1][b].creator # "SIXTOP"}
  <2>1. Ebs \in SUBSET Buffers /\ Data \in SUBSET Buffers
    BY DEF OwnedBy
  <2>2. (First(Ebs) # Null => First(Ebs) \in Ebs) /\ (First(Data) # Null => First(Data) \in Data)
    BY <2>1, FirstFinds
  <2> QED BY <2>2 DEF MacGetEBPacket, MacGetDataPacket
<1> QED BY <1>3, <1>4, <1>5, StartTypes DEF TypeOK

LEMMA NewSlotActiveEffect ==
  ASSUME TypeOK, PoolInv, NewSlotActive
  PROVE  SlotStarts
<1>1. PICK start \in Starts :
        /\ dataToSend' = start[2]
        /\ IF start[2] = Null
             THEN state' = "S_RXDATAOFFSET" /\ queue' = start[1]
             ELSE /\ state' = "S_TXDATAOFFSET"
                  /\ queue' = [start[1] EXCEPT ![start[2]].owner = "IEEE802154E"]
  BY DEF NewSlotActive
<1>2. dataToSend = Null /\ UNCHANGED <<rxTasks, txTasks>>
  BY DEF NewSlotActive, PoolInv, MacOwnsDataToSend, TxStates
<1>3. /\ start[1] \in [Buffers -> Entries]
      /\ \A b \in Buffers :
           \/ start[1][b] = queue[b]
           \/ /\ queue[b].owner = "NULL"
              /\ \/ start[1][b] = HandedDown("LIGHT")
                 \/ hasRank /\ start[1][b] = HandedDown("SIXTOP")
      /\ start[2] # Null => start[2] \in OwnedBy(start[1], "SIXTOP_TO_IEEE802154E")
  BY StartEffect DEF PoolInv
<1>4. \/ /\ dataToSend' = Null /\ state' \notin TxStates
         /\ queue' = start[1]
      \/ /\ dataToSend' \in OwnedBy(start[1], "SIXTOP_TO_IEEE802154E")
         /\ state' \in TxStates
         /\ queue' = [start[1] EXCEPT ![dataToSend'].owner = "IEEE802154E"]
  BY <1>1, <1>3 DEF TxStates
<1> QED BY <1>2, <1>3, <1>4 DEF SlotStarts

LEMMA OtherInterruptEffect ==
  ASSUME TypeOK, ControlInv, PoolInv, Interrupt, ~NewSlotActive
  PROVE  TaskKept /\ (PoolKept \/ PacketBack \/ FrameUp)
<1>1. CASE NewSlotSearching
  BY <1>1 DEF NewSlotSearching, TaskKept, PoolKept, ControlInv, StatesOfMode, TxStates, SyncStates
<1>2. CASE NewSlotDesync \/ NewSlotInactive \/ NewSlotOverrun
  BY <1>2, EndSlotEffect DEF NewSlotDesync, NewSlotInactive, NewSlotOverrun, TaskKept
<1>3. CASE TimerFires
  <2>1. CASE TimerStep
    <3>1. state' \in TxStates <=> state \in TxStates
      BY <2>1 DEF TimerStep, TimedSteps, TxStates
    <3> QED BY <1>3, <2>1, <3>1 DEF TimerFires, TimerStep, PoolKept, TaskKept
  <2> QED BY <1>3, <2>1, EndSlotEffect DEF TimerFires, TimerWatchdog, TaskKept
<1>4. CASE StartOfFrame
  <2>1. CASE UNCHANGED <<radioOn, dataToSend, queue, txTasks>> /\ ~endSlot
    <3>1. state' \in TxStates <=> state \in TxStates
      BY <1>4, <2>1 DEF StartOfFrame, TxStates
    <3> QED BY <1>4, <2>1, <3>1 DEF StartOfFrame, PoolKept, TaskKept
  <2> QED BY <1>4, <2>1, EndSlotEffect DEF StartOfFrame, TaskKept
<1>5. CASE EndOfFrame
  BY <1>5, SearchingFrameEffect, ReceivedFrameEffect, SentFrameEffect, EndSlotEffect
     DEF EndOfFrame, EndOfFrameSearching, EndOfReceivedFrame, EndOfSentFrame,
         EndOfUnexpectedFrame, TaskKept
<1> QED BY <1>1, <1>2, <1>3, <1>4, <1>5 DEF Interrupt, NewSlot

LEMMA InterruptEffect ==
  ASSUME TypeOK, ControlInv, PoolInv, Interrupt
  PROVE  TaskKept /\ (PoolKept \/ PacketBack \/ FrameUp \/ SlotStarts)
<1>1. CASE NewSlotActive
  BY <1>1, NewSlotActiveEffect DEF NewSlotActive, TaskKept
<1>2. CASE ~NewSlotActive
  BY <1>2, OtherInterruptEffect
<1> QED BY <1>1, <1>2

-----------------------------------------------------------------------------
(***************************************************************************)
(* The tasks.                                                              *)
(***************************************************************************)

\* A task that finds its packet in the pool becomes its owner.
LEMMA OwnerEffect ==
  ASSUME TypeOK, NEW b \in Buffers, NEW o, queue' = Owner(b, o)
  PROVE  /\ queue'[b].owner = o
         /\ queue'[b].creator = queue[b].creator /\ queue'[b].retries = queue[b].retries
         /\ \A c \in Buffers : c # b => queue'[c] = queue[c]
<1>1. queue' = [queue EXCEPT ![b] = [queue[b] EXCEPT !.owner = o]]
  BY DEF Owner
<1>2. queue[b] \in Entries
  BY DEF TypeOK
<1>3. /\ queue'[b] = [queue[b] EXCEPT !.owner = o]
      /\ \A c \in Buffers : c # b => queue'[c] = queue[c]
  BY <1>1 DEF TypeOK
<1> QED BY <1>2, <1>3 DEF Entries

LEMMA TakeReceivedStep ==
  ASSUME TypeOK, PoolInv, TakeReceived, UNCHANGED fsmVars
  PROVE  PoolInv' /\ PhasesMove
<1>1. rxTasks = Cardinality(ReceivedPackets(queue)) /\ rxTasks > 0
  BY DEF TakeReceived, PoolInv, OneTaskPerPacket
<1>2. ReceivedPackets(queue) \in SUBSET Buffers
  BY PacketSets
<1>3. msg' \in ReceivedPackets(queue)
  BY <1>1, <1>2, SomeCounted, FirstFinds DEF TakeReceived, SixtopGetReceivedPacket
<1>4. /\ msg' \in Buffers /\ msg' # Null
      /\ queue[msg'].owner = "IEEE802154E_TO_SIXTOP" /\ queue[msg'].creator = "IEEE802154E"
  BY <1>3, PacketSets, NullIsNoBuffer
<1>5. /\ queue' = Owner(msg', "SIXTOP")
      /\ task = "idle" /\ task' = "process"
      /\ rxTasks' = rxTasks - 1
      /\ UNCHANGED <<txTasks, pkt, hasRank, critical>>
  BY <1>4 DEF TakeReceived
<1>6. /\ queue'[msg'].owner = "SIXTOP"
      /\ queue'[msg'].creator = "IEEE802154E"
      /\ \A c \in Buffers : c # msg' => queue'[c] = queue[c]
  BY <1>4, <1>5, OwnerEffect
<1>7. MacOwnsDataToSend'
  BY <1>4, <1>6 DEF PoolInv, MacOwnsDataToSend, OwnedBy, fsmVars, TypeOK, Pointers
<1>8. QueuedAreReady' /\ EbsNeedRank' /\ NoCritical'
  BY <1>5, <1>6 DEF PoolInv, QueuedAreReady, EbsNeedRank, NoCritical
<1>9. TaskHolds' /\ NoBufferStranded'
  BY <1>4, <1>5, <1>6 DEF PoolInv, TaskHolds, NoBufferStranded
<1>10. OneTaskPerPacket'
  <2>1. SentPackets(queue)' = SentPackets(queue)
    BY <1>4, <1>6, PacketSets, PacketSetsNext
  <2>2. ReceivedPackets(queue)' = ReceivedPackets(queue) \ {msg'}
    BY <1>4, <1>6, PacketSets, PacketSetsNext
  <2>3. Cardinality(ReceivedPackets(queue) \ {msg'}) = Cardinality(ReceivedPackets(queue)) - 1
    BY <1>2, <1>3, OneLess
  <2> QED BY <1>5, <2>1, <2>2, <2>3 DEF PoolInv, OneTaskPerPacket
<1>11. PhasesMove
  BY <1>4, <1>6 DEF PhasesMove, PhaseOf, Pool!Moves
<1> QED BY <1>7, <1>8, <1>9, <1>10, <1>11 DEF PoolInv

LEMMA TakeSentStep ==
  ASSUME TypeOK, PoolInv, TakeSent, UNCHANGED fsmVars
  PROVE  PoolInv' /\ PhasesMove
<1>1. txTasks = Cardinality(SentPackets(queue)) /\ txTasks > 0
  BY DEF TakeSent, PoolInv, OneTaskPerPacket
<1>2. SentPackets(queue) \in SUBSET Buffers
  BY PacketSets
<1>3. msg' \in SentPackets(queue)
  BY <1>1, <1>2, SomeCounted, FirstFinds DEF TakeSent, SixtopGetSentPacket
<1>4. /\ msg' \in Buffers /\ msg' # Null
      /\ queue[msg'].owner = "IEEE802154E_TO_SIXTOP" /\ queue[msg'].creator # "IEEE802154E"
  BY <1>3, PacketSets, NullIsNoBuffer
<1>5. /\ queue' = Owner(msg', "SIXTOP")
      /\ task = "idle" /\ task' = "free"
      /\ txTasks' = txTasks - 1
      /\ UNCHANGED <<rxTasks, pkt, hasRank, critical>>
  BY <1>4 DEF TakeSent
<1>6. /\ queue'[msg'].owner = "SIXTOP"
      /\ queue'[msg'].creator = queue[msg'].creator
      /\ \A c \in Buffers : c # msg' => queue'[c] = queue[c]
  BY <1>4, <1>5, OwnerEffect
<1>7. MacOwnsDataToSend'
  BY <1>4, <1>6 DEF PoolInv, MacOwnsDataToSend, OwnedBy, fsmVars, TypeOK, Pointers
<1>8. QueuedAreReady' /\ EbsNeedRank' /\ NoCritical'
  BY <1>4, <1>5, <1>6 DEF PoolInv, QueuedAreReady, EbsNeedRank, NoCritical
<1>9. TaskHolds' /\ NoBufferStranded'
  BY <1>4, <1>5, <1>6 DEF PoolInv, TaskHolds, NoBufferStranded
<1>10. OneTaskPerPacket'
  <2>1. ReceivedPackets(queue)' = ReceivedPackets(queue)
    BY <1>4, <1>6, PacketSets, PacketSetsNext
  <2>2. SentPackets(queue)' = SentPackets(queue) \ {msg'}
    BY <1>4, <1>6, PacketSets, PacketSetsNext
  <2>3. Cardinality(SentPackets(queue) \ {msg'}) = Cardinality(SentPackets(queue)) - 1
    BY <1>2, <1>3, OneLess
  <2> QED BY <1>5, <2>1, <2>2, <2>3 DEF PoolInv, OneTaskPerPacket
<1>11. PhasesMove
  BY <1>4, <1>6 DEF PhasesMove, PhaseOf, Pool!Moves
<1> QED BY <1>7, <1>8, <1>9, <1>10, <1>11 DEF PoolInv

\* The other steps of a task change one buffer that neither the MAC has nor a
\* task waits for.
LEMMA HeldStep ==
  ASSUME TypeOK, PoolInv, UNCHANGED fsmVars, UNCHANGED <<rxTasks, txTasks>>,
         NEW b \in Buffers,
         queue[b].owner \notin {"IEEE802154E", "IEEE802154E_TO_SIXTOP"},
         queue'[b].owner \notin {"IEEE802154E", "IEEE802154E_TO_SIXTOP"},
         \A c \in Buffers : c # b => queue'[c] = queue[c]
  PROVE  MacOwnsDataToSend' /\ OneTaskPerPacket'
<1>1. MacOwnsDataToSend'
  <2>1. OwnedBy(queue, "IEEE802154E")' = OwnedBy(queue, "IEEE802154E")
    BY DEF OwnedBy
  <2>2. dataToSend # Null => dataToSend \in Buffers /\ dataToSend # b
    BY DEF PoolInv, MacOwnsDataToSend, OwnedBy, TypeOK, Pointers
  <2> QED BY <2>1, <2>2 DEF PoolInv, MacOwnsDataToSend, fsmVars
<1>2. OneTaskPerPacket'
  <2>1. /\ ReceivedPackets(queue)' = ReceivedPackets(queue)
        /\ SentPackets(queue)' = SentPackets(queue)
    BY PacketSets, PacketSetsNext
  <2> QED BY <2>1 DEF PoolInv, OneTaskPerPacket
<1> QED BY <1>1, <1>2

\* ProcessBeacon and ProcessData pass the packet from 6top to neighbors or
\* light, or leave it where it is.
LEMMA ProcessStep ==
  ASSUME TypeOK, PoolInv, ProcessBeacon \/ ProcessData, UNCHANGED fsmVars
  PROVE  PoolInv' /\ PhasesMove
<1>1. /\ task = "process" /\ task' \in {"forward", "free"}
      /\ hasRank' \in {hasRank, TRUE}
      /\ UNCHANGED <<rxTasks, txTasks, msg, pkt, critical>>
      /\ UNCHANGED queue \/ \E o \in {"NEIGHBORS", "LIGHT"} : queue' = Owner(msg, o)
  BY DEF ProcessBeacon, ProcessData
<1>2. msg \in Buffers /\ msg # Null /\ pkt = Null
      /\ queue[msg].owner \in {"SIXTOP", "NEIGHBORS", "LIGHT"}
  BY <1>1 DEF PoolInv, TaskHolds, TypeOK, Pointers
<1>3. /\ queue'[msg].owner \in {"SIXTOP", "NEIGHBORS", "LIGHT"}
      /\ queue'[msg].creator = queue[msg].creator
      /\ \A c \in Buffers : c # msg => queue'[c] = queue[c]
  <2>1. CASE UNCHANGED queue
    BY <1>2, <2>1
  <2>2. CASE \E o \in {"NEIGHBORS", "LIGHT"} : queue' = Owner(msg, o)
    BY <1>2, <2>2, OwnerEffect
  <2> QED BY <1>1, <2>1, <2>2
<1>4. MacOwnsDataToSend' /\ OneTaskPerPacket'
  BY <1>1, <1>2, <1>3, HeldStep
<1>5. QueuedAreReady' /\ EbsNeedRank' /\ NoCritical'
  <2>1. QueuedAreReady' /\ NoCritical'
    BY <1>1, <1>3 DEF PoolInv, QueuedAreReady, NoCritical
  <2>2. CASE hasRank
    BY <1>1, <2>1, <2>2 DEF EbsNeedRank
  <2>3. CASE ~hasRank
    <3>1. \A b \in Buffers : queue'[b].creator # "SIXTOP"
      BY <1>3, <2>3 DEF PoolInv, EbsNeedRank
    <3> QED BY <2>1, <3>1 DEF EbsNeedRank
  <2> QED BY <2>2, <2>3
<1>6. TaskHolds' /\ NoBufferStranded'
  BY <1>1, <1>2, <1>3 DEF PoolInv, TaskHolds, NoBufferStranded
<1>7. PhasesMove
  BY <1>2, <1>3 DEF PhasesMove, PhaseOf, Pool!Moves
<1> QED BY <1>4, <1>5, <1>6, <1>7 DEF PoolInv

LEMMA GetForwardStep ==
  ASSUME TypeOK, PoolInv, GetForward, UNCHANGED fsmVars
  PROVE  PoolInv' /\ PhasesMove
<1>1. task = "forward" /\ UNCHANGED <<rxTasks, txTasks, msg, hasRank, critical>>
  BY DEF GetForward
<1>2. msg \in Buffers /\ msg # Null /\ pkt = Null
      /\ queue[msg].owner \in {"SIXTOP", "NEIGHBORS", "LIGHT"}
  BY <1>1 DEF PoolInv, TaskHolds, TypeOK, Pointers
<1>3. CASE pkt' = Null
  <2>1. task' = "free" /\ UNCHANGED queue
    BY <1>3 DEF GetForward
  <2> QED BY <1>1, <1>2, <1>3, <2>1
          DEF PoolInv, fsmVars, MacOwnsDataToSend, QueuedAreReady, EbsNeedRank, TaskHolds,
              NoBufferStranded, OneTaskPerPacket, NoCritical, OwnedBy, ReceivedPackets,
              SentPackets, PhasesMove
<1>4. CASE pkt' # Null
  <2>1. task' = "send" /\ queue' = Claim(queue, pkt', "LIGHT")
    BY <1>4 DEF GetForward
  <2>2. pkt' \in Buffers /\ queue[pkt'].owner = "NULL"
    <3>1. pkt' = First(FreeBuffers(queue))
      BY <1>4 DEF GetForward, FreePacketBuffer
    <3>2. FreeBuffers(queue) \in SUBSET Buffers
      BY DEF FreeBuffers
    <3>3. pkt' \in FreeBuffers(queue)
      BY <1>4, <3>1, <3>2, FirstFinds
    <3> QED BY <3>3 DEF FreeBuffers
  <2>3. /\ queue'[pkt'].owner = "OPENQUEUE" /\ queue'[pkt'].creator = "LIGHT"
        /\ \A c \in Buffers : c # pkt' => queue'[c] = queue[c]
    <3>1. queue' = [queue EXCEPT ![pkt'] =
                      [queue[pkt'] EXCEPT !.creator = "LIGHT", !.owner = "OPENQUEUE"]]
      BY <2>1, <2>2 DEF Claim
    <3>2. queue[pkt'] \in Entries
      BY <2>2 DEF TypeOK
    <3>3. /\ queue'[pkt'] = [queue[pkt'] EXCEPT !.creator = "LIGHT", !.owner = "OPENQUEUE"]
          /\ \A c \in Buffers : c # pkt' => queue'[c] = queue[c]
      BY <2>2, <3>1 DEF TypeOK
    <3> QED BY <3>2, <3>3 DEF Entries
  <2>4. MacOwnsDataToSend' /\ OneTaskPerPacket'
    BY <1>1, <2>2, <2>3, HeldStep
  <2>5. QueuedAreReady' /\ EbsNeedRank' /\ NoCritical'
    BY <1>1, <2>3 DEF PoolInv, QueuedAreReady, EbsNeedRank, NoCritical
  <2>6. TaskHolds' /\ NoBufferStranded'
    <3>1. msg # pkt'
      BY <1>2, <2>2
    <3> QED BY <1>1, <1>2, <1>4, <2>1, <2>3, <3>1, NullIsNoBuffer
            DEF PoolInv, TaskHolds, NoBufferStranded
  <2>7. PhasesMove
    BY <2>2, <2>3 DEF PhasesMove, PhaseOf, Pool!Moves
  <2> QED BY <2>4, <2>5, <2>6, <2>7 DEF PoolInv
<1> QED BY <1>3, <1>4

LEMMA SendForwardStep ==
  ASSUME TypeOK, PoolInv, SendForward, UNCHANGED fsmVars
  PROVE  PoolInv' /\ PhasesMove
<1>1. /\ task = "send" /\ task' = "free" /\ pkt' = Null
      /\ UNCHANGED <<rxTasks, txTasks, msg, hasRank, critical>>
  BY DEF SendForward
<1>2. /\ pkt \in Buffers /\ queue[pkt].owner = "OPENQUEUE" /\ queue[pkt].creator = "LIGHT"
      /\ msg \in Buffers /\ msg # Null
      /\ queue[msg].owner \in {"SIXTOP", "NEIGHBORS", "LIGHT"}
  BY <1>1 DEF PoolInv, TaskHolds, TypeOK, Pointers
<1>3. /\ queue'[pkt].owner = "SIXTOP_TO_IEEE802154E"
      /\ queue'[pkt].creator = "LIGHT" /\ queue'[pkt].retries = 1
      /\ \A c \in Buffers : c # pkt => queue'[c] = queue[c]
  <2>1. queue' = [queue EXCEPT ![pkt] =
                    [queue[pkt] EXCEPT !.retries = 1, !.owner = "SIXTOP_TO_IEEE802154E"]]
    BY <1>2 DEF SendForward
  <2>2. queue[pkt] \in Entries
    BY <1>2 DEF TypeOK
  <2>3. /\ queue'[pkt] =
             [queue[pkt] EXCEPT !.retries = 1, !.owner = "SIXTOP_TO_IEEE802154E"]
        /\ \A c \in Buffers : c # pkt => queue'[c] = queue[c]
    BY <1>2, <2>1 DEF TypeOK
  <2> QED BY <1>2, <2>2, <2>3 DEF Entries
<1>4. MacOwnsDataToSend' /\ OneTaskPerPacket'
  BY <1>1, <1>2, <1>3, HeldStep
<1>5. QueuedAreReady' /\ EbsNeedRank' /\ NoCritical'
  BY <1>1, <1>3 DEF PoolInv, QueuedAreReady, EbsNeedRank, NoCritical
<1>6. TaskHolds' /\ NoBufferStranded'
  <2>1. msg # pkt
    BY <1>2
  <2> QED BY <1>1, <1>2, <1>3, <2>1 DEF PoolInv, TaskHolds, NoBufferStranded
<1>7. PhasesMove
  BY <1>2, <1>3 DEF PhasesMove, PhaseOf, Pool!Moves
<1> QED BY <1>4, <1>5, <1>6, <1>7 DEF PoolInv

LEMMA FreeMsgStep ==
  ASSUME TypeOK, PoolInv, FreeMsg, UNCHANGED fsmVars
  PROVE  PoolInv' /\ PhasesMove
<1>1. /\ task = "free" /\ task' = "idle" /\ msg' = Null
      /\ UNCHANGED <<rxTasks, txTasks, pkt, hasRank>>
  BY DEF FreeMsg
<1>2. /\ msg \in Buffers /\ pkt = Null
      /\ queue[msg].owner \in {"SIXTOP", "NEIGHBORS", "LIGHT"}
  BY <1>1 DEF PoolInv, TaskHolds, TypeOK, Pointers
<1>3. /\ queue'[msg].owner = "NULL" /\ queue'[msg].creator = "NULL"
      /\ \A c \in Buffers : c # msg => queue'[c] = queue[c]
  BY <1>2 DEF FreeMsg, FreePacket, ResetEntry, TypeOK
<1>4. MacOwnsDataToSend' /\ OneTaskPerPacket'
  BY <1>1, <1>2, <1>3, HeldStep
<1>5. QueuedAreReady' /\ EbsNeedRank'
  BY <1>1, <1>3 DEF PoolInv, QueuedAreReady, EbsNeedRank
<1>6. NoCritical'
  BY <1>2 DEF PoolInv, NoCritical, FreeMsg
<1>7. TaskHolds' /\ NoBufferStranded'
  BY <1>1, <1>2, <1>3, NullIsNoBuffer DEF PoolInv, TaskHolds, NoBufferStranded
<1>8. PhasesMove
  BY <1>2, <1>3 DEF PhasesMove, PhaseOf, Pool!Moves
<1> QED BY <1>4, <1>5, <1>6, <1>7, <1>8 DEF PoolInv

-----------------------------------------------------------------------------
(***************************************************************************)
(* The theorem.                                                            *)
(***************************************************************************)

LEMMA PoolInit == Init => PoolInv
<1> SUFFICES ASSUME Init PROVE PoolInv
  OBVIOUS
<1>1. \A b \in Buffers : queue[b].owner = "NULL" /\ queue[b].creator = "NULL"
  BY DEF Init, ResetEntry
<1>2. ReceivedPackets(queue) = {} /\ SentPackets(queue) = {}
  BY <1>1, PacketSets
<1>3. OneTaskPerPacket
  BY <1>2, FS_EmptySet DEF Init, OneTaskPerPacket
<1>4. MacOwnsDataToSend
  BY <1>1 DEF Init, MacOwnsDataToSend, OwnedBy, TxStates
<1> QED BY <1>1, <1>3, <1>4
        DEF Init, PoolInv, QueuedAreReady, EbsNeedRank, TaskHolds, NoBufferStranded, NoCritical

LEMMA PoolStep ==
  ASSUME TypeOK, ControlInv, PoolInv, [Next]_vars
  PROVE  PoolInv' /\ PhasesMove
<1>1. CASE Interrupt
  BY <1>1, InterruptEffect, PoolKeptStep, PacketBackStep, FrameUpStep, SlotStartsStep
<1>2. CASE Task
  <2>1. UNCHANGED fsmVars
    BY <1>2 DEF Task
  <2> QED BY <1>2, <2>1, TakeReceivedStep, ProcessStep, GetForwardStep, SendForwardStep,
             TakeSentStep, FreeMsgStep DEF Task
<1>3. CASE UNCHANGED vars
  <2>1. TaskKept /\ PoolKept
    BY <1>3 DEF vars, fsmVars, TaskKept, PoolKept
  <2> QED BY <2>1, PoolKeptStep
<1> QED BY <1>1, <1>2, <1>3 DEF Next

LEMMA PoolInvariant == Spec => []PoolInv
<1>1. Spec => [](TypeOK /\ ControlInv)
  BY TypeCorrect, ControlCorrect, PTL DEF ControlInv
<1> QED BY <1>1, PoolInit, PoolStep, PTL DEF Spec

\* Every buffer has one owner at any time: the MAC owns its packet of the slot
\* and no other, every packet handed up has its task, the tasks hold what they
\* work on and leak nothing, and no critical error of the packet path occurs.
THEOREM PoolCorrect ==
  Spec => [](MacOwnsDataToSend /\ OneTaskPerPacket /\ NoBufferStranded /\ NoCritical)
  BY PoolInvariant, PTL DEF PoolInv

\* The packet that the MAC works on is the one entry of the queue that it
\* owns: no task frees or takes it meanwhile.
THEOREM OwnershipCorrect == Spec => []MacOwnsDataToSend
  BY PoolCorrect, PTL

\* No buffer leaks: each one that is taken is waiting for its cell, with the
\* MAC, or with a task still to run.
THEOREM BuffersReturn == Spec => []NoBufferStranded
  BY PoolCorrect, PTL

\* The critical errors of the packet path, after which the mote reboots, are
\* not reached.
THEOREM CriticalUnreached == Spec => []NoCritical
  BY PoolCorrect, PTL

-----------------------------------------------------------------------------
(***************************************************************************)
(* The mote implements PacketPool.                                         *)
(***************************************************************************)

LEMMA EveryPhase == \A e : PhaseOf(e) \in Pool!Phases
  BY DEF PhaseOf, Pool!Phases

\* A step that moves the phases and leaves one packet in the MAC is a step of
\* PacketPool.
LEMMA PoolNext ==
  ASSUME PhasesMove, MacOwnsDataToSend'
  PROVE  Pool!Next
<1> DEFINE phase == [b \in Buffers |-> PhaseOf(queue[b])]
<1>1. phase' = [b \in Buffers |-> PhaseOf(queue'[b])]
  OBVIOUS
<1>2. phase' \in [Buffers -> Pool!Phases]
  BY <1>1, EveryPhase
<1>3. \A b \in Buffers : phase'[b] # phase[b] => <<phase[b], phase'[b]>> \in Pool!Moves
  BY <1>1 DEF PhasesMove
<1>4. \A b, c \in Buffers : phase'[b] = "mac" /\ phase'[c] = "mac" => b = c
  <2>1. \A b \in Buffers : phase'[b] = "mac" => queue'[b].owner = "IEEE802154E"
    BY <1>1 DEF PhaseOf
  <2> QED BY <2>1 DEF MacOwnsDataToSend, OwnedBy
<1> QED BY <1>2, <1>3, <1>4 DEF Pool!Next, Pool!OnePacketInMac

\* The buffers of a mote live the life that PacketPool describes: no step of
\* the MAC, of the radio or of a task takes a packet from whoever has it.
THEOREM PoolRefines == Spec => PoolSpec
<1>1. Init => Pool!Init
  BY DEF Init, Pool!Init, ResetEntry, PhaseOf
<1>2. TypeOK /\ ControlInv /\ PoolInv /\ PoolInv' /\ [Next]_vars
        => [Pool!Next]_[b \in Buffers |-> PhaseOf(queue[b])]
  BY PoolStep, PoolNext DEF PoolInv
<1>3. Spec => [](TypeOK /\ ControlInv)
  BY TypeCorrect, ControlCorrect, PTL DEF ControlInv
<1> QED BY <1>1, <1>2, <1>3, PoolInvariant, PTL DEF Spec, PoolSpec, Pool!Spec

-----------------------------------------------------------------------------
(***************************************************************************)
(* The cell of a packet.                                                   *)
(***************************************************************************)

\* The packet a slot starts with is one for its cell.
LEMMA StartsOfCell ==
  ASSUME NEW start \in Starts, start[2] # Null
  PROVE  /\ start[2] \in Buffers
         /\ start[1][start[2]].creator = "SIXTOP" <=> currentScheduleEntry' \in EbSlots
<1> DEFINE Ready == OwnedBy(start[1], "SIXTOP_TO_IEEE802154E")
           Ebs   == {b \in Ready : start[1][b].creator = "SIXTOP"}
           Data  == {b \in Ready : start[1][b].creator # "SIXTOP"}
<1>1. Ebs \in SUBSET Buffers /\ Data \in SUBSET Buffers
  BY DEF OwnedBy
<1>2. (First(Ebs) # Null => First(Ebs) \in Ebs) /\ (First(Data) # Null => First(Data) \in Data)
  BY <1>1, FirstFinds
<1>3. CASE currentScheduleEntry' \in EbSlots
  <2>1. start[2] = MacGetEBPacket(start[1])
    BY <1>3 DEF Starts
  <2>2. start[2] \in Ebs
    BY <1>2, <2>1 DEF MacGetEBPacket
  <2> QED BY <1>1, <1>3, <2>2
<1>4. CASE currentScheduleEntry' \notin EbSlots
  <2>1. start[2] \in {Null, MacGetDataPacket(start[1])}
    BY <1>4 DEF Starts
  <2>2. start[2] \in Data
    BY <1>2, <2>1 DEF MacGetDataPacket
  <2> QED BY <1>1, <1>4, <2>2
<1> QED BY <1>3, <1>4

(***************************************************************************)
(* The cell an active slot takes is the cell of that slot, except in the   *)
(* first active slot of a DAG root: it starts with nextActiveSlotOffset at *)
(* the cell it is already at, so that slot 0 gets the cell after it.  What *)
(* keeps data packets out of that slot is that a DAG root never has any:   *)
(* it neither triggers a burst nor forwards one.                           *)
(***************************************************************************)

RootCells ==
  \/ currentScheduleEntry = 0 /\ nextActiveSlotOffset = 0
  \/ nextActiveSlotOffset = NextEntry(currentScheduleEntry)

SendsNoData(q) == \A b \in Buffers : q[b].creator # "LIGHT"

RootInv ==
  isDAGroot => /\ isSync /\ RootCells
               /\ task \notin {"forward", "send"} /\ SendsNoData(queue)

LEMMA RootCellsStep ==
  ASSUME TypeOK, isDAGroot, isSync, RootCells, [Next]_vars
  PROVE  isSync' /\ RootCells'
<1>1. CASE NewSlot
  <2>1. ~NewSlotSearching /\ ~NewSlotDesync
    BY DEF NewSlotSearching, NewSlotDesync
  <2>2. CASE NewSlotInactive
    BY <2>2 DEF NewSlotInactive, StaysInSync, RootCells
  <2>3. CASE NewSlotOverrun \/ NewSlotActive
    BY <2>3 DEF NewSlotOverrun, NewSlotActive, StaysInSync, AdvanceSchedule, RootCells
  <2> QED BY <1>1, <2>1, <2>2, <2>3 DEF NewSlot
<1>2. CASE TimerFires \/ StartOfFrame
  BY <1>2 DEF TimerFires, StartOfFrame, slotVars, syncVars, RootCells
<1>3. CASE EndOfFrame
  BY <1>3 DEF EndOfFrame, EndOfFrameSearching, EndOfReceivedFrame, EndOfSentFrame,
              EndOfUnexpectedFrame, slotVars, syncVars, RootCells
<1>4. CASE Task \/ UNCHANGED vars
  BY <1>4 DEF Task, vars, slotVars, syncVars, RootCells
<1> QED BY <1>1, <1>2, <1>3, <1>4 DEF Next, Interrupt

\* A DAG root starts its slots with what it had and EBs.
LEMMA RootStarts ==
  ASSUME TypeOK, isDAGroot, SendsNoData(queue), NEW start \in Starts
  PROVE  SendsNoData(start[1])
<1>1. Triggered(queue) = {queue}
  BY DEF Triggered, isDAGroot
<1>2. start[1] \in {queue, SendEB(queue)}
  BY <1>1 DEF Starts
<1>3. SendsNoData(SendEB(queue))
  <2>1. CASE ~hasRank
    BY <2>1 DEF SendEB, RemoveAllCreatedBy, ResetEntry, SendsNoData
  <2>2. CASE hasRank /\ FreeBuffers(queue) = {}
    BY <2>2 DEF SendEB
  <2>3. CASE hasRank /\ FreeBuffers(queue) # {}
    <3> DEFINE f == First(FreeBuffers(queue))
    <3>1. SendEB(queue) = [queue EXCEPT ![f] = HandedDown("SIXTOP")]
      BY <2>3 DEF SendEB
    <3> HIDE DEF f
    <3>2. \A b \in Buffers :
            SendEB(queue)[b] = queue[b] \/ SendEB(queue)[b] = HandedDown("SIXTOP")
      BY <3>1 DEF TypeOK
    <3> QED BY <3>2 DEF SendsNoData, HandedDown
  <2> QED BY <2>1, <2>2, <2>3
<1> QED BY <1>2, <1>3

\* A change of owner is no change of creator.
LEMMA OwnerKeepsData ==
  ASSUME TypeOK, SendsNoData(queue), NEW b, NEW o, queue' = Owner(b, o)
  PROVE  SendsNoData(queue')
<1>1. CASE b \in Buffers
  BY <1>1, OwnerEffect DEF SendsNoData
<1>2. CASE b \notin Buffers
  BY <1>2 DEF Owner, SendsNoData, TypeOK
<1> QED BY <1>1, <1>2

LEMMA RootQueueStep ==
  ASSUME TypeOK, ControlInv, PoolInv, isDAGroot, [Next]_vars,
         task \notin {"forward", "send"}, SendsNoData(queue)
  PROVE  task' \notin {"forward", "send"} /\ SendsNoData(queue')
<1>1. CASE NewSlotActive
  <2>1. PICK start \in Starts :
          queue' = (IF start[2] = Null THEN start[1]
                    ELSE [start[1] EXCEPT ![start[2]].owner = "IEEE802154E"])
    BY <1>1 DEF NewSlotActive
  <2>2. SendsNoData(start[1]) /\ start[1] \in [Buffers -> Entries]
    BY RootStarts, StartTypes DEF TypeOK
  <2>3. start[2] # Null => start[2] \in Buffers
    BY StartsOfCell
  <2>4. CASE start[2] = Null
    BY <1>1, <2>1, <2>2, <2>4 DEF NewSlotActive, taskVars
  <2>5. CASE start[2] # Null
    <3> DEFINE q == start[1]
               d == start[2]
    <3>1. queue' = [q EXCEPT ![d] = [q[d] EXCEPT !.owner = "IEEE802154E"]]
      BY <2>1, <2>5
    <3>2. d \in Buffers /\ q[d] \in Entries
      BY <2>2, <2>3, <2>5
    <3>3. \A b \in Buffers :
            queue'[b] = q[b] \/ queue'[b] = [q[d] EXCEPT !.owner = "IEEE802154E"]
      BY <2>2, <3>1
    <3>4. \A b \in Buffers : queue'[b].creator = q[b].creator \/ queue'[b].creator = q[d].creator
      BY <3>2, <3>3 DEF Entries
    <3>5. SendsNoData(queue')
      BY <2>2, <3>2, <3>4 DEF SendsNoData
    <3> QED BY <1>1, <3>5 DEF NewSlotActive, taskVars
  <2> QED BY <2>4, <2>5
<1>2. CASE Interrupt /\ ~NewSlotActive
  <2>1. TaskKept /\ (PoolKept \/ PacketBack \/ FrameUp)
    BY <1>2, OtherInterruptEffect
  <2>2. task' = task
    BY <2>1 DEF TaskKept, taskVars
  <2>3. CASE PoolKept
    BY <2>2, <2>3 DEF PoolKept
  <2>4. CASE PacketBack
    BY <2>2, <2>4 DEF PacketBack, SendsNoData, TypeOK
  <2>5. CASE FrameUp
    BY <2>2, <2>5 DEF FrameUp, Received, SendsNoData, TypeOK
  <2> QED BY <2>1, <2>3, <2>4, <2>5
<1>3. CASE Task
  <2>1. CASE TakeReceived \/ TakeSent
    <3>1. task' \in {task, "process", "free"} /\ (UNCHANGED queue \/ queue' = Owner(msg', "SIXTOP"))
      BY <2>1 DEF TakeReceived, TakeSent
    <3> QED BY <3>1, OwnerKeepsData
  <2>2. CASE ProcessBeacon \/ ProcessData
    <3>1. task' = "free"
      BY <2>2 DEF ProcessBeacon, ProcessData, isDAGroot
    <3>2. UNCHANGED queue \/ \E o \in {"NEIGHBORS", "LIGHT"} : queue' = Owner(msg, o)
      BY <2>2 DEF ProcessBeacon, ProcessData
    <3> QED BY <3>1, <3>2, OwnerKeepsData
  <2>3. ~GetForward /\ ~SendForward
    BY DEF GetForward, SendForward
  <2>4. CASE FreeMsg
    BY <2>4 DEF FreeMsg, FreePacket, ResetEntry, SendsNoData, TypeOK
  <2> QED BY <1>3, <2>1, <2>2, <2>3, <2>4 DEF Task
<1>4. CASE UNCHANGED vars
  BY <1>4 DEF vars, taskVars
<1> QED BY <1>1, <1>2, <1>3, <1>4 DEF Next

LEMMA RootInvariant == Spec => []RootInv
<1>1. Init => RootInv
  BY DEF Init, RootInv, RootCells, SendsNoData, ResetEntry
<1>2. TypeOK /\ ControlInv /\ PoolInv /\ RootInv /\ [Next]_vars => RootInv'
  <2> SUFFICES ASSUME TypeOK, ControlInv, PoolInv, RootInv, [Next]_vars, isDAGroot
               PROVE  /\ isSync' /\ RootCells'
                      /\ task' \notin {"forward", "send"} /\ SendsNoData(queue')
    BY DEF RootInv, isDAGroot, SendsNoData
  <2> QED BY RootCellsStep, RootQueueStep DEF RootInv
<1>3. Spec => [](TypeOK /\ ControlInv /\ PoolInv)
  BY TypeCorrect, ControlCorrect, PoolInvariant, PTL DEF ControlInv
<1> QED BY <1>1, <1>2, <1>3, PTL DEF Spec

-----------------------------------------------------------------------------

\* Slot and cell of an active slot, and the packet it starts with.
LEMMA EbSlotNewSlot ==
  ASSUME TypeOK, AlignedWhenSynced, PoolInv, RootInv, NewSlotActive
  PROVE  EbOnlyInEbSlot'
<1>1. PICK start \in Starts :
        /\ dataToSend' = start[2]
        /\ start[2] # Null => queue' = [start[1] EXCEPT ![start[2]].owner = "IEEE802154E"]
  BY DEF NewSlotActive
<1>2. slotOffset' = nextActiveSlotOffset /\ slotOffset' \in ActiveSlots
  BY DEF NewSlotActive, TypeOK
<1>3. CASE start[2] = Null
  BY <1>1, <1>3 DEF EbOnlyInEbSlot
<1>4. CASE start[2] # Null
  <2> DEFINE d == start[2]
             q == start[1]
  <2>1. d \in Buffers /\ (q[d].creator = "SIXTOP" <=> currentScheduleEntry' \in EbSlots)
    BY <1>4, StartsOfCell
  <2>2. q \in [Buffers -> Entries]
    BY StartTypes DEF TypeOK
  <2>3. queue' = [q EXCEPT ![d] = [q[d] EXCEPT !.owner = "IEEE802154E"]]
    BY <1>1, <1>4
  <2>4. queue'[d] = [q[d] EXCEPT !.owner = "IEEE802154E"] /\ q[d] \in Entries
    BY <2>1, <2>2, <2>3
  <2>5. queue'[d].creator = q[d].creator
    BY <2>4 DEF Entries
  <2>6. q[d].creator = "SIXTOP" <=> slotOffset' \in EbSlots
    <3>1. CASE nextActiveSlotOffset = NextEntry(currentScheduleEntry)
      BY <1>2, <2>1, <3>1 DEF NewSlotActive, AdvanceSchedule
    <3>2. CASE isDAGroot /\ currentScheduleEntry = 0 /\ nextActiveSlotOffset = 0
      <4>1. slotOffset' \in EbSlots
        BY <1>2, <3>2 DEF EbSlots
      <4>2. q[d].creator # "LIGHT"
        BY <2>1, <3>2, RootStarts DEF RootInv, SendsNoData
      <4>3. q[d].owner = "SIXTOP_TO_IEEE802154E"
        BY <1>4, StartEffect DEF PoolInv, OwnedBy
      <4>4. q[d] = queue[d] \/ q[d] = HandedDown("LIGHT") \/ q[d] = HandedDown("SIXTOP")
        BY <2>1, StartEffect DEF PoolInv
      <4>5. q[d].creator = "SIXTOP"
        BY <2>1, <4>2, <4>3, <4>4 DEF PoolInv, QueuedAreReady, HandedDown
      <4> QED BY <4>1, <4>5
    <3>3. isSync
      BY DEF NewSlotActive, StaysInSync
    <3> QED BY <3>1, <3>2, <3>3 DEF AlignedWhenSynced, Aligned, RootInv, RootCells
  <2> QED BY <1>1, <1>2, <2>5, <2>6 DEF EbOnlyInEbSlot
<1> QED BY <1>3, <1>4

\* Between two slots the packet of a slot, and the slot, stay the same.
LEMMA EbSlotStep ==
  ASSUME TypeOK, ControlInv, AlignedWhenSynced, PoolInv, PoolInv', PhasesMove, RootInv,
         EbOnlyInEbSlot, [Next]_vars
  PROVE  EbOnlyInEbSlot'
<1>1. CASE dataToSend' = Null
  BY <1>1 DEF EbOnlyInEbSlot
<1>2. CASE NewSlotActive
  BY <1>2, EbSlotNewSlot
<1>3. CASE dataToSend' # Null /\ ~NewSlotActive
  <2>1. dataToSend' = dataToSend /\ slotOffset' = slotOffset
    <3>1. ~Sleep
      BY <1>3 DEF Sleep
    <3>2. ~NewSlotSearching
      BY <1>3 DEF NewSlotSearching, ControlInv, StatesOfMode, PoolInv, MacOwnsDataToSend,
                  TxStates, SyncStates
    <3>3. ~NewSlot
      BY <1>3, <3>1, <3>2, EndSlotSleeps
         DEF NewSlot, NewSlotDesync, NewSlotInactive, NewSlotOverrun
    <3>4. CASE TimerFires \/ StartOfFrame
      BY <3>1, <3>4, EndSlotSleeps
         DEF TimerFires, TimerStep, TimerWatchdog, StartOfFrame, slotVars
    <3>5. CASE EndOfFrame
      <4>1. ~EndOfSentFrame /\ ~EndOfUnexpectedFrame
            /\ \A frame \in Frames : ~EndOfReceivedFrame(frame)
        BY <3>1, EndSlotSleeps DEF EndOfSentFrame, EndOfUnexpectedFrame, EndOfReceivedFrame
      <4>2. PICK frame \in Frames : EndOfFrameSearching(frame)
        BY <3>5, <4>1 DEF EndOfFrame
      <4> QED BY <3>1, <4>2 DEF EndOfFrameSearching, slotVars
    <3>6. CASE Task \/ UNCHANGED vars
      BY <3>6 DEF Task, vars, slotVars, fsmVars
    <3> QED BY <3>3, <3>4, <3>5, <3>6 DEF Next, Interrupt
  <2>2. dataToSend \in Buffers
    BY <1>3, <2>1 DEF TypeOK, Pointers
  <2>3. queue[dataToSend].owner = "IEEE802154E" /\ queue'[dataToSend].owner = "IEEE802154E"
    BY <1>3, <2>1, <2>2 DEF PoolInv, MacOwnsDataToSend, OwnedBy
  <2>4. queue'[dataToSend] = queue[dataToSend]
    BY <2>2, <2>3 DEF PhasesMove, PhaseOf
  <2> QED BY <1>3, <2>1, <2>4 DEF EbOnlyInEbSlot
<1> QED BY <1>1, <1>2, <1>3

\* A mote, the DAG root included, sends EBs in the EB slots and data packets in
\* the other active ones, whatever its tasks and its radio do meanwhile.
THEOREM CellsCorrect == Spec => []EbOnlyInEbSlot
<1>1. Init => EbOnlyInEbSlot
  BY DEF Init, EbOnlyInEbSlot
<1>2. TypeOK /\ ControlInv /\ AlignedWhenSynced /\ PoolInv /\ PoolInv' /\ RootInv
        /\ EbOnlyInEbSlot /\ [Next]_vars => EbOnlyInEbSlot'
  BY PoolStep, EbSlotStep
<1>3. Spec => [](TypeOK /\ ControlInv /\ AlignedWhenSynced /\ PoolInv /\ RootInv)
  BY TypeCorrect, ControlCorrect, AlignmentCorrect, PoolInvariant, RootInvariant, PTL
     DEF ControlInv
<1> QED BY <1>1, <1>2, <1>3, PTL DEF Spec

=============================================================================
