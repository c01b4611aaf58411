--------------------------- MODULE Ieee154eProofs ---------------------------
(***************************************************************************)
(* Proofs about module Ieee154e, for a mote of any role, any queue length, *)
(* any slotframe and any timeout.                                          *)
(***************************************************************************)
EXTENDS Ieee154e, OpenQueueProofs

USE QueueAssumption, MoteAssumption

-----------------------------------------------------------------------------
(***************************************************************************)
(* Lemmas about the schedule and the operators on the queue.               *)
(***************************************************************************)

LEMMA ScheduleTypes ==
  /\ 0 \in ActiveSlots
  /\ EbSlots \subseteq ActiveSlots
  /\ \A c \in ActiveSlots : NextEntry(c) \in ActiveSlots
  BY DEF ActiveSlots, EbSlots, NextEntry

\* Every search returns a pointer.
LEMMA SearchTypes ==
  ASSUME NEW q
  PROVE  /\ First(FreeBuffers(q)) \in Pointers
         /\ SixtopGetReceivedPacket(q) \in Pointers
         /\ SixtopGetSentPacket(q) \in Pointers
         /\ MacGetDataPacket(q) \in Pointers
         /\ MacGetEBPacket(q) \in Pointers
         /\ \A s, c : FreePacketBuffer(q, s, c) \in Pointers
<1>1. \A S \in SUBSET Buffers : First(S) \in Pointers
  BY FirstFinds DEF Pointers
<1> QED BY <1>1 DEF FreeBuffers, SixtopGetReceivedPacket, SixtopGetSentPacket,
          MacGetDataPacket, MacGetEBPacket, FreePacketBuffer, ReceivedPackets,
          SentPackets, OwnedBy, Pointers

LEMMA EntryTypes ==
  /\ ResetEntry \in Entries
  /\ HandedDown("LIGHT") \in Entries /\ HandedDown("SIXTOP") \in Entries
  /\ \A k \in Kinds : Received(k) \in Entries
  /\ \A e \in Entries, o \in Components : [e EXCEPT !.owner = o] \in Entries
  /\ \A e \in Entries, r \in 0 .. 255 : [e EXCEPT !.retries = r] \in Entries
<1> USE DEF Entries, Components, AboveMac, Kinds
<1>1. ResetEntry \in Entries
  BY DEF ResetEntry
<1>2. HandedDown("LIGHT") \in Entries /\ HandedDown("SIXTOP") \in Entries
  BY DEF HandedDown
<1>3. \A k \in Kinds : Received(k) \in Entries
  BY DEF Received
<1>4. \A e \in Entries, o \in Components : [e EXCEPT !.owner = o] \in Entries
  OBVIOUS
<1>5. \A e \in Entries, r \in 0 .. 255 : [e EXCEPT !.retries = r] \in Entries
  OBVIOUS
<1> QED BY <1>1, <1>2, <1>3, <1>4, <1>5

\* The two updates of light_send_one_packet, of any entry or of none.
LEMMA EntryUpdates ==
  ASSUME NEW q \in [Buffers -> Entries], NEW b
  PROVE  /\ Claim(q, b, "LIGHT") \in [Buffers -> Entries]
         /\ [q EXCEPT ![b].retries = 1, ![b].owner = "SIXTOP_TO_IEEE802154E"]
               \in [Buffers -> Entries]
<1>1. ASSUME b \notin Buffers
      PROVE  /\ Claim(q, b, "LIGHT") = q
             /\ [q EXCEPT ![b].retries = 1, ![b].owner = "SIXTOP_TO_IEEE802154E"] = q
  BY <1>1 DEF Claim
<1>2. ASSUME b \in Buffers
      PROVE  /\ Claim(q, b, "LIGHT") =
                  [q EXCEPT ![b] = [q[b] EXCEPT !.creator = "LIGHT", !.owner = "OPENQUEUE"]]
             /\ [q EXCEPT ![b].retries = 1, ![b].owner = "SIXTOP_TO_IEEE802154E"] =
                  [q EXCEPT ![b] = [q[b] EXCEPT !.retries = 1,
                                                !.owner = "SIXTOP_TO_IEEE802154E"]]
  BY <1>2 DEF Claim
<1>3. {"LIGHT", "OPENQUEUE", "SIXTOP_TO_IEEE802154E"} \subseteq Components
  BY DEF Components, AboveMac
<1>4. \A e \in Entries : [e EXCEPT !.creator = "LIGHT", !.owner = "OPENQUEUE"] \in Entries
  BY <1>3 DEF Entries
<1>5. ASSUME NEW e \in Entries
      PROVE  [e EXCEPT !.retries = 1, !.owner = "SIXTOP_TO_IEEE802154E"] \in Entries
  <2> DEFINE d == [e EXCEPT !.retries = 1]
  <2> HIDE DEF d
  <2>0. 1 \in 0 .. 255
    OBVIOUS
  <2>1. d \in Entries
    BY <2>0, EntryTypes DEF d
  <2>2. [d EXCEPT !.owner = "SIXTOP_TO_IEEE802154E"] \in Entries
    BY <2>1, <1>3, EntryTypes
  <2> QED BY <2>2 DEF d
<1>6. CASE b \in Buffers
  <2>1. q[b] \in Entries
    BY <1>6
  <2> QED BY <1>2, <1>4, <1>5, <1>6, <2>1
<1>7. CASE b \notin Buffers
  BY <1>1, <1>7
<1> QED BY <1>6, <1>7

\* The queues a slot may start with are queues, and its packet is a pointer.
LEMMA StartTypes ==
  ASSUME queue \in [Buffers -> Entries], NEW start \in Starts
  PROVE  /\ start[1] \in [Buffers -> Entries]
         /\ start[2] \in Pointers
<1>1. \A q \in Triggered(queue) : q \in [Buffers -> Entries]
  BY EntryTypes DEF Triggered, Burst
<1>2. ASSUME NEW q \in [Buffers -> Entries]
      PROVE  SendEB(q) \in [Buffers -> Entries]
  BY EntryTypes DEF SendEB, RemoveAllCreatedBy
<1>3. \A q : Null \in Pointers /\ MacGetDataPacket(q) \in Pointers
                 /\ MacGetEBPacket(q) \in Pointers
  BY SearchTypes DEF Pointers
<1> QED BY <1>1, <1>2, <1>3 DEF Starts

-----------------------------------------------------------------------------
(***************************************************************************)
(* Types.                                                                  *)
(***************************************************************************)

\* The decrement of deSyncTimeout keeps its type only while it is running.
TypeInv == TypeOK /\ DesyncRuns

LEMMA EndSlotType ==
  ASSUME TypeOK, endSlot
  PROVE  /\ state' \in States /\ timer' \in BOOLEAN /\ radioOn' \in BOOLEAN
         /\ dataToSend' \in Pointers
         /\ queue' \in [Buffers -> Entries]
         /\ txTasks' \in Nat
<1>1. Sleep => /\ state' \in States /\ timer' \in BOOLEAN /\ radioOn' \in BOOLEAN
               /\ dataToSend' \in Pointers
  BY DEF Sleep, States, Pointers
<1>2. \A b : Decremented(queue, b) \in [Buffers -> Entries]
  <2>1. \A e \in Entries : (e.retries + 255) % 256 \in 0 .. 255
    BY DEF Entries
  <2>2. ASSUME NEW b, b \notin Buffers
        PROVE  Decremented(queue, b) \in [Buffers -> Entries]
    BY <2>2 DEF TypeOK, Decremented
  <2>3. ASSUME NEW b \in Buffers
        PROVE  Decremented(queue, b) \in [Buffers -> Entries]
    <3>1. [queue[b] EXCEPT !.retries = (@ + 255) % 256] \in Entries
      BY <2>1, EntryTypes DEF TypeOK
    <3>2. Decremented(queue, b) =
            [queue EXCEPT ![b] = [queue[b] EXCEPT !.retries = (@ + 255) % 256]]
      BY DEF TypeOK, Decremented
    <3> QED BY <3>1, <3>2 DEF TypeOK
  <2> QED BY <2>2, <2>3
<1>3. ASSUME NEW q \in [Buffers -> Entries], NEW b, NEW o \in Components
      PROVE  [q EXCEPT ![b].owner = o] \in [Buffers -> Entries]
  BY EntryTypes
<1>4. "SIXTOP_TO_IEEE802154E" \in Components /\ "IEEE802154E_TO_SIXTOP" \in Components
  BY DEF Components, AboveMac
<1> QED BY <1>1, <1>2, <1>3, <1>4 DEF endSlot, HandUp, TypeOK

LEMMA SlotOffsetType ==
  ASSUME TypeOK, IncrementSlotOffset
  PROVE  slotOffset' \in 0 .. SLOTFRAME_LENGTH - 1
  BY DEF TypeOK, IncrementSlotOffset

LEMMA TypeInit == Init => TypeInv
<1> SUFFICES ASSUME Init PROVE TypeInv
  OBVIOUS
<1>1. queue \in [Buffers -> Entries]
  BY EntryTypes DEF Init
<1>2. isSync \in BOOLEAN /\ hasRank \in BOOLEAN /\ (isSync => isDAGroot)
  BY DEF Init, isDAGroot
<1>3. /\ slotOffset \in 0 .. SLOTFRAME_LENGTH - 1
      /\ joinChannelChangingCounter \in 0 .. EB_SLOWHOPPING_PERIOD - 1
      /\ syncnum \in 0 .. SYNCNUMS - 1 /\ deSyncTimeout \in 0 .. DESYNCTIMEOUT
      /\ rxTasks \in Nat /\ txTasks \in Nat
  BY DEF Init
<1>4. /\ dataToSend \in Pointers /\ msg \in Pointers /\ pkt \in Pointers
      /\ nextActiveSlotOffset \in ActiveSlots /\ currentScheduleEntry \in ActiveSlots
      /\ state \in States
  BY ScheduleTypes DEF Init, Pointers, States
<1> QED BY <1>1, <1>2, <1>3, <1>4 DEF Init, TypeInv, TypeOK, DesyncRuns

LEMMA TypeStep == TypeInv /\ [Next]_vars => TypeInv'
<1> SUFFICES ASSUME TypeInv, [Next]_vars PROVE TypeInv'
  OBVIOUS
<1> USE DEF TypeInv
<1>1. CASE NewSlotSearching
  <2>1. joinChannelChangingCounter' \in 0 .. EB_SLOWHOPPING_PERIOD - 1
    BY <1>1 DEF NewSlotSearching, TypeOK
  <2>2. state' \in States /\ radioOn' \in BOOLEAN
    BY <1>1 DEF NewSlotSearching, TypeOK, States, SyncStates
  <2>3. slotOffset' \in 0 .. SLOTFRAME_LENGTH - 1
    BY <1>1, SlotOffsetType DEF NewSlotSearching, TypeOK
  <2> QED BY <1>1, <2>1, <2>2, <2>3 DEF NewSlotSearching, TypeOK, DesyncRuns, taskVars
<1>2. CASE NewSlotDesync
  <2>1. deSyncTimeout' \in 0 .. DESYNCTIMEOUT /\ isSync' = FALSE
    BY <1>2 DEF NewSlotDesync
  <2> QED BY <1>2, <2>1, EndSlotType, SlotOffsetType
          DEF NewSlotDesync, TypeOK, DesyncRuns, taskVars
<1>3. ASSUME StaysInSync
      PROVE  /\ slotOffset' \in 0 .. SLOTFRAME_LENGTH - 1
             /\ deSyncTimeout' \in 0 .. DESYNCTIMEOUT
             /\ isSync' \in BOOLEAN /\ DesyncRuns'
             /\ UNCHANGED joinChannelChangingCounter
  BY <1>3, SlotOffsetType DEF StaysInSync, TypeOK, DesyncRuns, isDAGroot
<1>4. ASSUME AdvanceSchedule
      PROVE  currentScheduleEntry' \in ActiveSlots /\ nextActiveSlotOffset' \in ActiveSlots
  BY <1>4, ScheduleTypes DEF AdvanceSchedule, TypeOK
<1>5. CASE NewSlotInactive
  BY <1>3, <1>5, EndSlotType DEF NewSlotInactive, TypeOK, taskVars
<1>6. CASE NewSlotOverrun
  BY <1>3, <1>4, <1>6, EndSlotType DEF NewSlotOverrun, TypeOK, taskVars
<1>7. CASE NewSlotActive
  <2>1. PICK start \in Starts :
          /\ dataToSend' = start[2]
          /\ IF start[2] = Null
               THEN /\ state' = "S_RXDATAOFFSET"
                    /\ queue' = start[1]
                    /\ UNCHANGED syncnum
               ELSE /\ state' = "S_TXDATAOFFSET"
                    /\ queue' = [start[1] EXCEPT ![start[2]].owner = "IEEE802154E"]
                    /\ syncnum' = IF isDAGroot /\ currentScheduleEntry' \in EbSlots
                                    THEN (syncnum + 1) % SYNCNUMS ELSE syncnum
    BY <1>7 DEF NewSlotActive
  <2>2. start[1] \in [Buffers -> Entries] /\ start[2] \in Pointers
    BY StartTypes DEF TypeOK
  <2>3. queue' \in [Buffers -> Entries]
    <3>1. "IEEE802154E" \in Components
      BY DEF Components
    <3>2. CASE start[2] = Null
      BY <2>1, <2>2, <3>2
    <3>3. CASE start[2] # Null
      <4>1. start[2] \in Buffers
        BY <2>2, <3>3 DEF Pointers
      <4>2. [start[1][start[2]] EXCEPT !.owner = "IEEE802154E"] \in Entries
        BY <2>2, <3>1, <4>1, EntryTypes
      <4> QED BY <2>1, <2>2, <3>3, <4>1, <4>2
    <3> QED BY <3>2, <3>3
  <2>4. syncnum' \in 0 .. SYNCNUMS - 1
    BY <2>1 DEF TypeOK
  <2>5. state' \in States
    BY <2>1 DEF States, TxStates, RxStates
  <2> QED BY <1>3, <1>4, <1>7, <2>1, <2>2, <2>3, <2>4, <2>5
          DEF NewSlotActive, TypeOK, taskVars
<1>8. CASE TimerFires
  <2>1. CASE TimerStep
    BY <1>8, <2>1 DEF TimerFires, TimerStep, TypeOK, DesyncRuns, slotVars, syncVars, taskVars
  <2>2. CASE TimerWatchdog
    BY <1>8, <2>2, EndSlotType
       DEF TimerFires, TimerWatchdog, TypeOK, DesyncRuns, slotVars, syncVars, taskVars
  <2> QED BY <1>8, <2>1, <2>2 DEF TimerFires
<1>9. CASE StartOfFrame
  <2>1. CASE endSlot
    BY <1>9, <2>1, EndSlotType
       DEF StartOfFrame, TypeOK, DesyncRuns, slotVars, syncVars, taskVars
  <2>2. CASE /\ state' \in {state, "S_SYNCRX", "S_TXDATA", "S_RXDATA"}
             /\ timer' \in {timer, TRUE}
             /\ UNCHANGED <<radioOn, dataToSend, queue, txTasks>>
    <3>1. state' \in States
      BY <2>2 DEF TypeOK, States, SyncStates, TxStates, RxStates
    <3> QED BY <1>9, <2>2, <3>1
            DEF StartOfFrame, TypeOK, DesyncRuns, slotVars, syncVars, taskVars
  <2> QED BY <1>9, <2>1, <2>2 DEF StartOfFrame
<1>10. CASE EndOfFrame
  <2> DEFINE new == FreePacketBuffer(queue, isSync, "IEEE802154E")
  <2>1. new \in Pointers
    BY SearchTypes
  <2>2. \A k \in Kinds : [queue EXCEPT ![new] = Received(k)] \in [Buffers -> Entries]
    BY EntryTypes DEF TypeOK
  <2>3. Sleep => /\ state' \in States /\ timer' \in BOOLEAN /\ radioOn' \in BOOLEAN
                 /\ dataToSend' \in Pointers
    BY DEF Sleep, States, Pointers
  <2> HIDE DEF new
  <2>4. CASE \E frame \in Frames : EndOfFrameSearching(frame)
    <3>1. PICK frame \in Frames : EndOfFrameSearching(frame)
      BY <2>4
    <3>2. /\ frame.kind \in Kinds /\ frame.syncnum \in 0 .. SYNCNUMS - 1
          /\ frame.slot \in EbSlots
      BY DEF Frames
    <3>3. CASE Sleep /\ UNCHANGED <<slotVars, syncVars, queue, rxTasks>>
      BY <2>3, <3>1, <3>3
         DEF EndOfFrameSearching, TypeOK, DesyncRuns, slotVars, syncVars, taskVars
    <3>4. CASE /\ state' = "S_SYNCLISTEN"
               /\ radioOn' = (state = "S_SYNCRX")
               /\ UNCHANGED <<timer, dataToSend, slotVars, syncVars, queue, rxTasks>>
      <4>1. state' \in States /\ radioOn' \in BOOLEAN
        BY <3>4 DEF States, SyncStates
      <4> QED BY <3>1, <3>4, <4>1
              DEF EndOfFrameSearching, TypeOK, DesyncRuns, slotVars, syncVars, taskVars
    <3>5. CASE /\ syncnum' = frame.syncnum
               /\ slotOffset' = frame.slot
               /\ currentScheduleEntry' = frame.slot
               /\ nextActiveSlotOffset' = NextEntry(frame.slot)
               /\ deSyncTimeout' = DESYNCTIMEOUT
               /\ isSync' = TRUE
               /\ queue' = [queue EXCEPT ![new] = Received(frame.kind)]
               /\ rxTasks' = rxTasks + 1
               /\ Sleep
               /\ UNCHANGED joinChannelChangingCounter
      <4>1. /\ currentScheduleEntry' \in ActiveSlots /\ nextActiveSlotOffset' \in ActiveSlots
            /\ slotOffset' \in 0 .. SLOTFRAME_LENGTH - 1
        BY <3>2, <3>5, ScheduleTypes DEF EbSlots
      <4>2. queue' \in [Buffers -> Entries]
        BY <2>2, <3>2, <3>5
      <4>3. deSyncTimeout' \in 1 .. DESYNCTIMEOUT
        BY <3>5
      <4> QED BY <2>3, <3>1, <3>2, <3>5, <4>1, <4>2, <4>3
              DEF EndOfFrameSearching, TypeOK, DesyncRuns, taskVars
    <3> QED BY <3>1, <3>3, <3>4, <3>5 DEF EndOfFrameSearching, new
  <2>5. CASE \E frame \in Frames : EndOfReceivedFrame(frame)
    <3>1. PICK frame \in Frames : EndOfReceivedFrame(frame)
      BY <2>5
    <3>2. frame.kind \in Kinds /\ frame.syncnum \in 0 .. SYNCNUMS - 1
      BY DEF Frames
    <3>3. queue' \in [Buffers -> Entries] /\ rxTasks' \in Nat
      <4>1. \/ /\ queue' = [queue EXCEPT ![new] = Received(frame.kind)]
               /\ rxTasks' = rxTasks + 1
            \/ UNCHANGED <<queue, rxTasks>>
        BY <3>1 DEF EndOfReceivedFrame, new
      <4> QED BY <2>2, <3>2, <4>1 DEF TypeOK
    <3>4. /\ syncnum' \in 0 .. SYNCNUMS - 1
          /\ deSyncTimeout' \in {deSyncTimeout, DESYNCTIMEOUT}
      BY <3>1, <3>2 DEF EndOfReceivedFrame, TypeOK
    <3>5. deSyncTimeout' \in 0 .. DESYNCTIMEOUT /\ DesyncRuns'
      <4>1. isSync' = isSync
        BY <3>1 DEF EndOfReceivedFrame
      <4>2. DESYNCTIMEOUT \in 1 .. DESYNCTIMEOUT
        OBVIOUS
      <4> QED BY <3>4, <4>1, <4>2 DEF TypeOK, DesyncRuns
    <3> QED BY <2>3, <3>1, <3>3, <3>4, <3>5
            DEF EndOfReceivedFrame, TypeOK, slotVars, taskVars
  <2>6. CASE EndOfSentFrame
    <3>1. queue' \in [Buffers -> Entries]
      <4>1. "IEEE802154E_TO_SIXTOP" \in Components
        BY DEF Components, AboveMac
      <4> QED BY <2>6, <4>1, EntryTypes DEF EndOfSentFrame, HandUp, TypeOK
    <3> QED BY <2>3, <2>6, <3>1
            DEF EndOfSentFrame, TypeOK, DesyncRuns, slotVars, syncVars, taskVars
  <2>7. CASE EndOfUnexpectedFrame
    BY <2>7, EndSlotType
       DEF EndOfUnexpectedFrame, TypeOK, DesyncRuns, slotVars, syncVars, taskVars
  <2> QED BY <1>10, <2>4, <2>5, <2>6, <2>7 DEF EndOfFrame
<1>11. CASE Task
  <2>1. ASSUME NEW b, NEW o \in Components
        PROVE  [queue EXCEPT ![b].owner = o] \in [Buffers -> Entries]
    BY EntryTypes DEF TypeOK
  <2>2. {"SIXTOP", "LIGHT", "NEIGHBORS", "OPENQUEUE"} \subseteq Components
    BY DEF Components, AboveMac
  <2>3. /\ isSync' = isSync /\ deSyncTimeout' = deSyncTimeout
        /\ UNCHANGED <<slotVars, syncVars, fsmVars>>
    BY <1>11 DEF Task, syncVars
  <2>4. /\ queue' \in [Buffers -> Entries]
        /\ rxTasks' \in Nat /\ txTasks' \in Nat
        /\ msg' \in Pointers /\ pkt' \in Pointers
        /\ task' \in {"idle", "process", "forward", "send", "free"}
        /\ hasRank' \in BOOLEAN /\ critical' \in BOOLEAN
    <3>1. CASE TakeReceived
      <4>1. msg' \in Pointers
        BY <3>1, SearchTypes DEF TakeReceived
      <4>2. rxTasks' \in Nat
        BY <3>1 DEF TakeReceived, TypeOK
      <4>3. queue' \in [Buffers -> Entries]
        BY <3>1, <2>1, <2>2 DEF TakeReceived, Owner, TypeOK
      <4> QED BY <3>1, <4>1, <4>2, <4>3 DEF TakeReceived, TypeOK
    <3>2. CASE ProcessBeacon
      BY <3>2, <2>1, <2>2 DEF ProcessBeacon, Owner, TypeOK
    <3>3. CASE ProcessData
      BY <3>3, <2>1, <2>2 DEF ProcessData, Owner, TypeOK
    <3>4. CASE GetForward
      <4>1. pkt' \in Pointers
        BY <3>4, SearchTypes DEF GetForward
      <4>2. queue' \in [Buffers -> Entries]
        <5>1. \/ UNCHANGED queue
              \/ queue' = Claim(queue, pkt', "LIGHT")
          BY <3>4 DEF GetForward
        <5>2. queue \in [Buffers -> Entries]
          BY DEF TypeOK
        <5>3. \A b : Claim(queue, b, "LIGHT") \in [Buffers -> Entries]
          BY <5>2, EntryUpdates
        <5> QED BY <5>1, <5>2, <5>3
      <4> QED BY <3>4, <4>1, <4>2 DEF GetForward, TypeOK
    <3>5. CASE SendForward
      <4>1. queue' \in [Buffers -> Entries]
        BY <3>5, EntryUpdates DEF SendForward, TypeOK
      <4> QED BY <3>5, <4>1 DEF SendForward, TypeOK, Pointers
    <3>6. CASE TakeSent
      <4>1. msg' \in Pointers
        BY <3>6, SearchTypes DEF TakeSent
      <4>2. txTasks' \in Nat
        BY <3>6 DEF TakeSent, TypeOK
      <4>3. queue' \in [Buffers -> Entries]
        BY <3>6, <2>1, <2>2 DEF TakeSent, Owner, TypeOK
      <4> QED BY <3>6, <4>1, <4>2, <4>3 DEF TakeSent, TypeOK
    <3>7. CASE FreeMsg
      BY <3>7, EntryTypes DEF FreeMsg, FreePacket, TypeOK, Pointers
    <3> QED BY <1>11, <3>1, <3>2, <3>3, <3>4, <3>5, <3>6, <3>7 DEF Task
  <2> QED BY <2>3, <2>4 DEF TypeOK, DesyncRuns, slotVars, syncVars, fsmVars
<1>12. CASE UNCHANGED vars
  BY <1>12 DEF vars, slotVars, syncVars, fsmVars, taskVars, TypeOK, DesyncRuns
<1> QED BY <1>1, <1>2, <1>5, <1>6, <1>7, <1>8, <1>9, <1>10, <1>11, <1>12
        DEF Next, Interrupt, NewSlot

\* The variables of the mote keep their types, and while it is synchronised
\* the desynchronisation timeout is running and never wraps.
THEOREM TypeCorrect == Spec => [](TypeOK /\ DesyncRuns)
<1>1. Spec => []TypeInv
  BY TypeInit, TypeStep, PTL DEF Spec
<1> QED BY <1>1, PTL DEF TypeInv

\* The variables of a mote of any role keep their types.
THEOREM VariablesTyped == Spec => []TypeOK
  BY TypeCorrect, PTL

=============================================================================
