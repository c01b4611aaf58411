------------------------------ MODULE Ieee154e ------------------------------
(***************************************************************************)
(* One mote of the FBR-TSCH firmware: the TSCH state machine               *)
(* (openstack/02a-MAClow/IEEE802154E.c) with what its interrupts call, and *)
(* the 6top tasks that take the packets it hands up.                       *)
(*                                                                         *)
(* Every action but the last group is one interrupt: the slot timer, the   *)
(* timer of the state machine, and the two radio callbacks.  The durations *)
(* of IEEE802154E.h make a handler end before the next slot edge (which is *)
(* why the received frame is never in ieee154e_vars.dataReceived between   *)
(* two interrupts).  The last group is the task loop, one action per part  *)
(* of a task between two critical sections, interrupts coming in between.  *)
(* The task list itself is module Scheduler; here a pushed task is run.    *)
(*                                                                         *)
(* Time is left to the interrupts: they come in any order and number, the  *)
(* guards being only that their source is armed.                           *)
(***************************************************************************)
EXTENDS OpenQueue, Integers, FiniteSets

CONSTANTS
  Role,                  \* what the mote is: idmanager.c and opendefs.h
  SLOTFRAME_LENGTH,      \* schedule.h: 13
  NUM_EB_SLOTS,          \* schedule.h: 1
  NUM_TXRX_SLOTS,        \* schedule.h: 10
  DESYNCTIMEOUT,         \* IEEE802154E.h: 2169
  EB_SLOWHOPPING_PERIOD, \* IEEE802154E.h: 1000
  LIGHT_BURSTSIZE,       \* light.h: 5
  SYNCNUMS               \* the values of a syncnum: 256, it is a uint8_t

ASSUME MoteAssumption ==
  /\ Role \in {"root", "relay", "sensor"}
  /\ SLOTFRAME_LENGTH \in Nat /\ NUM_EB_SLOTS \in Nat \ {0} /\ NUM_TXRX_SLOTS \in Nat
  /\ NUM_EB_SLOTS + NUM_TXRX_SLOTS <= SLOTFRAME_LENGTH
  /\ DESYNCTIMEOUT \in Nat \ {0}
  /\ EB_SLOWHOPPING_PERIOD \in Nat \ {0}
  /\ LIGHT_BURSTSIZE \in Nat
  /\ SYNCNUMS \in Nat \ {0}

isDAGroot == Role = "root"

VARIABLES
  isSync, state, slotOffset, nextActiveSlotOffset, deSyncTimeout,
  syncnum, joinChannelChangingCounter,
  dataToSend,               \* the packet of this slot, or Null
  currentScheduleEntry,     \* schedule.c, by its slot offset
  timer,                    \* the state machine's timer is armed
  radioOn,                  \* from txEnable or rxEnable to rfOff
  queue,                    \* openqueue_vars.queue
  hasRank,                  \* neighbors.c: myDAGrank # DEFAULTDAGRANK
  rxTasks, txTasks,         \* receive and sendDone tasks pushed and not run
  task,                     \* where the running task is
  msg, pkt,                 \* its packet, and the one light_send_one_packet got
  critical                  \* openserial_printCritical was called: a reboot

slotVars == <<slotOffset, nextActiveSlotOffset, currentScheduleEntry>>
syncVars == <<isSync, deSyncTimeout, syncnum, joinChannelChangingCounter>>
fsmVars  == <<state, timer, radioOn, dataToSend>>
taskVars == <<task, msg, pkt, hasRank, critical>>
vars == <<slotVars, syncVars, fsmVars, taskVars, queue, rxTasks, txTasks>>

-----------------------------------------------------------------------------
(***************************************************************************)
(* The schedule: schedule_init fills the first slots of the slotframe, EB  *)
(* cells first, in a circular list.                                        *)
(***************************************************************************)

ActiveSlots == 0 .. NUM_EB_SLOTS + NUM_TXRX_SLOTS - 1

EbSlots == 0 .. NUM_EB_SLOTS - 1

\* scheduleEntry_t.next
NextEntry(c) == IF c + 1 \in ActiveSlots THEN c + 1 ELSE 0

\* Mutant: the slot offset is not wrapped at the end of the slotframe.
IncrementWithoutWrap == slotOffset' = slotOffset + 1

\* incrementAsnOffset, as far as the slot offset goes
IncrementSlotOffset ==
  slotOffset' = IF slotOffset + 1 = SLOTFRAME_LENGTH THEN 0 ELSE slotOffset + 1

\* Mutant: the next active slot is read before the schedule advances.
AdvanceAfterReading ==
  /\ currentScheduleEntry' = NextEntry(currentScheduleEntry)
  /\ nextActiveSlotOffset' = NextEntry(currentScheduleEntry)

\* schedule_advanceSlot and schedule_getNextActiveSlotOffset
AdvanceSchedule ==
  /\ currentScheduleEntry' = NextEntry(currentScheduleEntry)
  /\ nextActiveSlotOffset' = NextEntry(NextEntry(currentScheduleEntry))

-----------------------------------------------------------------------------

TxStates == {"S_TXDATAOFFSET", "S_TXDATAREADY", "S_TXDATADELAY", "S_TXDATA"}
RxStates == {"S_RXDATAOFFSET", "S_RXDATAREADY", "S_RXDATALISTEN", "S_RXDATA"}
SyncStates == {"S_SYNCLISTEN", "S_SYNCRX"}

\* S_TXDATAPREPARE, S_RXDATAPREPARE, S_SYNCPROC and the two ACKOFFSET states
\* are entered and left within one handler; no handler enters the others.
States == {"S_SLEEP"} \cup SyncStates \cup TxStates \cup RxStates

Init ==
  /\ isSync = isDAGroot
  /\ state = "S_SLEEP"
  /\ slotOffset = 0
  /\ nextActiveSlotOffset = 0
  /\ currentScheduleEntry = 0
  /\ deSyncTimeout = 0
  /\ syncnum = 0
  /\ joinChannelChangingCounter = 0
  /\ dataToSend = Null
  /\ timer = FALSE
  /\ radioOn = FALSE
  /\ queue = [b \in Buffers |-> ResetEntry]
  /\ hasRank = isDAGroot
  /\ rxTasks = 0
  /\ txTasks = 0
  /\ task = "idle"
  /\ msg = Null
  /\ pkt = Null
  /\ critical = FALSE

-----------------------------------------------------------------------------
(***************************************************************************)
(* The end of a slot.                                                      *)
(***************************************************************************)

\* Mutant: the timer of the state machine is not cancelled.
SleepWithTimer ==
  /\ state' = "S_SLEEP"
  /\ radioOn' = FALSE
  /\ dataToSend' = Null
  /\ UNCHANGED timer

\* The part of endSlot that does not look at a packet.
Sleep ==
  /\ state' = "S_SLEEP"
  /\ timer' = FALSE
  /\ radioOn' = FALSE
  /\ dataToSend' = Null

\* notif_sendDone and notif_receive: the packet goes up, with a task.
HandUp(q, b) == [q EXCEPT ![b].owner = "IEEE802154E_TO_SIXTOP"]

\* l2_retriesLeft is a uint8_t.
Decremented(q, b) == [q EXCEPT ![b].retries = (@ + 255) % 256]

\* Mutant: dataToSend is reset and its packet is not given back.
EndSlotForgets == Sleep /\ UNCHANGED <<queue, txTasks>>

\* A packet still in dataToSend was not sent: endSlot hands it up as failed,
\* or back to the queue while it has transmissions left.
endSlot ==
  /\ Sleep
  /\ IF dataToSend = Null
       THEN UNCHANGED <<queue, txTasks>>
     ELSE IF Decremented(queue, dataToSend)[dataToSend].retries = 0
       THEN /\ queue' = HandUp(Decremented(queue, dataToSend), dataToSend)
            /\ txTasks' = txTasks + 1
       ELSE /\ queue' = [Decremented(queue, dataToSend)
                          EXCEPT ![dataToSend].owner = "SIXTOP_TO_IEEE802154E"]
            /\ UNCHANGED txTasks

-----------------------------------------------------------------------------
(***************************************************************************)
(* The slot timer, not synchronised: activity_synchronize_newSlot.         *)
(* A DAG root is synchronised from its first slot on.                      *)
(***************************************************************************)

\* Mutant: the radio is not turned on again when the channel changes.
SearchingOneChannel ==
  /\ ~isSync
  /\ joinChannelChangingCounter' =
       (joinChannelChangingCounter + 1) % EB_SLOWHOPPING_PERIOD
  /\ IF state = "S_SYNCRX"
       THEN UNCHANGED <<state, radioOn, slotOffset>>
       ELSE /\ state' = "S_SYNCLISTEN"
            /\ radioOn' = (radioOn \/ state # "S_SYNCLISTEN")
            /\ IncrementSlotOffset
  /\ UNCHANGED <<isSync, deSyncTimeout, syncnum, nextActiveSlotOffset,
                 currentScheduleEntry, timer, dataToSend, queue, rxTasks,
                 txTasks, taskVars>>

NewSlotSearching ==
  /\ ~isSync
  /\ joinChannelChangingCounter' =
       (joinChannelChangingCounter + 1) % EB_SLOWHOPPING_PERIOD
  /\ IF state = "S_SYNCRX"
       THEN UNCHANGED <<state, radioOn, slotOffset>>
       ELSE /\ state' = "S_SYNCLISTEN"
            /\ radioOn' = (radioOn \/ state # "S_SYNCLISTEN"
                             \/ joinChannelChangingCounter' = 0)
            /\ IncrementSlotOffset
  /\ UNCHANGED <<isSync, deSyncTimeout, syncnum, nextActiveSlotOffset,
                 currentScheduleEntry, timer, dataToSend, queue, rxTasks,
                 txTasks, taskVars>>

-----------------------------------------------------------------------------
(***************************************************************************)
(* The slot timer, synchronised: activity_ti1ORri1, one action per way out *)
(* of it.                                                                  *)
(***************************************************************************)

\* Mutant: the slot in progress is not ended when the mote desynchronises.
DesyncWithinSlot ==
  /\ isSync /\ ~isDAGroot
  /\ deSyncTimeout = 1
  /\ deSyncTimeout' = 0
  /\ isSync' = FALSE
  /\ IncrementSlotOffset
  /\ UNCHANGED <<nextActiveSlotOffset, currentScheduleEntry, syncnum, fsmVars,
                 joinChannelChangingCounter, queue, rxTasks, txTasks, taskVars>>

\* The time since the last new syncnum from the preferred parent is over.
NewSlotDesync ==
  /\ isSync /\ ~isDAGroot
  /\ deSyncTimeout = 1
  /\ deSyncTimeout' = 0
  /\ isSync' = FALSE
  /\ IncrementSlotOffset
  /\ endSlot
  /\ UNCHANGED <<nextActiveSlotOffset, currentScheduleEntry, syncnum,
                 joinChannelChangingCounter, rxTasks, taskVars>>

\* Mutant: the timeout is not tested when it reaches zero.
StaysWithoutTest ==
  /\ isSync
  /\ IncrementSlotOffset
  /\ deSyncTimeout' = IF isDAGroot THEN deSyncTimeout ELSE deSyncTimeout - 1
  /\ UNCHANGED <<isSync, joinChannelChangingCounter>>

\* What every other way out has done before.
StaysInSync ==
  /\ isSync
  /\ IncrementSlotOffset
  /\ IF isDAGroot
       THEN UNCHANGED deSyncTimeout
       ELSE deSyncTimeout # 1 /\ deSyncTimeout' = deSyncTimeout - 1
  /\ UNCHANGED <<isSync, joinChannelChangingCounter>>

NewSlotInactive ==
  /\ StaysInSync
  /\ slotOffset' # nextActiveSlotOffset
  /\ endSlot
  /\ UNCHANGED <<nextActiveSlotOffset, currentScheduleEntry, syncnum, rxTasks, taskVars>>

\* Mutant: the schedule does not advance over a slot that is aborted.
OverrunWithoutAdvance ==
  /\ StaysInSync
  /\ slotOffset' = nextActiveSlotOffset
  /\ state # "S_SLEEP"
  /\ endSlot
  /\ UNCHANGED <<currentScheduleEntry, nextActiveSlotOffset, syncnum, rxTasks, taskVars>>

\* The previous slot is still in progress.
NewSlotOverrun ==
  /\ StaysInSync
  /\ slotOffset' = nextActiveSlotOffset
  /\ AdvanceSchedule
  /\ state # "S_SLEEP"
  /\ endSlot
  /\ UNCHANGED <<syncnum, rxTasks, taskVars>>

\* A packet ready for the MAC: sixtop_send_internal on a new buffer.
HandedDown(creator) ==
  [creator |-> creator, owner |-> "SIXTOP_TO_IEEE802154E",
   retries |-> 1, kind |-> "UNDEFINED"]

\* light_trigger_SENSOR sends a burst: the calls of light_send_one_packet
\* take the first free buffers, and those that find none do nothing.
Burst(q) ==
  LET Got(b) == /\ b \in FreeBuffers(q)
                /\ Cardinality({c \in FreeBuffers(q) : c < b}) < LIGHT_BURSTSIZE
  IN [b \in Buffers |-> IF Got(b) THEN HandedDown("LIGHT") ELSE q[b]]

\* light_trigger: only the sensor sends, when its light has switched.
Triggered(q) == IF Role = "sensor" THEN {q, Burst(q)} ELSE {q}

\* sixtop_sendEB
SendEB(q) ==
  IF ~hasRank THEN RemoveAllCreatedBy(q, "SIXTOP")
  ELSE IF FreeBuffers(q) = {} THEN q
  ELSE [q EXCEPT ![First(FreeBuffers(q))] = HandedDown("SIXTOP")]

\* Mutant: the type of the slot is read before the schedule advances.
StartsOfLastCell ==
  UNION { IF currentScheduleEntry \in EbSlots
            THEN {<<r, MacGetEBPacket(r)>> : r \in {q, SendEB(q)}}
            ELSE {q} \X {Null, MacGetDataPacket(q)} : q \in Triggered(queue) }

\* The queue and the packet with which a slot may start: an EB cell may
\* create an EB and sends the first there is, a TXRX cell may send the first
\* data packet; both draws are random.
Starts ==
  UNION { IF currentScheduleEntry' \in EbSlots
            THEN {<<r, MacGetEBPacket(r)>> : r \in {q, SendEB(q)}}
            ELSE {q} \X {Null, MacGetDataPacket(q)} : q \in Triggered(queue) }

NewSlotActive ==
  /\ StaysInSync
  /\ slotOffset' = nextActiveSlotOffset
  /\ AdvanceSchedule
  /\ state = "S_SLEEP"
  /\ \E start \in Starts :
       LET q == start[1]
           b == start[2]
       IN /\ dataToSend' = b
          /\ IF b = Null
               THEN /\ state' = "S_RXDATAOFFSET"
                    /\ queue' = q
                    /\ UNCHANGED syncnum
               ELSE /\ state' = "S_TXDATAOFFSET"
                    /\ queue' = [q EXCEPT ![b].owner = "IEEE802154E"]
                    /\ syncnum' = IF isDAGroot /\ currentScheduleEntry' \in EbSlots
                                    THEN (syncnum + 1) % SYNCNUMS ELSE syncnum
  /\ timer' = TRUE
  /\ UNCHANGED <<radioOn, rxTasks, txTasks, taskVars>>

\* isr_ieee154e_newSlot
NewSlot ==
  \/ NewSlotSearching \/ NewSlotDesync
  \/ NewSlotInactive \/ NewSlotOverrun \/ NewSlotActive

-----------------------------------------------------------------------------
(***************************************************************************)
(* The timer of the state machine: isr_ieee154e_timer.                     *)
(***************************************************************************)

\* activity_ti2, ti3, ri2 and ri3: to the next state, the timer armed again.
TimedSteps ==
  { <<"S_TXDATAOFFSET", "S_TXDATAREADY">>, <<"S_TXDATAREADY", "S_TXDATADELAY">>,
    <<"S_RXDATAOFFSET", "S_RXDATAREADY">>, <<"S_RXDATAREADY", "S_RXDATALISTEN">> }

TimerStep ==
  /\ timer
  /\ \E to \in States : <<state, to>> \in TimedSteps /\ state' = to
  /\ radioOn' = TRUE
  /\ UNCHANGED <<timer, dataToSend, queue, txTasks>>

\* activity_tie2, tie3, rie2 and rie3: a watchdog ends the slot.
TimerWatchdog ==
  /\ timer
  /\ state \notin {step[1] : step \in TimedSteps}
  /\ endSlot

TimerFires ==
  /\ TimerStep \/ TimerWatchdog
  /\ UNCHANGED <<slotVars, syncVars, rxTasks, taskVars>>

-----------------------------------------------------------------------------
(***************************************************************************)
(* The radio.  It may call either callback while it is on: the handlers do *)
(* not rely on the driver to pair them.                                    *)
(***************************************************************************)

\* ieee154e_startOfFrame.  Unsynchronised, a mote that is not listening
\* ignores the frame.
StartOfFrame ==
  /\ radioOn
  /\ \/ /\ ~isSync
        /\ state' = IF state = "S_SYNCLISTEN" THEN "S_SYNCRX" ELSE state
        /\ UNCHANGED <<timer, radioOn, dataToSend, queue, txTasks>>
     \/ /\ isSync /\ state = "S_TXDATADELAY"
        /\ state' = "S_TXDATA"
        /\ timer' = TRUE
        /\ UNCHANGED <<radioOn, dataToSend, queue, txTasks>>
     \/ /\ isSync /\ state \in {"S_RXDATAREADY", "S_RXDATALISTEN"}
        /\ state' = "S_RXDATA"
        /\ timer' = TRUE
        /\ UNCHANGED <<radioOn, dataToSend, queue, txTasks>>
     \/ /\ isSync /\ state \notin {"S_TXDATADELAY", "S_RXDATAREADY", "S_RXDATALISTEN"}
        /\ endSlot
  /\ UNCHANGED <<slotVars, syncVars, rxTasks, taskVars>>

(***************************************************************************)
(* What radio_getReceivedFrame may return.  The kind is "UNDEFINED" when   *)
(* the length, the CRC, the type, the topology or the position in the slot *)
(* is wrong.  A beacon carries the ASN of its slot, and motes send them in *)
(* EB cells only (EbOnlyInEbSlot below is the same mote's side of it).     *)
(***************************************************************************)
Frames == [kind : Kinds, syncnum : 0 .. SYNCNUMS - 1,
           slot : EbSlots, fromParent : BOOLEAN]

\* Mutant: the frame is handed up without changing its owner.
ReceivedByMac(kind) ==
  [creator |-> "IEEE802154E", owner |-> "IEEE802154E",
   retries |-> 0, kind |-> kind]

Received(kind) ==
  [creator |-> "IEEE802154E", owner |-> "IEEE802154E_TO_SIXTOP",
   retries |-> 0, kind |-> kind]

\* activity_synchronize_endOfFrame.  In a state other than S_SYNCRX it calls
\* endSlot and goes on: without its return, a frame that is then dropped
\* leaves S_SYNCLISTEN with the radio off.
EndOfFrameSearching(frame) ==
  LET new == FreePacketBuffer(queue, isSync, "IEEE802154E") IN
  /\ radioOn /\ ~isSync
  /\ \/ /\ new = Null
        /\ Sleep
        /\ UNCHANGED <<slotVars, syncVars, queue, rxTasks>>
     \/ /\ new # Null
        /\ frame.kind # "BEACON" \/ frame.syncnum = syncnum
        /\ state' = "S_SYNCLISTEN"
        /\ radioOn' = (state = "S_SYNCRX")
        /\ UNCHANGED <<timer, dataToSend, slotVars, syncVars, queue, rxTasks>>
     \/ /\ new # Null
        /\ frame.kind = "BEACON" /\ frame.syncnum # syncnum
        /\ syncnum' = frame.syncnum
        /\ slotOffset' = frame.slot
        /\ currentScheduleEntry' = frame.slot
        /\ nextActiveSlotOffset' = NextEntry(frame.slot)
        /\ deSyncTimeout' = DESYNCTIMEOUT
        /\ isSync' = TRUE
        /\ queue' = [queue EXCEPT ![new] = Received(frame.kind)]
        /\ rxTasks' = rxTasks + 1
        /\ Sleep
        /\ UNCHANGED joinChannelChangingCounter
  /\ UNCHANGED <<txTasks, taskVars>>

\* activity_ti5: the packet went out.
EndOfSentFrame ==
  /\ radioOn /\ isSync /\ state = "S_TXDATA"
  /\ Sleep
  /\ queue' = HandUp(queue, dataToSend)
  /\ txTasks' = txTasks + 1
  /\ UNCHANGED <<slotVars, syncVars, rxTasks, taskVars>>

\* Mutant: any frame of the preferred parent is good.
ResyncsByAny(frame) == ~isDAGroot /\ frame.fromParent

\* Only a new syncnum from the preferred parent keeps a mote synchronised.
Resyncs(frame) == ~isDAGroot /\ frame.fromParent /\ frame.syncnum # syncnum

\* activity_ri5
EndOfReceivedFrame(frame) ==
  LET new == FreePacketBuffer(queue, isSync, "IEEE802154E")
      accepted == new # Null /\ frame.kind # "UNDEFINED"
      resyncs == accepted /\ Resyncs(frame)
  IN
  /\ radioOn /\ isSync /\ state = "S_RXDATA"
  /\ Sleep
  /\ IF accepted
       THEN /\ queue' = [queue EXCEPT ![new] = Received(frame.kind)]
            /\ rxTasks' = rxTasks + 1
       ELSE UNCHANGED <<queue, rxTasks>>
  /\ deSyncTimeout' = IF resyncs THEN DESYNCTIMEOUT ELSE deSyncTimeout
  /\ syncnum' = IF resyncs THEN frame.syncnum ELSE syncnum
  /\ UNCHANGED <<slotVars, isSync, joinChannelChangingCounter, txTasks, taskVars>>

EndOfUnexpectedFrame ==
  /\ radioOn /\ isSync /\ state \notin {"S_TXDATA", "S_RXDATA"}
  /\ endSlot
  /\ UNCHANGED <<slotVars, syncVars, rxTasks, taskVars>>

\* ieee154e_endOfFrame
EndOfFrame ==
  \/ \E frame \in Frames : EndOfFrameSearching(frame) \/ EndOfReceivedFrame(frame)
  \/ EndOfSentFrame \/ EndOfUnexpectedFrame

Interrupt == NewSlot \/ TimerFires \/ StartOfFrame \/ EndOfFrame

-----------------------------------------------------------------------------
(***************************************************************************)
(* The task loop.  A receive task goes before a sendDone task.             *)
(***************************************************************************)

\* Mutant: a task does not take the ownership of its packet.
OwnerUnchanged(b, owner) == queue

Owner(b, owner) == [queue EXCEPT ![b].owner = owner]

\* task_sixtopNotifReceive takes the first received packet.
TakeReceived ==
  /\ task = "idle" /\ rxTasks > 0
  /\ rxTasks' = rxTasks - 1
  /\ msg' = SixtopGetReceivedPacket(queue)
  /\ IF msg' = Null
       THEN critical' = TRUE /\ UNCHANGED <<task, queue>>
       ELSE /\ task' = "process"
            /\ queue' = Owner(msg', "SIXTOP")
            /\ UNCHANGED critical
  /\ UNCHANGED <<txTasks, pkt, hasRank>>

\* neighbors_indicateRxEB and light_receive_beacon: the mote may get a rank,
\* which it never loses.  The sensor stops there.
ProcessBeacon ==
  /\ task = "process" /\ queue[msg].kind = "BEACON"
  /\ hasRank' \in {hasRank, TRUE}
  /\ queue' = Owner(msg, IF Role = "sensor" THEN "NEIGHBORS" ELSE "LIGHT")
  /\ task' = "free"
  /\ UNCHANGED <<rxTasks, txTasks, msg, pkt, critical>>

\* light_receive_data up to the decision to forward, the sink never does.
ProcessData ==
  /\ task = "process" /\ queue[msg].kind = "DATA"
  /\ IF isSync /\ Role # "sensor"
       THEN /\ queue' = Owner(msg, "LIGHT")
            /\ task' \in (IF Role = "relay" THEN {"forward", "free"} ELSE {"free"})
       ELSE UNCHANGED queue /\ task' = "free"
  /\ UNCHANGED <<rxTasks, txTasks, msg, pkt, hasRank, critical>>

\* light_send_one_packet, called by light_receive_data: the mote may have
\* lost the synchronisation in between.
GetForward ==
  /\ task = "forward"
  /\ pkt' = FreePacketBuffer(queue, isSync, "LIGHT")
  /\ IF pkt' = Null
       THEN task' = "free" /\ UNCHANGED queue
       ELSE task' = "send" /\ queue' = Claim(queue, pkt', "LIGHT")
  /\ UNCHANGED <<rxTasks, txTasks, msg, hasRank, critical>>

\* sixtop_send: the last thing it does is to change the owner.
SendForward ==
  /\ task = "send"
  /\ queue' = [queue EXCEPT ![pkt].retries = 1,
                            ![pkt].owner = "SIXTOP_TO_IEEE802154E"]
  /\ pkt' = Null
  /\ task' = "free"
  /\ UNCHANGED <<rxTasks, txTasks, msg, hasRank, critical>>

\* task_sixtopNotifSendDone: EBs and data packets alike are freed.
TakeSent ==
  /\ task = "idle" /\ rxTasks = 0 /\ txTasks > 0
  /\ txTasks' = txTasks - 1
  /\ msg' = SixtopGetSentPacket(queue)
  /\ IF msg' = Null
       THEN critical' = TRUE /\ UNCHANGED <<task, queue>>
       ELSE /\ task' = "free"
            /\ queue' = Owner(msg', "SIXTOP")
            /\ UNCHANGED critical
  /\ UNCHANGED <<rxTasks, pkt, hasRank>>

\* openqueue_freePacketBuffer, the last step of every task.
FreeMsg ==
  /\ task = "free"
  /\ critical' = (critical \/ queue[msg].owner = "NULL")
  /\ queue' = FreePacket(queue, msg)
  /\ msg' = Null
  /\ task' = "idle"
  /\ UNCHANGED <<rxTasks, txTasks, pkt, hasRank>>

Task ==
  /\ \/ TakeReceived \/ ProcessBeacon \/ ProcessData
     \/ GetForward \/ SendForward \/ TakeSent \/ FreeMsg
  /\ UNCHANGED <<slotVars, syncVars, fsmVars>>

-----------------------------------------------------------------------------

Next == Interrupt \/ Task

(***************************************************************************)
(* The slot timer is periodic and never stopped, and the processor runs    *)
(* the tasks when it serves no interrupt.  Nothing obliges the radio to    *)
(* call back, or the state machine's timer to beat the end of the slot.    *)
(***************************************************************************)
Spec == Init /\ [][Next]_vars /\ WF_vars(NewSlot) /\ WF_vars(Task)

-----------------------------------------------------------------------------
(***************************************************************************)
(* Properties.                                                             *)
(***************************************************************************)

\* Every variable of the MAC, of the pool and of the tasks has its type.
TypeOK ==
  /\ isSync \in BOOLEAN /\ timer \in BOOLEAN /\ radioOn \in BOOLEAN
  /\ hasRank \in BOOLEAN /\ critical \in BOOLEAN
  /\ state \in States
  /\ slotOffset \in 0 .. SLOTFRAME_LENGTH - 1
  /\ nextActiveSlotOffset \in ActiveSlots /\ currentScheduleEntry \in ActiveSlots
  /\ deSyncTimeout \in 0 .. DESYNCTIMEOUT
  /\ syncnum \in 0 .. SYNCNUMS - 1
  /\ joinChannelChangingCounter \in 0 .. EB_SLOWHOPPING_PERIOD - 1
  /\ dataToSend \in Pointers /\ msg \in Pointers /\ pkt \in Pointers
  /\ queue \in [Buffers -> Entries]
  /\ rxTasks \in Nat /\ txTasks \in Nat
  /\ task \in {"idle", "process", "forward", "send", "free"}

\* The MAC has a packet exactly while it is transmitting, it is the only one
\* it owns, and it is one 6top created, with one transmission left: no way
\* out of a slot (success, watchdog, wrong state, overrun, desynchronisation)
\* forgets a packet in the MAC or leaves dataToSend on one it gave back.
MacOwnsDataToSend ==
  /\ OwnedBy(queue, "IEEE802154E") = (IF dataToSend = Null THEN {} ELSE {dataToSend})
  /\ (dataToSend # Null) <=> (state \in TxStates)
  /\ dataToSend # Null => /\ queue[dataToSend].creator \in {"SIXTOP", "LIGHT"}
                          /\ queue[dataToSend].retries = 1

\* The receive and sendDone tasks carry no pointer: they look the packet up
\* when they run.  There is one task per packet handed up, whatever is
\* received or sent between the push and the run.
OneTaskPerPacket ==
  /\ rxTasks = Cardinality(ReceivedPackets(queue))
  /\ txTasks = Cardinality(SentPackets(queue))

\* Every buffer that is neither free nor in the hands of the MAC or of a
\* pushed task is the packet of the running task: no path through the tasks
\* leaks a buffer.
NoBufferStranded ==
  \A b \in Buffers :
    queue[b].owner \in {"OPENQUEUE", "SIXTOP", "NEIGHBORS", "LIGHT"}
      => b \in {msg, pkt} /\ task # "idle"

\* The critical errors of the packet path (no packet for a task, a free
\* buffer freed again), each of which reboots the mote, do not happen.
NoCritical == ~critical

\* While a synchronised mote is busy in a slot a timer is armed that will end
\* the slot, and a mote asleep has its timer and its radio off.
WatchdogArmed ==
  /\ timer <=> state \in TxStates \cup RxStates
  /\ state = "S_SLEEP" => ~radioOn

\* The MAC states are those of the mode: no slot of a synchronised mote finds
\* it searching, and a mote that lost the synchronisation is not in a slot.
StatesOfMode ==
  IF isSync THEN state \notin SyncStates ELSE state \in SyncStates \cup {"S_SLEEP"}

\* The cell the schedule is at is the last active one at or before this slot,
\* and nextActiveSlotOffset is the one after it.
Aligned ==
  /\ currentScheduleEntry =
       IF slotOffset \in ActiveSlots THEN slotOffset ELSE NUM_EB_SLOTS + NUM_TXRX_SLOTS - 1
  /\ nextActiveSlotOffset = NextEntry(currentScheduleEntry)

\* A mote that synchronised to an EB uses in each slot the cell of that slot,
\* through every overrun, lost frame and resynchronisation.
AlignedWhenSynced == isSync /\ ~isDAGroot => Aligned

\* A DAG root, which starts with slot offset 0 behind, gets aligned in its
\* second slotframe and stays so.
RootGetsAligned == isDAGroot => <>[]Aligned

\* Once aligned, a mote is until it loses the synchronisation.
AlignedIsStable == [][isSync /\ Aligned => ~isSync' \/ Aligned']_vars

\* EBs, whose ASN gives the slot offset to those who join, go out in the EB
\* slots, and data packets in the other active ones.
EbOnlyInEbSlot ==
  dataToSend # Null =>
    /\ slotOffset \in ActiveSlots
    /\ (queue[dataToSend].creator = "SIXTOP") <=> (slotOffset \in EbSlots)

\* A synchronised mote's deSyncTimeout is running, so that its decrement does
\* not wrap: it is desynchronised within DESYNCTIMEOUT slots of the last
\* resynchronisation.
DesyncRuns == isSync /\ ~isDAGroot => deSyncTimeout \in 1 .. DESYNCTIMEOUT

\* A mote without the synchronisation gets its radio listening again, even
\* after endOfFrame left it deaf in S_SYNCLISTEN.
ListensAgain == ~isSync ~> (radioOn \/ isSync)

\* A mote is synchronised on a lease, which the DAG root does not need.
Leasers == {Role} \ {"root"}

Lease == INSTANCE TimeLease WITH
  Holders <- Leasers, Resets <- {},
  Term <- DESYNCTIMEOUT, Numbers <- 0 .. SYNCNUMS - 1,
  held <- [m \in Leasers |-> isSync],
  left <- [m \in Leasers |-> deSyncTimeout],
  number <- [m \in Leasers |-> syncnum]

\* Only a number that the mote has not had last gets it the synchronisation or
\* prolongs it, and nothing but the slot timer uses the term up, by one for
\* each slot: overruns, frames without news and the end of a slot in progress
\* neither lose nor gain time.
LeaseSpec == Lease!Spec

\* How the pool's promises read in the state of the firmware.
PhaseOf(e) ==
  IF e.owner = "NULL" THEN "free"
  ELSE IF e.owner = "IEEE802154E" THEN "mac"
  ELSE IF e.owner = "SIXTOP_TO_IEEE802154E" THEN "queued"
  ELSE IF e.owner # "IEEE802154E_TO_SIXTOP" THEN "held"
  ELSE IF e.creator = "IEEE802154E" THEN "rcvd" ELSE "sent"

Pool == INSTANCE PacketPool WITH phase <- [b \in Buffers |-> PhaseOf(queue[b])]

\* The buffers of this mote live the life that PacketPool describes.
PoolSpec == Pool!Spec

\* A packet given to the MAC comes back to 6top, sent or not.
PoolReturned == Pool!Returned

=============================================================================
