----------------------- MODULE Ieee154eControlProofs ------------------------
(***************************************************************************)
(* Proofs about the control of the MAC of module Ieee154e: its states and  *)
(* its timer, and the slot offset and the schedule.                        *)
(***************************************************************************)
EXTENDS Ieee154eProofs

USE QueueAssumption, MoteAssumption

-----------------------------------------------------------------------------
(***************************************************************************)
(* States and timer.                                                       *)
(***************************************************************************)

ControlInv == WatchdogArmed /\ StatesOfMode

\* What every way out of a slot establishes, whatever the mode after it.
LEMMA SleepControls ==
  ASSUME Sleep, isSync' \in BOOLEAN
  PROVE  ControlInv'
  BY DEF Sleep, ControlInv, WatchdogArmed, StatesOfMode, SyncStates, TxStates, RxStates

\* The timed steps of activity_ti2 to ri3 lead from a state of a slot to
\* another one.
LEMMA TimedStepsStay ==
  ASSUME NEW from, NEW to, <<from, to>> \in TimedSteps
  PROVE  to \in TxStates \cup RxStates
  BY DEF TimedSteps, TxStates, RxStates

LEMMA EndSlotSleeps == endSlot => Sleep
  BY DEF endSlot

LEMMA ControlStep ==
  ASSUME TypeOK, TypeOK', ControlInv, [Next]_vars
  PROVE  ControlInv'
<1> USE DEF ControlInv
<1>0. isSync' \in BOOLEAN
  BY DEF TypeOK
<1>1. ASSUME Sleep PROVE ControlInv'
  BY <1>0, <1>1, SleepControls
<1>2. CASE NewSlotSearching
  <2>1. state \in {"S_SYNCLISTEN", "S_SYNCRX", "S_SLEEP"} /\ ~timer /\ timer' = timer
    BY <1>2 DEF NewSlotSearching, StatesOfMode, WatchdogArmed, SyncStates, TxStates, RxStates
  <2>2. state' \in SyncStates
    BY <1>2 DEF NewSlotSearching, SyncStates
  <2> QED BY <1>2, <2>1, <2>2
          DEF NewSlotSearching, StatesOfMode, WatchdogArmed, SyncStates, TxStates, RxStates
<1>3. CASE NewSlotDesync \/ NewSlotInactive \/ NewSlotOverrun
  BY <1>1, <1>3, EndSlotSleeps DEF NewSlotDesync, NewSlotInactive, NewSlotOverrun
<1>4. CASE NewSlotActive
  <2>1. state' \in {"S_RXDATAOFFSET", "S_TXDATAOFFSET"}
    BY <1>4 DEF NewSlotActive
  <2>2. timer' = TRUE /\ isSync'
    BY <1>4 DEF NewSlotActive, StaysInSync
  <2> QED BY <2>1, <2>2 DEF StatesOfMode, WatchdogArmed, SyncStates, TxStates, RxStates
<1>5. CASE TimerFires
  <2>1. CASE TimerStep
    <3>1. state' \in TxStates \cup RxStates
      BY <2>1, TimedStepsStay DEF TimerStep
    <3>2. state \in TxStates \cup RxStates
      BY <2>1 DEF TimerStep, WatchdogArmed
    <3>3. timer' /\ isSync' = isSync
      BY <1>5, <2>1 DEF TimerFires, TimerStep, syncVars
    <3> QED BY <3>1, <3>2, <3>3 DEF StatesOfMode, WatchdogArmed, SyncStates, TxStates, RxStates
  <2> QED BY <1>1, <1>5, <2>1, EndSlotSleeps DEF TimerFires, TimerWatchdog
<1>6. CASE StartOfFrame
  <2>1. isSync' = isSync
    BY <1>6 DEF StartOfFrame, syncVars
  <2>2. CASE /\ ~isSync
             /\ state' = IF state = "S_SYNCLISTEN" THEN "S_SYNCRX" ELSE state
             /\ UNCHANGED <<timer, radioOn, dataToSend, queue, txTasks>>
    BY <2>1, <2>2 DEF StatesOfMode, WatchdogArmed, SyncStates, TxStates, RxStates
  <2>3. CASE isSync /\ state' \in {"S_TXDATA", "S_RXDATA"} /\ timer' = TRUE
    BY <2>1, <2>3 DEF StatesOfMode, WatchdogArmed, SyncStates, TxStates, RxStates
  <2> QED BY <1>1, <1>6, <2>2, <2>3, EndSlotSleeps DEF StartOfFrame
<1>7. CASE EndOfFrame
  <2>1. ASSUME NEW frame, EndOfFrameSearching(frame)
        PROVE  ControlInv'
    <3>1. CASE /\ state' = "S_SYNCLISTEN"
               /\ UNCHANGED <<timer, dataToSend, slotVars, syncVars, queue, rxTasks>>
      <4>1. ~isSync' /\ ~timer'
        BY <2>1, <3>1
           DEF EndOfFrameSearching, syncVars, StatesOfMode, WatchdogArmed,
               SyncStates, TxStates, RxStates
      <4> QED BY <3>1, <4>1 DEF StatesOfMode, WatchdogArmed, SyncStates, TxStates, RxStates
    <3> QED BY <1>1, <2>1, <3>1 DEF EndOfFrameSearching
  <2>2. ASSUME NEW frame, EndOfReceivedFrame(frame)
        PROVE  ControlInv'
    BY <1>1, <2>2 DEF EndOfReceivedFrame
  <2> QED BY <1>1, <1>7, <2>1, <2>2, EndSlotSleeps
          DEF EndOfFrame, EndOfSentFrame, EndOfUnexpectedFrame
<1>8. CASE Task
  BY <1>8 DEF Task, fsmVars, syncVars, StatesOfMode, WatchdogArmed
<1>9. CASE UNCHANGED vars
  BY <1>9 DEF vars, fsmVars, syncVars, StatesOfMode, WatchdogArmed
<1> QED BY <1>2, <1>3, <1>4, <1>5, <1>6, <1>7, <1>8, <1>9 DEF Next, Interrupt, NewSlot

\* A synchronised mote in a slot has the timer armed that will end it, a mote
\* asleep has its timer and its radio off, and the states of a mote are those
\* of its mode, however the slot timer, the state machine's timer, the radio
\* and the desynchronisation interleave.
THEOREM ControlCorrect == Spec => [](WatchdogArmed /\ StatesOfMode)
<1>1. Init => ControlInv
  BY DEF Init, ControlInv, WatchdogArmed, StatesOfMode, SyncStates, TxStates, RxStates
<1>2. TypeOK /\ TypeOK' /\ ControlInv /\ [Next]_vars => ControlInv'
  BY ControlStep
<1>3. Spec => []TypeOK
  BY TypeCorrect, PTL
<1>4. Spec => []ControlInv
  BY <1>1, <1>2, <1>3, PTL DEF Spec
<1> QED BY <1>4, PTL DEF ControlInv

\* The state of the slot's state machine is always one of the mode the mote is
\* in: the synchronisation, a transmission or a reception.
THEOREM StatesCorrect == Spec => []StatesOfMode
  BY ControlCorrect, PTL

-----------------------------------------------------------------------------
(***************************************************************************)
(* The slot offset and the schedule.                                       *)
(***************************************************************************)

\* A new slot that is not the next active one leaves the schedule on the last
\* active cell, where it belongs.
LEMMA InactiveAligned ==
  ASSUME TypeOK, Aligned, IncrementSlotOffset, slotOffset' # nextActiveSlotOffset,
         UNCHANGED <<nextActiveSlotOffset, currentScheduleEntry>>
  PROVE  Aligned'
<1> USE DEF TypeOK, ActiveSlots, Aligned, NextEntry, IncrementSlotOffset
<1>1. CASE slotOffset \in ActiveSlots
  <2>1. slotOffset' # NextEntry(slotOffset)
    BY <1>1
  <2>2. slotOffset + 1 \notin ActiveSlots
    <3> SUFFICES ASSUME slotOffset + 1 \in ActiveSlots PROVE FALSE
      OBVIOUS
    <3>1. slotOffset + 1 # SLOTFRAME_LENGTH
      OBVIOUS
    <3> QED BY <2>1, <3>1
  <2>3. slotOffset = NUM_EB_SLOTS + NUM_TXRX_SLOTS - 1
    BY <1>1, <2>2
  <2>4. slotOffset' \notin ActiveSlots
    BY <2>1, <2>2, <2>3
  <2> QED BY <1>1, <2>3, <2>4
<1>2. CASE slotOffset \notin ActiveSlots
  BY <1>2
<1> QED BY <1>1, <1>2

\* A new slot that is the next active one moves the schedule to its cell.
LEMMA ActiveAligned ==
  ASSUME TypeOK, Aligned, AdvanceSchedule, slotOffset' = nextActiveSlotOffset
  PROVE  Aligned'
  BY ScheduleTypes DEF TypeOK, Aligned, AdvanceSchedule

\* While it is synchronised nothing brings an aligned mote out of alignment.
LEMMA AlignedStep ==
  ASSUME TypeOK, isSync, Aligned, [Next]_vars
  PROVE  ~isSync' \/ Aligned'
<1>1. CASE UNCHANGED slotVars
  BY <1>1 DEF slotVars, Aligned
<1>2. CASE NewSlotInactive
  BY <1>2, InactiveAligned DEF NewSlotInactive, StaysInSync
<1>3. CASE NewSlotOverrun
  BY <1>3, ActiveAligned DEF NewSlotOverrun
<1>4. CASE NewSlotActive
  BY <1>4, ActiveAligned DEF NewSlotActive
<1>5. CASE NewSlotSearching \/ NewSlotDesync
  BY <1>5 DEF NewSlotSearching, NewSlotDesync
<1>6. CASE TimerFires \/ StartOfFrame
  BY <1>1, <1>6 DEF TimerFires, StartOfFrame
<1>7. CASE EndOfFrame
  BY <1>1, <1>7
     DEF EndOfFrame, EndOfFrameSearching, EndOfReceivedFrame, EndOfSentFrame,
         EndOfUnexpectedFrame
<1>8. CASE Task \/ UNCHANGED vars
  BY <1>1, <1>8 DEF Task, vars
<1> QED BY <1>2, <1>3, <1>4, <1>5, <1>6, <1>7, <1>8 DEF Next, Interrupt, NewSlot

\* The beacon a mote joins with gives it the slot offset of an EB cell, and
\* the schedule is set to that cell.
LEMMA JoinAligned ==
  ASSUME TypeOK, ~isSync, [Next]_vars, isSync'
  PROVE  Aligned'
<1>1. CASE UNCHANGED syncVars
  BY <1>1 DEF syncVars
<1>2. CASE NewSlot
  BY <1>2
     DEF NewSlot, NewSlotSearching, NewSlotDesync, NewSlotInactive,
         NewSlotOverrun, NewSlotActive, StaysInSync
<1>3. CASE \E frame \in Frames : EndOfFrameSearching(frame)
  <2>1. PICK frame \in Frames : EndOfFrameSearching(frame)
    BY <1>3
  <2>2. /\ slotOffset' = frame.slot
        /\ currentScheduleEntry' = frame.slot
        /\ nextActiveSlotOffset' = NextEntry(frame.slot)
    BY <2>1 DEF EndOfFrameSearching, syncVars
  <2>3. frame.slot \in ActiveSlots
    BY ScheduleTypes DEF Frames
  <2> QED BY <2>2, <2>3 DEF Aligned
<1>4. CASE TimerFires \/ StartOfFrame \/ Task \/ UNCHANGED vars
  BY <1>1, <1>4 DEF TimerFires, StartOfFrame, Task, vars
<1>5. CASE EndOfSentFrame \/ EndOfUnexpectedFrame
           \/ \E frame \in Frames : EndOfReceivedFrame(frame)
  BY <1>5 DEF EndOfSentFrame, EndOfUnexpectedFrame, EndOfReceivedFrame
<1> QED BY <1>2, <1>3, <1>4, <1>5 DEF Next, Interrupt, EndOfFrame

\* A mote that joined the network by an EB uses in each slot the cell of that
\* slot for as long as it is synchronised.
THEOREM AlignmentCorrect == Spec => []AlignedWhenSynced
<1>1. Init => AlignedWhenSynced
  BY DEF Init, AlignedWhenSynced
<1>2. TypeOK /\ AlignedWhenSynced /\ [Next]_vars => AlignedWhenSynced'
  BY AlignedStep, JoinAligned DEF AlignedWhenSynced, isDAGroot
<1>3. Spec => []TypeOK
  BY TypeCorrect, PTL
<1> QED BY <1>1, <1>2, <1>3, PTL DEF Spec

\* A mote of any role, once aligned, is until it loses the synchronisation:
\* no overrun, watchdog, lost frame or resynchronisation shifts the schedule
\* against the slot offset.
THEOREM AlignmentStable == Spec => AlignedIsStable
<1>1. TypeOK /\ [Next]_vars => [isSync /\ Aligned => ~isSync' \/ Aligned']_vars
  BY AlignedStep
<1>2. Spec => []TypeOK
  BY TypeCorrect, PTL
<1> QED BY <1>1, <1>2, PTL DEF Spec, AlignedIsStable

-----------------------------------------------------------------------------
(***************************************************************************)
(* The lease of the time.                                                  *)
(***************************************************************************)

TermRuns ==
  /\ isSync /\ isSync'
  /\ deSyncTimeout > 1 /\ deSyncTimeout' = deSyncTimeout - 1
  /\ UNCHANGED syncnum

TermEnds ==
  /\ isSync /\ ~isSync'
  /\ deSyncTimeout = 1 /\ deSyncTimeout' = 0
  /\ UNCHANGED syncnum

NewTerm ==
  /\ isSync' /\ deSyncTimeout' = DESYNCTIMEOUT
  /\ syncnum' \in (0 .. SYNCNUMS - 1) \ {syncnum}

TermKept == UNCHANGED <<isSync, deSyncTimeout, syncnum>>

\* A frame gives a new term or changes nothing.
LEMMA FrameTerms ==
  ASSUME NEW frame \in Frames, EndOfFrameSearching(frame) \/ EndOfReceivedFrame(frame)
  PROVE  NewTerm \/ TermKept
<1>1. frame.syncnum \in 0 .. SYNCNUMS - 1
  BY DEF Frames
<1>2. CASE EndOfFrameSearching(frame)
  BY <1>1, <1>2 DEF EndOfFrameSearching, syncVars, NewTerm, TermKept
<1>3. CASE EndOfReceivedFrame(frame)
  BY <1>1, <1>3 DEF EndOfReceivedFrame, Resyncs, NewTerm, TermKept
<1> QED BY <1>2, <1>3

LEMMA MoteTerms ==
  ASSUME TypeOK, DesyncRuns, ~isDAGroot, [Next]_vars
  PROVE  TermRuns \/ TermEnds \/ NewTerm \/ TermKept
<1>1. CASE NewSlotSearching
  BY <1>1 DEF NewSlotSearching, TermKept
<1>2. CASE NewSlotDesync
  BY <1>2 DEF NewSlotDesync, TermEnds
<1>3. CASE NewSlotInactive \/ NewSlotOverrun \/ NewSlotActive
  <2>1. StaysInSync /\ UNCHANGED syncnum
    BY <1>3 DEF NewSlotInactive, NewSlotOverrun, NewSlotActive
  <2>2. isSync /\ isSync' /\ deSyncTimeout # 1 /\ deSyncTimeout' = deSyncTimeout - 1
    BY <2>1 DEF StaysInSync
  <2>3. deSyncTimeout > 1
    BY <2>2 DEF DesyncRuns
  <2> QED BY <2>1, <2>2, <2>3 DEF TermRuns
<1>4. CASE TimerFires \/ StartOfFrame
  BY <1>4 DEF TimerFires, StartOfFrame, syncVars, TermKept
<1>5. CASE EndOfFrame
  BY <1>5, FrameTerms
     DEF EndOfFrame, EndOfSentFrame, EndOfUnexpectedFrame, syncVars, TermKept
<1>6. CASE Task \/ UNCHANGED vars
  BY <1>6 DEF Task, vars, syncVars, TermKept
<1> QED BY <1>1, <1>2, <1>3, <1>4, <1>5, <1>6 DEF Next, Interrupt, NewSlot

\* A step of a mote's term is a step of TimeLease; the DAG root holds none.
LEMMA LeaseNext ==
  ASSUME isDAGroot \/ TermRuns \/ TermEnds \/ NewTerm \/ TermKept
  PROVE  Lease!Next
<1> SUFFICES ASSUME NEW m \in Leasers
             PROVE  Lease!Run(m) \/ Lease!Expire(m) \/ Lease!Renew(m) \/ Lease!Keep(m)
  BY Zenon DEF Lease!Next
<1>1. ~isDAGroot
  BY DEF Leasers, isDAGroot
<1>2. /\ [n \in Leasers |-> isSync][m] = isSync
      /\ [n \in Leasers |-> deSyncTimeout][m] = deSyncTimeout
      /\ [n \in Leasers |-> syncnum][m] = syncnum
  OBVIOUS
<1>3. /\ [n \in Leasers |-> isSync]'[m] = isSync'
      /\ [n \in Leasers |-> deSyncTimeout]'[m] = deSyncTimeout'
      /\ [n \in Leasers |-> syncnum]'[m] = syncnum'
  OBVIOUS
<1>4. CASE TermRuns
  BY <1>2, <1>3, <1>4 DEF TermRuns, Lease!Run
<1>5. CASE TermEnds
  BY <1>2, <1>3, <1>5 DEF TermEnds, Lease!Expire
<1>6. CASE NewTerm
  BY <1>2, <1>3, <1>6 DEF NewTerm, Lease!Renew
<1>7. CASE TermKept
  BY <1>2, <1>3, <1>7 DEF TermKept, Lease!Keep
<1> QED BY <1>1, <1>4, <1>5, <1>6, <1>7

\* A mote is synchronised as TimeLease says: by numbers it has not had last
\* and for a term of slots, which no other interrupt or task prolongs or uses.
THEOREM LeaseRefines == Spec => LeaseSpec
<1>1. Init => Lease!Init
  BY DEF Init, Lease!Init, Leasers, isDAGroot
<1>2. TypeOK /\ DesyncRuns /\ [Next]_vars
        => [Lease!Next]_<<[m \in Leasers |-> isSync], [m \in Leasers |-> deSyncTimeout],
                          [m \in Leasers |-> syncnum]>>
  BY MoteTerms, LeaseNext
<1>3. Spec => [](TypeOK /\ DesyncRuns)
  BY TypeCorrect, PTL
<1> QED BY <1>1, <1>2, <1>3, PTL DEF Spec, LeaseSpec, Lease!Spec

=============================================================================
