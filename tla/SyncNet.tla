------------------------------ MODULE SyncNet ------------------------------
(***************************************************************************)
(* Several motes of FBR-TSCH on one time base: how a mote finds the        *)
(* network, takes its time from an EB, stays synchronised by the numbers   *)
(* that the DAG root issues (syncnum), and loses the synchronisation       *)
(* (openstack/02a-MAClow/IEEE802154E.c).                                   *)
(*                                                                         *)
(* A step is one slot of all motes: the slot edge of each, the frames      *)
(* sent in the slot, and their reception.  What happens within the slot of *)
(* one mote is module Ieee154e.  Any set of motes with an active cell may  *)
(* send, and each mote that listens receives one of the frames it can hear *)
(* on its channel, or none: a collision or a loss.  Whom a mote prefers is *)
(* the business of module Neighbors; here it is any of a set.              *)
(*                                                                         *)
(* The queue is not modelled: a mote may have an EB and a data packet to   *)
(* send in each slot.                                                      *)
(***************************************************************************)
EXTENDS Integers, FiniteSets

CONSTANTS
  Motes, Root, NoMote,
  Hears,                 \* whom a mote hears and accepts (topology.c)
  Parents,               \* whom its neighbour table may prefer
  Reboots,               \* the motes that may reboot
  SLOTFRAME_LENGTH,      \* schedule.h: 13
  NUM_EB_SLOTS,          \* schedule.h: 1
  NUM_TXRX_SLOTS,        \* schedule.h: 10
  chTemplateEB,          \* channels of the EBs, from 0: EB_NUMCHANS is 4
  chTemplate,            \* channels of the data packets, from 0: 16 of them
  EB_NUMCHANS, NUMCHANS,
  EB_SLOWHOPPING_PERIOD, \* 1000 slots
  DESYNCTIMEOUT,         \* 2169 slots
  SYNCNUMS,              \* the values of a syncnum: 256
  ASNS                   \* bound: ASNs are counted modulo this number

ASSUME SyncNetAssumption ==
  /\ Root \in Motes /\ NoMote \notin Motes
  /\ Hears \in [Motes -> SUBSET Motes]
  /\ Parents \in [Motes -> SUBSET Motes]
  /\ Reboots \subseteq Motes
  /\ SLOTFRAME_LENGTH \in Nat /\ NUM_EB_SLOTS \in Nat \ {0} /\ NUM_TXRX_SLOTS \in Nat
  /\ NUM_EB_SLOTS + NUM_TXRX_SLOTS <= SLOTFRAME_LENGTH
  /\ EB_NUMCHANS \in Nat \ {0} /\ NUMCHANS \in Nat \ {0}
  /\ EB_SLOWHOPPING_PERIOD \in Nat \ {0}
  /\ DESYNCTIMEOUT \in Nat \ {0}
  /\ SYNCNUMS \in Nat \ {0}

\* The hopping templates: EBs go out on different channels.
ASSUME TemplateAssumption ==
  /\ chTemplateEB \in [0 .. EB_NUMCHANS - 1 -> Nat]
  /\ \A i, j \in 0 .. EB_NUMCHANS - 1 : chTemplateEB[i] = chTemplateEB[j] => i = j
  /\ chTemplate \in [0 .. NUMCHANS - 1 -> Nat]

\* What is computed from an ASN is the same from the ASN modulo ASNS.
ASSUME AsnAssumption ==
  /\ ASNS \in Nat \ {0}
  /\ \A n \in {SLOTFRAME_LENGTH, EB_NUMCHANS, NUMCHANS} : ASNS % n = 0

ActiveSlots == 0 .. NUM_EB_SLOTS + NUM_TXRX_SLOTS - 1

EbSlots == 0 .. NUM_EB_SLOTS - 1

\* SYNCHRONIZING_CHANNEL: 26, the last of the EBs' channels.
SYNCHRONIZING_CHANNEL == chTemplateEB[EB_NUMCHANS - 1]

Off == -1

VARIABLES
  rootOn,                          \* the DAG root has power
  isSync, syncnum, deSyncTimeout,
  asn, slotOffset, ebAsnOffset, dataAsnOffset,
  freq,                            \* the channel searched, or Off
  joinChannelChangingCounter

timeVars == <<asn, slotOffset, ebAsnOffset, dataAsnOffset>>
vars == <<rootOn, isSync, syncnum, deSyncTimeout, timeVars, freq,
          joinChannelChangingCounter>>

Followers == Motes \ {Root}

\* ieee154e_init
Init ==
  /\ rootOn = TRUE
  /\ isSync = [m \in Motes |-> m = Root]
  /\ syncnum = [m \in Motes |-> 0]
  /\ deSyncTimeout = [m \in Motes |-> 0]
  /\ asn = [m \in Motes |-> 0]
  /\ slotOffset = [m \in Motes |-> 0]
  /\ ebAsnOffset = [m \in Motes |-> 0]
  /\ dataAsnOffset = [m \in Motes |-> 0]
  /\ freq = [m \in Motes |-> Off]
  /\ joinChannelChangingCounter = [m \in Motes |-> 0]

-----------------------------------------------------------------------------
(***************************************************************************)
(* The slot that begins.                                                   *)
(***************************************************************************)

Powered == Motes \ (IF rootOn THEN {} ELSE {Root})

\* incrementAsnOffset
Asn(m) == (asn[m] + 1) % ASNS
Slot(m) == (slotOffset[m] + 1) % SLOTFRAME_LENGTH
EbOffset(m) == (ebAsnOffset[m] + 1) % EB_NUMCHANS
DataOffset(m) == (dataAsnOffset[m] + 1) % NUMCHANS

\* Mutant: the timeout is compared before it is decremented.
DesynchronisesLate(m) == isSync[m] /\ m # Root /\ deSyncTimeout[m] = 0

\* The timeout of a mote is over in this slot.
Desynchronises(m) == isSync[m] /\ m # Root /\ deSyncTimeout[m] = 1

\* The motes that have a cell in this slot.
InCell == {m \in Powered : /\ isSync[m] /\ ~Desynchronises(m)
                           /\ Slot(m) \in ActiveSlots}

\* calculateFrequency, all cells having channel offset 0
Channel(m) == IF Slot(m) \in EbSlots THEN chTemplateEB[EbOffset(m)]
                                     ELSE chTemplate[DataOffset(m)]

HopCounter(m) == (joinChannelChangingCounter[m] + 1) % EB_SLOWHOPPING_PERIOD

\* activity_synchronize_newSlot: the channel a searching mote listens on, the
\* next one once in EB_SLOWHOPPING_PERIOD slots.
Searched(m) ==
  LET from == IF freq[m] = Off THEN SYNCHRONIZING_CHANNEL ELSE freq[m]
      i == CHOOSE i \in 0 .. EB_NUMCHANS - 1 : chTemplateEB[i] = from
  IN IF HopCounter(m) = 0 THEN chTemplateEB[(i + 1) % EB_NUMCHANS] ELSE from

Searching == {m \in Powered : ~isSync[m]}

\* The frames that a mote may receive: from those among the senders it can
\* hear that are on its channel.
Audible(m, senders) ==
  {s \in senders \cap Hears[m] :
     \/ m \in Searching /\ Channel(s) = Searched(m)
     \/ m \in InCell \ senders /\ Channel(s) = Channel(m)}

\* Mutant: EBs are sent in every active cell.
EbAnywhere(s) == TRUE

\* A frame is an EB in an EB cell.
IsEb(s) == Slot(s) \in EbSlots

-----------------------------------------------------------------------------
(***************************************************************************)
(* Reception.                                                              *)
(***************************************************************************)

\* Mutant: only a greater number is new, though numbers wrap.
JoinsByGreater(m, s) ==
  s # NoMote /\ ~isSync[m] /\ IsEb(s) /\ syncnum[s] > syncnum[m]

\* activity_synchronize_endOfFrame: any EB with another number than the last
\* is good to join.
Joins(m, s) ==
  s # NoMote /\ ~isSync[m] /\ IsEb(s) /\ syncnum[s] # syncnum[m]

\* Mutant: any number of the parent is good.
ResynchronisesByAny(m, s) ==
  s # NoMote /\ isSync[m] /\ m # Root /\ s \in Parents[m]

\* activity_ri5: a synchronised mote follows its parent's new numbers.
Resynchronises(m, s) ==
  /\ s # NoMote /\ isSync[m] /\ m # Root
  /\ s \in Parents[m] /\ syncnum[s] # syncnum[m]

\* The DAG root changes its number with each EB, after writing it there.
NumberSent(m, senders) ==
  IF m = Root /\ m \in senders /\ IsEb(m) THEN (syncnum[m] + 1) % SYNCNUMS
                                           ELSE syncnum[m]

\* Mutant: the offset is that of the slot after.
IndexAfter(c) ==
  ((CHOOSE i \in 0 .. EB_NUMCHANS - 1 : chTemplateEB[i] = c) + 1) % EB_NUMCHANS

\* The offset at which the EBs are on channel c.
IndexOf(c) == CHOOSE i \in 0 .. EB_NUMCHANS - 1 : chTemplateEB[i] = c

\* The slot of every mote: who sends, and what each listener receives.
SlotOf(senders, heard) ==
  LET On(m) == m \in Powered
      In(m) == Joins(m, heard[m])
      Re(m) == Resynchronises(m, heard[m])
  IN
  /\ isSync' = [m \in Motes |->
       IF On(m) THEN In(m) \/ (isSync[m] /\ ~Desynchronises(m)) ELSE isSync[m]]
  /\ syncnum' = [m \in Motes |->
       IF In(m) \/ Re(m) THEN syncnum[heard[m]] ELSE NumberSent(m, senders)]
  /\ deSyncTimeout' = [m \in Motes |->
       IF In(m) \/ Re(m) THEN DESYNCTIMEOUT
       ELSE IF isSync[m] /\ m # Root THEN deSyncTimeout[m] - 1 ELSE deSyncTimeout[m]]
  /\ asn' = [m \in Motes |->
       IF ~On(m) THEN asn[m] ELSE IF In(m) THEN Asn(heard[m]) ELSE Asn(m)]
  /\ slotOffset' = [m \in Motes |->
       IF ~On(m) THEN slotOffset[m]
       ELSE IF In(m) THEN Asn(heard[m]) % SLOTFRAME_LENGTH ELSE Slot(m)]
  /\ ebAsnOffset' = [m \in Motes |->
       IF ~On(m) THEN ebAsnOffset[m]
       ELSE IF In(m) THEN IndexOf(Searched(m)) ELSE EbOffset(m)]
  /\ dataAsnOffset' = [m \in Motes |->
       IF ~On(m) THEN dataAsnOffset[m]
       ELSE IF In(m) THEN Asn(heard[m]) % NUMCHANS ELSE DataOffset(m)]
  /\ freq' = [m \in Motes |->
       IF m \in Searching /\ ~In(m) THEN Searched(m) ELSE Off]
  /\ joinChannelChangingCounter' = [m \in Motes |->
       IF m \in Searching THEN HopCounter(m) ELSE joinChannelChangingCounter[m]]

\* One frame, or none, for each mote.
Receptions(senders) ==
  {heard \in [Motes -> senders \cup {NoMote}] :
     \A m \in Motes : heard[m] # NoMote => heard[m] \in Audible(m, senders)}

SlotStep ==
  /\ \E senders \in SUBSET InCell : \E heard \in Receptions(senders) :
       SlotOf(senders, heard)
  /\ UNCHANGED rootOn

\* The DAG root stops.
RootStops == rootOn /\ rootOn' = FALSE /\ UNCHANGED <<isSync, syncnum,
  deSyncTimeout, timeVars, freq, joinChannelChangingCounter>>

\* A mote starts again: openserial_printCritical, or its power.
Reboot(m) ==
  /\ rootOn' = (rootOn \/ m = Root)
  /\ isSync' = [isSync EXCEPT ![m] = (m = Root)]
  /\ syncnum' = [syncnum EXCEPT ![m] = 0]
  /\ deSyncTimeout' = [deSyncTimeout EXCEPT ![m] = 0]
  /\ asn' = [asn EXCEPT ![m] = 0]
  /\ slotOffset' = [slotOffset EXCEPT ![m] = 0]
  /\ ebAsnOffset' = [ebAsnOffset EXCEPT ![m] = 0]
  /\ dataAsnOffset' = [dataAsnOffset EXCEPT ![m] = 0]
  /\ freq' = [freq EXCEPT ![m] = Off]
  /\ joinChannelChangingCounter' = [joinChannelChangingCounter EXCEPT ![m] = 0]

Next == SlotStep \/ RootStops \/ \E m \in Reboots : Reboot(m)

\* Slots come for ever.
Spec == Init /\ [][Next]_vars /\ WF_vars(SlotStep)

-----------------------------------------------------------------------------
(***************************************************************************)
(* Properties.                                                             *)
(***************************************************************************)

\* The variables of the motes keep their types.
TypeOK ==
  /\ rootOn \in BOOLEAN
  /\ isSync \in [Motes -> BOOLEAN]
  /\ syncnum \in [Motes -> 0 .. SYNCNUMS - 1]
  /\ deSyncTimeout \in [Motes -> 0 .. DESYNCTIMEOUT]
  /\ asn \in [Motes -> 0 .. ASNS - 1]
  /\ slotOffset \in [Motes -> 0 .. SLOTFRAME_LENGTH - 1]
  /\ ebAsnOffset \in [Motes -> 0 .. EB_NUMCHANS - 1]
  /\ dataAsnOffset \in [Motes -> 0 .. NUMCHANS - 1]
  /\ freq \in [Motes -> {Off} \cup {chTemplateEB[i] : i \in 0 .. EB_NUMCHANS - 1}]
  /\ joinChannelChangingCounter \in [Motes -> 0 .. EB_SLOWHOPPING_PERIOD - 1]

Synchronised == {m \in Powered : isSync[m]}

\* Motes that are synchronised, over however many hops and searches, agree on
\* the ASN, on the slot of the slotframe, and on both channel sequences: the
\* three offsets, each kept by a counter of its own and each taken from an EB
\* in its own way, never drift apart.
OneTimeBase ==
  \A m, n \in Synchronised :
    /\ asn[m] = asn[n] /\ slotOffset[m] = slotOffset[n]
    /\ ebAsnOffset[m] = ebAsnOffset[n] /\ dataAsnOffset[m] = dataAsnOffset[n]

\* A mote joins in an EB slot, so that schedule_syncSlotOffset, which walks
\* the circular list of active cells to the slot of the EB, ends.
JoinsInEbSlot ==
  [][\A m \in Followers : ~isSync[m] /\ isSync'[m] => slotOffset'[m] \in EbSlots]_vars

Lease == INSTANCE TimeLease WITH
  Holders <- Followers, Resets <- Reboots,
  Term <- DESYNCTIMEOUT, Numbers <- 0 .. SYNCNUMS - 1,
  held <- [m \in Followers |-> isSync[m]],
  left <- [m \in Followers |-> deSyncTimeout[m]],
  number <- [m \in Followers |-> syncnum[m]]

\* In the network too a mote holds the time on a lease: it joins and stays by
\* numbers that are new to it only, and is out DESYNCTIMEOUT slots after the
\* last, whatever it receives and whoever stops or starts again.
LeaseSpec == Lease!Spec

\* The DAG root may send an EB on the channel that m searches.
RootIsAudible(m) ==
  Root \in InCell /\ IsEb(Root) /\ Root \in Audible(m, {Root}) /\ ~isSync[m]

MayJoin(m) == \E s \in InCell : Joins(m, s) /\ s \in Audible(m, {s})

\* What a mote needs: it does not reboot for ever, it does not miss for ever
\* all the EBs that it may join by, and the draws of the DAG root do not for
\* ever choose the times when the mote searches another channel.
NotUnlucky(m) ==
  /\ <>[][~Reboot(m)]_vars
  /\ []<>MayJoin(m) => []<>isSync[m]
  /\ []<>RootIsAudible(m) =>
       []<><<RootIsAudible(m) /\ syncnum'[Root] # syncnum[Root]>>_vars

\* A mote that is not unlucky joins the network of a live DAG root, whatever
\* channel it searches and whatever number it had: the numbers do not go round
\* between two EBs on its channel.
Rejoins ==
  \A m \in Followers : NotUnlucky(m) => ((~isSync[m]) ~> (isSync[m] \/ ~rootOn))

\* How many numbers ago the DAG root was at this one.
Age(number) == (syncnum[Root] - number) % SYNCNUMS

\* IEEE802154E.c:543 "break if not new syncnum": a mote joins by an EB that is
\* newer than the number it had, nearer to the number the DAG root is at.
JoinsByNewer ==
  [][\A m \in Followers :
       ~isSync[m] /\ isSync'[m] => Age(syncnum'[m]) < Age(syncnum[m])]_vars

=============================================================================
