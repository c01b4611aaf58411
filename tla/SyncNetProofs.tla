--------------------------- MODULE SyncNetProofs ---------------------------
(***************************************************************************)
(* Proofs about the common time base, for any set of motes that hear one   *)
(* another in any way, and for any slotframe, templates and periods.       *)
(*                                                                         *)
(* The three offsets of a synchronised mote are its ASN modulo their       *)
(* lengths.  A mote computes one of them in another way when it joins: the *)
(* EB offset from the channel that it found the EB on.                     *)
(***************************************************************************)
EXTENDS SyncNet, WellFoundedInduction, TLAPS

-----------------------------------------------------------------------------
(***************************************************************************)
(* Counting modulo a number.                                               *)
(***************************************************************************)

\* Division with remainder; the least number that has none would be the
\* successor of one that has.
LEMMA Division ==
  ASSUME NEW n \in Nat \ {0}
  PROVE  \A a \in Nat : \E q \in Nat, r \in 0 .. n-1 : a = n * q + r
<1> DEFINE Divides(a) == \E q \in Nat, r \in 0 .. n-1 : a = n * q + r
           T == {a \in Nat : ~Divides(a)}
<1>1. SUFFICES ASSUME T # {} PROVE FALSE
  OBVIOUS
<1>2. PICK a \in T : \A k \in T : ~(<<k, a>> \in OpToRel(<, Nat))
  <2>1. T \in SUBSET Nat
    OBVIOUS
  <2> HIDE DEF T
  <2> QED
    BY <1>1, <2>1, NatLessThanWellFounded, WFMin, Zenon
<1>3. a # 0
  <2>1. 0 = n * 0 + 0 /\ 0 \in Nat /\ 0 \in 0 .. n-1
    OBVIOUS
  <2>2. Divides(0)
    BY <2>1
  <2> QED
    BY <2>2
<1>4. a - 1 \in Nat /\ <<a - 1, a>> \in OpToRel(<, Nat)
  BY <1>3 DEF OpToRel
<1>5. PICK q \in Nat, r \in 0 .. n-1 : a - 1 = n * q + r
  BY <1>2, <1>4
<1>6. Divides(a)
  <2>1. CASE r + 1 < n
    <3>1. a = n * q + (r + 1) /\ r + 1 \in 0 .. n-1
      BY <1>5, <2>1
    <3> QED
      BY <3>1
  <2>2. CASE r + 1 = n
    <3>1. a = n * (q + 1) + 0 /\ q + 1 \in Nat /\ 0 \in 0 .. n-1
      BY <1>5, <2>2
    <3> QED
      BY <3>1
  <2> QED
    BY <2>1, <2>2
<1> QED
  BY <1>6

LEMMA ModType ==
  ASSUME NEW n \in Nat \ {0}, NEW a \in Nat PROVE a % n \in 0 .. n-1
OBVIOUS

LEMMA ModSmall ==
  ASSUME NEW n \in Nat \ {0}, NEW r \in 0 .. n-1 PROVE r % n = r
OBVIOUS

LEMMA ModSelf ==
  ASSUME NEW n \in Nat \ {0} PROVE n % n = 0
OBVIOUS

LEMMA Remainder ==
  ASSUME NEW n \in Nat \ {0}, NEW q \in Nat, NEW r \in 0 .. n-1
  PROVE  (n * q + r) % n = r
OBVIOUS

\* A counter modulo n counts its argument modulo n.
LEMMA ModSucc ==
  ASSUME NEW n \in Nat \ {0}, NEW a \in Nat
  PROVE  ((a % n) + 1) % n = (a + 1) % n
<1>1. PICK q \in Nat, r \in 0 .. n-1 : a = n * q + r
  BY Division
<1>2. a % n = r
  BY <1>1, Remainder
<1>3. CASE r + 1 < n
  <2>1. a + 1 = n * q + (r + 1) /\ r + 1 \in 0 .. n-1
    BY <1>1, <1>3
  <2>2. (n * q + (r + 1)) % n = r + 1
    BY <2>1, Remainder, Zenon
  <2>3. (r + 1) % n = r + 1
    BY <2>1, ModSmall
  <2> QED
    BY <1>2, <2>1, <2>2, <2>3, Zenon
<1>4. CASE r + 1 = n
  <2>1. a + 1 = n * (q + 1) + 0 /\ q + 1 \in Nat /\ 0 \in 0 .. n-1
    BY <1>1, <1>4
  <2>2. (n * (q + 1) + 0) % n = 0
    BY <2>1, Remainder, Zenon
  <2>3. n % n = 0
    BY ModSelf
  <2> QED
    BY <1>2, <1>4, <2>1, <2>2, <2>3, Zenon
<1> QED
  BY <1>3, <1>4

\* Counting modulo a multiple N of n loses nothing modulo n.
LEMMA ModMultiple ==
  ASSUME NEW n \in Nat \ {0}, NEW N \in Nat \ {0}, N % n = 0, NEW a \in 0 .. N-1
  PROVE  ((a + 1) % N) % n = ((a % n) + 1) % n
<1>1. ((a % n) + 1) % n = (a + 1) % n
  <2>1. a \in Nat
    OBVIOUS
  <2> QED
    BY <2>1, ModSucc, Zenon
<1>2. CASE a + 1 < N
  <2>1. a + 1 \in 0 .. N-1
    BY <1>2
  <2>2. (a + 1) % N = a + 1
    BY <2>1, ModSmall
  <2> QED
    BY <1>1, <2>2
<1>3. CASE a + 1 = N
  <2>1. N % N = 0 /\ 0 % n = 0
    BY ModSelf, ModSmall
  <2> QED
    BY <1>1, <1>3, <2>1
<1> QED
  BY <1>2, <1>3

-----------------------------------------------------------------------------
(***************************************************************************)
(* What a mote hears.                                                      *)
(***************************************************************************)

USE SyncNetAssumption

EbChannelSet == {chTemplateEB[i] : i \in 0 .. EB_NUMCHANS - 1}

LEMMA Lengths ==
  /\ SLOTFRAME_LENGTH \in Nat \ {0} /\ EB_NUMCHANS \in Nat \ {0}
  /\ NUMCHANS \in Nat \ {0} /\ ASNS \in Nat \ {0}
  /\ ASNS % SLOTFRAME_LENGTH = 0 /\ ASNS % EB_NUMCHANS = 0 /\ ASNS % NUMCHANS = 0
<1>1. SLOTFRAME_LENGTH # 0
  OBVIOUS
<1> QED
  BY <1>1, AsnAssumption

\* The offsets and counters of the slot that begins.
LEMMA SlotTypes ==
  ASSUME TypeOK, NEW m \in Motes
  PROVE  /\ Asn(m) \in 0 .. ASNS - 1 /\ Slot(m) \in 0 .. SLOTFRAME_LENGTH - 1
         /\ EbOffset(m) \in 0 .. EB_NUMCHANS - 1 /\ DataOffset(m) \in 0 .. NUMCHANS - 1
         /\ HopCounter(m) \in 0 .. EB_SLOWHOPPING_PERIOD - 1
<1>1. /\ asn[m] + 1 \in Nat /\ slotOffset[m] + 1 \in Nat /\ ebAsnOffset[m] + 1 \in Nat
      /\ dataAsnOffset[m] + 1 \in Nat /\ joinChannelChangingCounter[m] + 1 \in Nat
  BY Lengths DEF TypeOK
<1> QED
  BY <1>1, Lengths, ModType, Zenon DEF Asn, Slot, EbOffset, DataOffset, HopCounter

\* The channel that is searched is one of the EBs'.
LEMMA SearchedType ==
  ASSUME TypeOK, NEW m \in Motes PROVE Searched(m) \in EbChannelSet
<1> DEFINE from == IF freq[m] = Off THEN SYNCHRONIZING_CHANNEL ELSE freq[m]
           i == CHOOSE i \in 0 .. EB_NUMCHANS - 1 : chTemplateEB[i] = from
<1>1. from \in EbChannelSet
  <2>1. EB_NUMCHANS - 1 \in 0 .. EB_NUMCHANS - 1
    OBVIOUS
  <2> QED
    BY <2>1 DEF TypeOK, EbChannelSet, SYNCHRONIZING_CHANNEL
<1>2. i \in 0 .. EB_NUMCHANS - 1
  BY <1>1, Zenon DEF EbChannelSet
<1>3. (i + 1) % EB_NUMCHANS \in 0 .. EB_NUMCHANS - 1
  <2>1. i + 1 \in Nat
    BY <1>2
  <2> QED
    BY <2>1, Lengths, ModType, Zenon
<1>4. Searched(m) = IF HopCounter(m) = 0 THEN chTemplateEB[(i + 1) % EB_NUMCHANS] ELSE from
  BY DEF Searched
<1> QED
  BY <1>1, <1>3, <1>4, Zenon DEF EbChannelSet

\* The EB offset that a mote works out from a channel is the only one at
\* which EBs are on it.
LEMMA IndexIs ==
  ASSUME NEW k \in 0 .. EB_NUMCHANS - 1
  PROVE  IndexOf(chTemplateEB[k]) = k
BY TemplateAssumption, Zenon DEF IndexOf

\* A mote joins by the EB of a synchronised mote, on the channel of that EB.
LEMMA JoinIs ==
  ASSUME TypeOK, NEW senders \in SUBSET InCell, NEW heard \in Receptions(senders),
         NEW m \in Motes, Joins(m, heard[m])
  PROVE  /\ heard[m] \in Synchronised /\ ~Desynchronises(heard[m])
         /\ Slot(heard[m]) \in EbSlots
         /\ IndexOf(Searched(m)) = EbOffset(heard[m])
<1> DEFINE s == heard[m]
<1>1. s # NoMote /\ ~isSync[m] /\ IsEb(s)
  BY DEF Joins
<1>2. s \in Audible(m, senders)
  BY <1>1 DEF Receptions
<1>3. s \in InCell
  BY <1>2 DEF Audible
<1>4. Channel(s) = Searched(m)
  BY <1>1, <1>2 DEF Audible, InCell
<1>5. Channel(s) = chTemplateEB[EbOffset(s)]
  BY <1>1 DEF Channel, IsEb
<1>6. s \in Motes /\ s \in Synchronised /\ ~Desynchronises(s)
  BY <1>3 DEF InCell, Synchronised, Powered
<1>7. EbOffset(s) \in 0 .. EB_NUMCHANS - 1
  BY <1>6, SlotTypes
<1>8. IndexOf(Searched(m)) = EbOffset(s)
  BY <1>4, <1>5, <1>7, IndexIs, Zenon
<1> QED
  BY <1>1, <1>6, <1>8 DEF IsEb

\* What is heard is a frame of a mote, or none.
LEMMA HeardIs ==
  ASSUME NEW senders \in SUBSET InCell, NEW heard \in Receptions(senders),
         NEW m \in Motes, heard[m] # NoMote
  PROVE  heard[m] \in Motes
BY DEF Receptions, InCell, Powered

-----------------------------------------------------------------------------
(***************************************************************************)
(* The types.                                                              *)
(***************************************************************************)

\* The DAG root needs nobody to be synchronised, and the timeout of the
\* others runs.
TimeoutRuns ==
  /\ isSync[Root]
  /\ \A m \in Followers : isSync[m] => deSyncTimeout[m] >= 1

TypeInv == TypeOK /\ TimeoutRuns

LEMMA TypeInit == Init => TypeInv
<1> SUFFICES ASSUME Init PROVE TypeInv
  OBVIOUS
<1>1. 0 \in 0 .. SYNCNUMS - 1 /\ 0 \in 0 .. DESYNCTIMEOUT
      /\ 0 \in 0 .. EB_SLOWHOPPING_PERIOD - 1
  OBVIOUS
<1>2. 0 \in 0 .. ASNS - 1 /\ 0 \in 0 .. SLOTFRAME_LENGTH - 1
      /\ 0 \in 0 .. EB_NUMCHANS - 1 /\ 0 \in 0 .. NUMCHANS - 1
  BY Lengths
<1>3. TypeOK
  BY <1>1, <1>2 DEF Init, TypeOK
<1>4. TimeoutRuns
  BY DEF Init, TimeoutRuns, Followers
<1> QED
  BY <1>3, <1>4 DEF TypeInv

\* The types after a slot.
LEMMA SlotTypeStep ==
  ASSUME TypeInv, NEW senders \in SUBSET InCell, NEW heard \in Receptions(senders),
         SlotOf(senders, heard), rootOn' = rootOn
  PROVE  TypeInv'
<1>1. TypeOK /\ TimeoutRuns
  BY DEF TypeInv
<1>2. \A m \in Motes : Joins(m, heard[m]) \/ Resynchronises(m, heard[m]) => heard[m] \in Motes
  BY HeardIs DEF Joins, Resynchronises
<1>3. isSync' \in [Motes -> BOOLEAN]
  <2>1. isSync' = [m \in Motes |->
          IF m \in Powered THEN Joins(m, heard[m]) \/ (isSync[m] /\ ~Desynchronises(m))
                           ELSE isSync[m]]
    BY DEF SlotOf
  <2>2. \A m \in Motes : isSync'[m] \in BOOLEAN
    BY <1>1, <2>1, Zenon DEF TypeOK, Joins, Desynchronises
  <2> QED
    BY <2>1, <2>2, Zenon
<1>4. syncnum' \in [Motes -> 0 .. SYNCNUMS - 1]
  <2>1. \A m \in Motes : NumberSent(m, senders) \in 0 .. SYNCNUMS - 1
    <3>1. TAKE m \in Motes
    <3>2. syncnum[m] \in 0 .. SYNCNUMS - 1 /\ syncnum[m] + 1 \in Nat
      BY <1>1 DEF TypeOK
    <3>3. (syncnum[m] + 1) % SYNCNUMS \in 0 .. SYNCNUMS - 1
      BY <3>2, ModType
    <3> QED
      BY <3>2, <3>3, Zenon DEF NumberSent
  <2>2. \A m \in Motes : Joins(m, heard[m]) \/ Resynchronises(m, heard[m])
          => syncnum[heard[m]] \in 0 .. SYNCNUMS - 1
    BY <1>1, <1>2 DEF TypeOK
  <2> QED
    BY <2>1, <2>2 DEF SlotOf
<1>5. deSyncTimeout' \in [Motes -> 0 .. DESYNCTIMEOUT]
  <2>1. \A m \in Motes : isSync[m] /\ m # Root => deSyncTimeout[m] - 1 \in 0 .. DESYNCTIMEOUT
    BY <1>1 DEF TypeOK, TimeoutRuns, Followers
  <2>2. \A m \in Motes : deSyncTimeout[m] \in 0 .. DESYNCTIMEOUT
    BY <1>1 DEF TypeOK
  <2> QED
    BY <2>1, <2>2 DEF SlotOf
<1>6. asn' \in [Motes -> 0 .. ASNS - 1]
  <2>1. \A m \in Motes : Asn(m) \in 0 .. ASNS - 1 /\ asn[m] \in 0 .. ASNS - 1
    BY <1>1, SlotTypes DEF TypeOK
  <2> QED
    BY <1>2, <2>1 DEF SlotOf
<1>7. \A m \in Motes : Joins(m, heard[m]) => Asn(heard[m]) \in Nat
  BY <1>1, <1>2, SlotTypes, Lengths
<1>8. slotOffset' \in [Motes -> 0 .. SLOTFRAME_LENGTH - 1]
  <2>1. \A m \in Motes : /\ Slot(m) \in 0 .. SLOTFRAME_LENGTH - 1
                         /\ slotOffset[m] \in 0 .. SLOTFRAME_LENGTH - 1
    BY <1>1, SlotTypes DEF TypeOK
  <2>2. \A m \in Motes : Joins(m, heard[m])
          => Asn(heard[m]) % SLOTFRAME_LENGTH \in 0 .. SLOTFRAME_LENGTH - 1
    BY <1>7, Lengths, ModType
  <2> QED
    BY <2>1, <2>2 DEF SlotOf
<1>9. ebAsnOffset' \in [Motes -> 0 .. EB_NUMCHANS - 1]
  <2>1. \A m \in Motes : /\ EbOffset(m) \in 0 .. EB_NUMCHANS - 1
                         /\ ebAsnOffset[m] \in 0 .. EB_NUMCHANS - 1
    BY <1>1, SlotTypes DEF TypeOK
  <2>2. \A m \in Motes : Joins(m, heard[m]) => IndexOf(Searched(m)) \in 0 .. EB_NUMCHANS - 1
    <3>1. SUFFICES ASSUME NEW m \in Motes, Joins(m, heard[m])
                   PROVE  IndexOf(Searched(m)) \in 0 .. EB_NUMCHANS - 1
      OBVIOUS
    <3>2. IndexOf(Searched(m)) = EbOffset(heard[m])
      BY <1>1, <3>1, JoinIs
    <3> QED
      BY <1>2, <2>1, <3>1, <3>2
  <2> QED
    BY <2>1, <2>2 DEF SlotOf
<1>10. dataAsnOffset' \in [Motes -> 0 .. NUMCHANS - 1]
  <2>1. \A m \in Motes : /\ DataOffset(m) \in 0 .. NUMCHANS - 1
                         /\ dataAsnOffset[m] \in 0 .. NUMCHANS - 1
    BY <1>1, SlotTypes DEF TypeOK
  <2>2. \A m \in Motes : Joins(m, heard[m])
          => Asn(heard[m]) % NUMCHANS \in 0 .. NUMCHANS - 1
    BY <1>7, Lengths, ModType
  <2> QED
    BY <2>1, <2>2 DEF SlotOf
<1>11. freq' \in [Motes -> {Off} \cup {chTemplateEB[i] : i \in 0 .. EB_NUMCHANS - 1}]
  <2>1. \A m \in Motes : Searched(m) \in EbChannelSet
    BY <1>1, SearchedType
  <2> QED
    BY <2>1 DEF SlotOf, EbChannelSet
<1>12. joinChannelChangingCounter' \in [Motes -> 0 .. EB_SLOWHOPPING_PERIOD - 1]
  <2>1. \A m \in Motes : /\ HopCounter(m) \in 0 .. EB_SLOWHOPPING_PERIOD - 1
                         /\ joinChannelChangingCounter[m] \in 0 .. EB_SLOWHOPPING_PERIOD - 1
    BY <1>1, SlotTypes DEF TypeOK
  <2> QED
    BY <2>1 DEF SlotOf
<1>13. TimeoutRuns'
  <2>1. isSync'[Root]
    <3>1. isSync'[Root] = IF Root \in Powered
                            THEN Joins(Root, heard[Root]) \/ (isSync[Root] /\ ~Desynchronises(Root))
                            ELSE isSync[Root]
      BY DEF SlotOf
    <3> QED
      BY <1>1, <3>1 DEF TimeoutRuns, Desynchronises
  <2>2. ASSUME NEW m \in Followers, isSync'[m] PROVE deSyncTimeout'[m] >= 1
    <3>1. m \in Motes /\ m # Root /\ m \in Powered
      BY DEF Followers, Powered
    <3>2. Joins(m, heard[m]) \/ (isSync[m] /\ ~Desynchronises(m))
      BY <2>2, <3>1 DEF SlotOf
    <3>3. deSyncTimeout'[m] =
            IF Joins(m, heard[m]) \/ Resynchronises(m, heard[m]) THEN DESYNCTIMEOUT
            ELSE IF isSync[m] THEN deSyncTimeout[m] - 1 ELSE deSyncTimeout[m]
      BY <3>1 DEF SlotOf
    <3>4. isSync[m] /\ ~Desynchronises(m) => deSyncTimeout[m] - 1 >= 1
      BY <1>1, <3>1 DEF TimeoutRuns, Desynchronises, TypeOK, Followers
    <3> QED
      BY <3>2, <3>3, <3>4
  <2> QED
    BY <2>1, <2>2 DEF TimeoutRuns
<1> QED
  BY <1>1, <1>3, <1>4, <1>5, <1>6, <1>8, <1>9, <1>10, <1>11, <1>12, <1>13
     DEF TypeInv, TypeOK

LEMMA TypeStep == TypeInv /\ [Next]_vars => TypeInv'
<1> SUFFICES ASSUME TypeInv, [Next]_vars PROVE TypeInv'
  OBVIOUS
<1>1. CASE SlotStep
  BY <1>1, SlotTypeStep DEF SlotStep
<1>2. CASE RootStops
  BY <1>2 DEF RootStops, TypeInv, TypeOK, TimeoutRuns, timeVars
<1>3. ASSUME NEW m \in Reboots, Reboot(m) PROVE TypeInv'
  <2>1. 0 \in 0 .. SYNCNUMS - 1 /\ 0 \in 0 .. DESYNCTIMEOUT
        /\ 0 \in 0 .. EB_SLOWHOPPING_PERIOD - 1
    OBVIOUS
  <2>2. 0 \in 0 .. ASNS - 1 /\ 0 \in 0 .. SLOTFRAME_LENGTH - 1
        /\ 0 \in 0 .. EB_NUMCHANS - 1 /\ 0 \in 0 .. NUMCHANS - 1
    BY Lengths
  <2>3. TypeOK'
    BY <1>3, <2>1, <2>2 DEF Reboot, TypeInv, TypeOK
  <2>4. TimeoutRuns'
    BY <1>3 DEF Reboot, TypeInv, TypeOK, TimeoutRuns, Followers
  <2> QED
    BY <2>3, <2>4 DEF TypeInv
<1>4. CASE UNCHANGED vars
  BY <1>4 DEF vars, timeVars, TypeInv, TypeOK, TimeoutRuns
<1> QED
  BY <1>1, <1>2, <1>3, <1>4 DEF Next

\* The variables of the motes keep their types, whoever hears whom: the
\* timeout of a synchronised mote never wraps, and the offset that a joining
\* mote works out from the channel of an EB is an offset.
THEOREM TypeCorrect == Spec => []TypeOK
<1>1. TypeInv => TypeOK
  BY DEF TypeInv
<1> QED
  BY <1>1, TypeInit, TypeStep, PTL DEF Spec

-----------------------------------------------------------------------------
(***************************************************************************)
(* The time base.                                                          *)
(***************************************************************************)

\* The three offsets of a mote are those of its ASN.
OffsetsOf(m) ==
  /\ slotOffset[m] = asn[m] % SLOTFRAME_LENGTH
  /\ ebAsnOffset[m] = asn[m] % EB_NUMCHANS
  /\ dataAsnOffset[m] = asn[m] % NUMCHANS

OffsetInv == \A m \in Synchronised : OffsetsOf(m)

SameAsn == \A m, n \in Synchronised : asn[m] = asn[n]

\* The counters of a synchronised mote are those of its ASN in the slot that
\* begins, too.
LEMMA OffsetsNext ==
  ASSUME TypeOK, OffsetInv, NEW m \in Synchronised
  PROVE  /\ Slot(m) = Asn(m) % SLOTFRAME_LENGTH
         /\ EbOffset(m) = Asn(m) % EB_NUMCHANS
         /\ DataOffset(m) = Asn(m) % NUMCHANS
<1>1. asn[m] \in 0 .. ASNS - 1
  BY DEF TypeOK, Synchronised, Powered
<1>2. OffsetsOf(m)
  BY DEF OffsetInv
<1>3. \A n \in {SLOTFRAME_LENGTH, EB_NUMCHANS, NUMCHANS} :
        ((asn[m] + 1) % ASNS) % n = ((asn[m] % n) + 1) % n
  <2>1. SUFFICES ASSUME NEW n \in {SLOTFRAME_LENGTH, EB_NUMCHANS, NUMCHANS}
                 PROVE  ((asn[m] + 1) % ASNS) % n = ((asn[m] % n) + 1) % n
    OBVIOUS
  <2>2. n \in Nat \ {0} /\ ASNS % n = 0 /\ ASNS \in Nat \ {0}
    BY Lengths
  <2> QED
    BY <1>1, <2>2, ModMultiple
<1> QED
  BY <1>2, <1>3, Zenon DEF Slot, EbOffset, DataOffset, Asn, OffsetsOf

\* A mote that is synchronised after a slot counts on from one that was: from
\* itself, or from the one whose EB it joined by.
LEMMA CountsOn ==
  ASSUME TypeOK, OffsetInv, NEW senders \in SUBSET InCell, NEW heard \in Receptions(senders),
         SlotOf(senders, heard), rootOn' = rootOn,
         NEW m \in Motes, m \in Synchronised'
  PROVE  \E s \in Synchronised :
           /\ asn'[m] = Asn(s)
           /\ slotOffset'[m] = Slot(s) /\ ebAsnOffset'[m] = EbOffset(s)
           /\ dataAsnOffset'[m] = DataOffset(s)
           /\ ~isSync[m] => Slot(s) \in EbSlots
<1>1. m \in Powered /\ isSync'[m]
  BY DEF Synchronised, Powered
<1>2. CASE Joins(m, heard[m])
  <2> DEFINE s == heard[m]
  <2>1. s \in Synchronised /\ Slot(s) \in EbSlots /\ IndexOf(Searched(m)) = EbOffset(s)
    BY <1>2, JoinIs
  <2>2. Slot(s) = Asn(s) % SLOTFRAME_LENGTH /\ DataOffset(s) = Asn(s) % NUMCHANS
    BY <2>1, OffsetsNext
  <2>3. /\ asn'[m] = Asn(s) /\ slotOffset'[m] = Asn(s) % SLOTFRAME_LENGTH
        /\ ebAsnOffset'[m] = IndexOf(Searched(m)) /\ dataAsnOffset'[m] = Asn(s) % NUMCHANS
    BY <1>1, <1>2 DEF SlotOf
  <2> QED
    BY <2>1, <2>2, <2>3, Zenon
<1>3. CASE ~Joins(m, heard[m])
  <2>1. /\ asn'[m] = Asn(m) /\ slotOffset'[m] = Slot(m)
        /\ ebAsnOffset'[m] = EbOffset(m) /\ dataAsnOffset'[m] = DataOffset(m)
    BY <1>1, <1>3 DEF SlotOf
  <2>2. isSync[m]
    BY <1>1, <1>3 DEF SlotOf
  <2>3. m \in Synchronised
    BY <1>1, <2>2 DEF Synchronised
  <2> QED
    BY <2>1, <2>2, <2>3, Zenon
<1> QED
  BY <1>2, <1>3

\* A slot keeps the offsets and the agreement, and shows where a mote joins.
LEMMA SlotTimeStep ==
  ASSUME TypeOK, OffsetInv, SlotStep
  PROVE  /\ OffsetInv' /\ (SameAsn => SameAsn')
         /\ \A m \in Followers : ~isSync[m] /\ isSync'[m] => slotOffset'[m] \in EbSlots
<1>1. PICK senders \in SUBSET InCell : \E heard \in Receptions(senders) : SlotOf(senders, heard)
  BY DEF SlotStep
<1>2. PICK heard \in Receptions(senders) : SlotOf(senders, heard)
  BY <1>1
<1>3. rootOn' = rootOn
  BY DEF SlotStep
<1>4. \A m \in Motes : m \in Synchronised' =>
        \E s \in Synchronised :
           /\ asn'[m] = Asn(s)
           /\ slotOffset'[m] = Slot(s) /\ ebAsnOffset'[m] = EbOffset(s)
           /\ dataAsnOffset'[m] = DataOffset(s)
           /\ ~isSync[m] => Slot(s) \in EbSlots
  BY <1>2, <1>3, CountsOn
<1>5. Synchronised' \subseteq Motes
  BY DEF Synchronised, Powered
<1>6. OffsetInv'
  <2>1. SUFFICES ASSUME NEW m \in Motes, m \in Synchronised' PROVE OffsetsOf(m)'
    BY <1>5, Zenon DEF OffsetInv
  <2>2. PICK s \in Synchronised :
           /\ asn'[m] = Asn(s)
           /\ slotOffset'[m] = Slot(s) /\ ebAsnOffset'[m] = EbOffset(s)
           /\ dataAsnOffset'[m] = DataOffset(s)
    BY <1>4, <2>1
  <2> QED
    BY <2>2, OffsetsNext, Zenon DEF OffsetsOf
<1>7. ASSUME SameAsn PROVE SameAsn'
  <2>1. \A s, t \in Synchronised : Asn(s) = Asn(t)
    BY <1>7, Zenon DEF SameAsn, Asn
  <2>2. SUFFICES ASSUME NEW m \in Motes, m \in Synchronised', NEW n \in Motes, n \in Synchronised'
                 PROVE  asn'[m] = asn'[n]
    BY <1>5, Zenon DEF SameAsn
  <2> QED
    BY <1>4, <2>1, <2>2, Zenon
<1>8. ASSUME NEW m \in Followers, ~isSync[m], isSync'[m] PROVE slotOffset'[m] \in EbSlots
  <2>1. m \in Motes /\ m \in Synchronised'
    BY <1>8 DEF Followers, Synchronised, Powered
  <2> QED
    BY <1>4, <1>8, <2>1, Zenon
<1> QED
  BY <1>6, <1>7, <1>8

\* A mote that starts again has the offsets of its ASN, 0; only the DAG root
\* is synchronised at once.
LEMMA RebootTimeStep ==
  ASSUME TypeOK, OffsetInv, NEW m \in Reboots, Reboot(m)
  PROVE  OffsetInv' /\ (m # Root /\ SameAsn => SameAsn')
<1>1. /\ isSync'[m] = (m = Root) /\ asn'[m] = 0 /\ slotOffset'[m] = 0
      /\ ebAsnOffset'[m] = 0 /\ dataAsnOffset'[m] = 0
  BY DEF Reboot, TypeOK
<1>2. \A n \in Motes \ {m} :
        /\ isSync'[n] = isSync[n] /\ asn'[n] = asn[n] /\ slotOffset'[n] = slotOffset[n]
        /\ ebAsnOffset'[n] = ebAsnOffset[n] /\ dataAsnOffset'[n] = dataAsnOffset[n]
  BY DEF Reboot, TypeOK
<1>3. rootOn' = (rootOn \/ m = Root)
  BY DEF Reboot
<1>4. \A n \in Synchronised' : n # m => n \in Synchronised
  BY <1>2, <1>3 DEF Synchronised, Powered
<1>5. Synchronised' \subseteq Motes
  BY DEF Synchronised, Powered
<1>6. OffsetInv'
  <2>1. ASSUME NEW n \in Synchronised' PROVE OffsetsOf(n)'
    <3>1. CASE n = m
      <4>1. 0 % SLOTFRAME_LENGTH = 0 /\ 0 % EB_NUMCHANS = 0 /\ 0 % NUMCHANS = 0
        BY Lengths, ModSmall
      <4> QED
        BY <1>1, <3>1, <4>1, Zenon DEF OffsetsOf
    <3>2. CASE n # m
      <4>1. OffsetsOf(n) /\ n \in Motes \ {m}
        BY <1>4, <1>5, <3>2 DEF OffsetInv
      <4> QED
        BY <1>2, <4>1, Zenon DEF OffsetsOf
    <3> QED
      BY <3>1, <3>2
  <2> QED
    BY <2>1, Zenon DEF OffsetInv
<1>7. ASSUME m # Root, SameAsn PROVE SameAsn'
  <2>1. m \notin Synchronised'
    BY <1>1, <1>7 DEF Synchronised
  <2>2. \A n \in Synchronised' : n \in Synchronised /\ asn'[n] = asn[n]
    BY <1>2, <1>4, <1>5, <2>1
  <2> QED
    BY <1>7, <2>2, Zenon DEF SameAsn
<1> QED
  BY <1>6, <1>7

LEMMA TimeInit == Init => OffsetInv /\ SameAsn
<1> SUFFICES ASSUME Init PROVE OffsetInv /\ SameAsn
  OBVIOUS
<1>1. 0 % SLOTFRAME_LENGTH = 0 /\ 0 % EB_NUMCHANS = 0 /\ 0 % NUMCHANS = 0
  BY Lengths, ModSmall
<1>2. \A m \in Synchronised : m \in Motes
  BY DEF Synchronised, Powered
<1> QED
  BY <1>1, <1>2, Zenon DEF Init, OffsetInv, OffsetsOf, SameAsn

\* The steps in which no time passes.
LEMMA StillTimeStep ==
  ASSUME TypeOK, OffsetInv, RootStops \/ UNCHANGED vars
  PROVE  /\ OffsetInv' /\ (SameAsn => SameAsn')
         /\ isSync' = isSync
<1>1. UNCHANGED <<isSync, asn, slotOffset, ebAsnOffset, dataAsnOffset>>
      /\ Synchronised' \subseteq Synchronised
  BY DEF RootStops, vars, timeVars, Synchronised, Powered
<1> QED
  BY <1>1, Zenon DEF OffsetInv, OffsetsOf, SameAsn

\* The offsets in any run, the DAG root rebooting or not.
LEMMA OffsetStep ==
  ASSUME TypeOK, OffsetInv, [Next]_vars
  PROVE  /\ OffsetInv'
         /\ (Root \notin Reboots /\ SameAsn => SameAsn')
         /\ \A m \in Followers : ~isSync[m] /\ isSync'[m] => slotOffset'[m] \in EbSlots
<1>1. CASE SlotStep
  BY <1>1, SlotTimeStep
<1>2. CASE RootStops \/ UNCHANGED vars
  BY <1>2, StillTimeStep
<1>3. ASSUME NEW n \in Reboots, Reboot(n)
      PROVE  /\ OffsetInv' /\ (Root \notin Reboots /\ SameAsn => SameAsn')
             /\ \A m \in Followers : ~isSync[m] /\ isSync'[m] => slotOffset'[m] \in EbSlots
  <2>1. \A m \in Followers : isSync'[m] => isSync[m]
    BY <1>3 DEF Reboot, TypeOK, Followers
  <2> QED
    BY <1>3, <2>1, RebootTimeStep
<1> QED
  BY <1>1, <1>2, <1>3 DEF Next

\* Unless the DAG root itself starts again, all synchronised motes agree on
\* the ASN, the slot and both channel sequences, over any number of hops,
\* losses, resynchronisations, searches and reboots of the others.
THEOREM TimeCorrect ==
  ASSUME Root \notin Reboots PROVE Spec => []OneTimeBase
<1>1. TypeInv => TypeOK
  BY DEF TypeInv
<1>2. TypeOK /\ OffsetInv /\ SameAsn /\ [Next]_vars => OffsetInv' /\ SameAsn'
  BY OffsetStep
<1>3. OffsetInv /\ SameAsn => OneTimeBase
  BY Zenon DEF OffsetInv, OffsetsOf, SameAsn, OneTimeBase
<1> QED
  BY <1>1, <1>2, <1>3, TypeInit, TypeStep, TimeInit, PTL DEF Spec

\* A mote joins in an EB slot, whoever reboots: the search for the cell of
\* that slot in schedule_syncSlotOffset ends.
THEOREM JoinCorrect == Spec => JoinsInEbSlot
<1>1. TypeInv => TypeOK
  BY DEF TypeInv
<1>2. TypeOK /\ OffsetInv /\ [Next]_vars => OffsetInv'
  BY OffsetStep
<1>3. TypeOK /\ OffsetInv /\ [Next]_vars
        => [\A m \in Followers : ~isSync[m] /\ isSync'[m] => slotOffset'[m] \in EbSlots]_vars
  BY OffsetStep
<1> QED
  BY <1>1, <1>2, <1>3, TypeInit, TypeStep, TimeInit, PTL DEF Spec, JoinsInEbSlot

-----------------------------------------------------------------------------
(***************************************************************************)
(* The lease of the time.                                                  *)
(***************************************************************************)

\* What Lease!Next says of one mote.
LeaseStep(m) ==
  Lease!Run(m) \/ Lease!Expire(m) \/ Lease!Renew(m) \/ Lease!Reset(m) \/ Lease!Keep(m)

\* A mote that hears its parent has its term still.
LEMMA HearersStay ==
  ASSUME NEW senders \in SUBSET InCell, NEW heard \in Receptions(senders),
         NEW m \in Motes, heard[m] # NoMote, isSync[m]
  PROVE  ~Desynchronises(m)
<1>1. heard[m] \in Audible(m, senders)
  BY DEF Receptions
<1>2. m \in InCell
  BY <1>1 DEF Audible, Searching
<1> QED
  BY <1>2 DEF InCell

LEMMA SlotLease ==
  ASSUME TypeInv, NEW senders \in SUBSET InCell, NEW heard \in Receptions(senders),
         SlotOf(senders, heard), NEW m \in Followers
  PROVE  LeaseStep(m)
<1> DEFINE In == Joins(m, heard[m])
           Re == Resynchronises(m, heard[m])
<1>1. m \in Motes /\ m # Root /\ m \in Powered
  BY DEF Followers, Powered
<1>2. isSync'[m] = (In \/ (isSync[m] /\ ~Desynchronises(m)))
  BY <1>1 DEF SlotOf
<1>3. syncnum'[m] = IF In \/ Re THEN syncnum[heard[m]] ELSE syncnum[m]
  BY <1>1 DEF SlotOf, NumberSent
<1>4. deSyncTimeout'[m] = IF In \/ Re THEN DESYNCTIMEOUT
                          ELSE IF isSync[m] THEN deSyncTimeout[m] - 1 ELSE deSyncTimeout[m]
  BY <1>1 DEF SlotOf
<1>5. /\ isSync[m] \in BOOLEAN /\ deSyncTimeout[m] \in 0 .. DESYNCTIMEOUT
      /\ isSync[m] => deSyncTimeout[m] >= 1
  BY <1>1 DEF TypeInv, TypeOK, TimeoutRuns
<1>6. CASE In \/ Re
  <2>1. heard[m] # NoMote /\ syncnum[heard[m]] # syncnum[m]
    BY <1>6 DEF Joins, Resynchronises
  <2>2. syncnum[heard[m]] \in 0 .. SYNCNUMS - 1
    BY <1>1, <2>1, HeardIs DEF TypeInv, TypeOK
  <2>3. isSync'[m]
    BY <1>1, <1>2, <1>6, <2>1, HearersStay DEF Resynchronises
  <2> QED
    BY <1>3, <1>4, <1>6, <2>1, <2>2, <2>3 DEF LeaseStep, Lease!Renew
<1>7. CASE ~In /\ ~Re /\ Desynchronises(m)
  <2>1. isSync[m] /\ ~isSync'[m] /\ deSyncTimeout[m] = 1
    BY <1>2, <1>7 DEF Desynchronises
  <2>2. deSyncTimeout'[m] = 0 /\ syncnum'[m] = syncnum[m]
    BY <1>3, <1>4, <1>7, <2>1
  <2> QED
    BY <2>1, <2>2 DEF LeaseStep, Lease!Expire
<1>8. CASE ~In /\ ~Re /\ isSync[m] /\ ~Desynchronises(m)
  <2>1. deSyncTimeout[m] > 1
    BY <1>1, <1>5, <1>8 DEF Desynchronises
  <2> QED
    BY <1>2, <1>3, <1>4, <1>8, <2>1 DEF LeaseStep, Lease!Run
<1>9. CASE ~In /\ ~Re /\ ~isSync[m]
  BY <1>2, <1>3, <1>4, <1>5, <1>9 DEF LeaseStep, Lease!Keep
<1> QED
  BY <1>6, <1>7, <1>8, <1>9

LEMMA RebootLease ==
  ASSUME TypeOK, NEW r \in Reboots, Reboot(r), NEW m \in Followers
  PROVE  LeaseStep(m)
<1>1. m \in Motes /\ m # Root
  BY DEF Followers
<1>2. CASE m = r
  BY <1>1, <1>2 DEF Reboot, TypeOK, LeaseStep, Lease!Reset
<1>3. CASE m # r
  BY <1>1, <1>3 DEF Reboot, TypeOK, LeaseStep, Lease!Keep
<1> QED
  BY <1>2, <1>3

\* In the network too a mote is synchronised as TimeLease says, whatever the
\* others send, whoever it hears and whoever starts again.
THEOREM LeaseRefines == Spec => LeaseSpec
<1>1. Init => Lease!Init
  BY DEF Init, Lease!Init, Followers
<1>2. TypeInv /\ [Next]_vars
        => [Lease!Next]_<<[m \in Followers |-> isSync[m]],
                          [m \in Followers |-> deSyncTimeout[m]],
                          [m \in Followers |-> syncnum[m]]>>
  <2> SUFFICES ASSUME TypeInv, [Next]_vars
               PROVE  (\A m \in Followers : LeaseStep(m))
                        \/ UNCHANGED <<isSync, deSyncTimeout, syncnum>>
    BY Zenon DEF Lease!Next, LeaseStep
  <2>1. CASE SlotStep
    BY <2>1, SlotLease DEF SlotStep
  <2>2. CASE \E r \in Reboots : Reboot(r)
    BY <2>2, RebootLease DEF TypeInv
  <2>3. CASE RootStops \/ UNCHANGED vars
    BY <2>3 DEF RootStops, vars
  <2> QED
    BY <2>1, <2>2, <2>3 DEF Next
<1> QED
  BY <1>1, <1>2, TypeInit, TypeStep, PTL DEF Spec, LeaseSpec, Lease!Spec

=============================================================================
