------------------------------- MODULE Light -------------------------------
(***************************************************************************)
(* The flooding application (openapps/light/light.c) on a set of motes.    *)
(* The sensor sends a burst of packets each time its light switches; the   *)
(* other motes relay what they had not seen, and each keeps the light      *)
(* state it believes in.  A mote that missed bursts does not jump to the   *)
(* last state: it toggles once per slotframe until it has caught up.       *)
(*                                                                         *)
(* On a mote, light_trigger runs in the interrupt of slot 0 and the two    *)
(* receive functions in a task, with numMissedBursts and light_state       *)
(* shared between them and no critical section: the task takes one step    *)
(* per access to either.                                                   *)
(*                                                                         *)
(* The MAC and 6top are module Ieee154e.  Here a packet handed down is in  *)
(* queue[m] until its cell, and reaches any set of neighbours or none;     *)
(* queue[m] and rx[m] share the pool of m.                                 *)
(***************************************************************************)
EXTENDS Integers, FiniteSets

CONSTANTS
  Motes,
  Sensor, Sink,        \* SENSOR_ID and SINK_ID
  Links,               \* the pairs <<sender, receiver>> that hear each other
  Ranked,              \* the motes that have a rank, and so send EBs
  QUEUELENGTH,         \* openqueue.h: 20
  LIGHT_BURSTSIZE,     \* light.h: 5
  BURSTIDS,            \* 16: a burst number has 4 bits
  WINDOW,              \* 7: how far ahead a new burst number may be
  MISSEDS,             \* the values of numMissedBursts: 2^16
  MAXBURSTS,           \* bound: bursts sent by the sensor
  MAXAGE               \* bound: bursts that a packet may lag behind the sensor

ASSUME LightAssumption ==
  /\ Sensor \in Motes /\ Sink # Sensor
  /\ Links \subseteq Motes \X Motes /\ Ranked \subseteq Motes
  /\ BURSTIDS \in Nat \ {0} /\ BURSTIDS % 2 = 0 /\ WINDOW \in 1 .. BURSTIDS - 1
  /\ MISSEDS \in Nat \ {0} /\ MISSEDS % 2 = 0
  /\ LIGHT_BURSTSIZE \in 0 .. 8            \* a packet number has 3 bits
  /\ {QUEUELENGTH, MAXBURSTS, MAXAGE} \subseteq Nat

VARIABLES
  burstId, pktIDMap, lightState, numMissedBursts,    \* light_vars
  queue,     \* the packets waiting for a cell
  rx,        \* the received packets waiting for their task
  pc, pkt,   \* where the receive task is, and its packet
  reg,       \* the register between a load and its store
  seen,      \* ghost: the number of the last burst, counted from 1
  relayed,   \* ghost: the packets this mote relayed
  miscounted, torn,    \* ghosts: an interrupt came in a window of the task
  misled     \* ghost: took over the state of a mote behind the burst

lightVars == <<burstId, pktIDMap, lightState, numMissedBursts>>
radioVars == <<queue, rx>>
taskVars  == <<pc, pkt, reg>>
ghosts    == <<seen, relayed, miscounted, torn, misled>>
vars == <<lightVars, radioVars, taskVars, ghosts>>

(***************************************************************************)
(* The light_info byte of a data packet (light_ht) or an EB (eb_ht), and,  *)
(* as a ghost, the number of the burst it is about: the last one with this *)
(* burstId, which a packet that is too old may take back before the first. *)
(***************************************************************************)
Frames == [kind : {"DATA", "BEACON"}, burstId : 0 .. BURSTIDS - 1,
           pktId : 0 .. 7, state : {0, 1}, number : Int]

NoFrame == [kind |-> "NONE"]

\* light_get_light_info of mote m.  While a task advances burstId it is
\* behind the burst that is being taken in.
LightInfo(m, kind, pktId) ==
  [kind |-> kind, burstId |-> burstId[m], pktId |-> pktId, state |-> lightState[m],
   number |-> seen[m] - ((seen[m] - burstId[m]) % BURSTIDS)]

\* The pktId of a light_info byte: (light_info & 0x07) >> 1, two bits of it.
PktId(frame) == frame.pktId % 4

\* The sensor's light is on in the odd bursts: this state is that of the burst.
UpToDate(frame) == (frame.burstId + frame.state) % 2 = 0

Set(f, m, value) == [f EXCEPT ![m] = value]

FreeBuffers(m) ==
  QUEUELENGTH - Cardinality(queue[m]) - Cardinality(rx[m])
    - (IF pc[m] = "idle" THEN 0 ELSE 1)

Init ==
  /\ burstId = [m \in Motes |-> 0]
  /\ pktIDMap = [m \in Motes |-> {}]
  /\ lightState = [m \in Motes |-> 0]
  /\ numMissedBursts = [m \in Motes |-> 0]
  /\ queue = [m \in Motes |-> {}]
  /\ rx = [m \in Motes |-> {}]
  /\ pc = [m \in Motes |-> "idle"]
  /\ pkt = [m \in Motes |-> NoFrame]
  /\ reg = [m \in Motes |-> 0]
  /\ seen = [m \in Motes |-> 0]
  /\ relayed = [m \in Motes |-> {}]
  /\ miscounted = [m \in Motes |-> FALSE]
  /\ torn = [m \in Motes |-> FALSE]
  /\ misled = [m \in Motes |-> FALSE]

-----------------------------------------------------------------------------
(***************************************************************************)
(* Interrupts: light_trigger at the start of a slot, the EB of 6top, and   *)
(* the radio.                                                              *)
(***************************************************************************)

InFlight == (UNION {queue[m] \cup rx[m] \cup {pkt[m]} : m \in Motes}) \ {NoFrame}

\* The light has switched: light_trigger_SENSOR.  The packets that find no
\* buffer are not sent.
light_trigger_SENSOR ==
  /\ seen[Sensor] < MAXBURSTS
  /\ \A f \in InFlight : seen[Sensor] + 1 - f.number <= MAXAGE
  /\ LET n == seen[Sensor] + 1
         id == (burstId[Sensor] + 1) % BURSTIDS
         state == 1 - lightState[Sensor]
         burst == {[kind |-> "DATA", burstId |-> id, pktId |-> p, state |-> state,
                    number |-> n] : p \in {i \in 0 .. LIGHT_BURSTSIZE - 1 :
                                             i < FreeBuffers(Sensor)}}
     IN /\ burstId' = Set(burstId, Sensor, id)
        /\ lightState' = Set(lightState, Sensor, state)
        /\ queue' = Set(queue, Sensor, queue[Sensor] \cup burst)
        /\ seen' = Set(seen, Sensor, n)
  /\ UNCHANGED <<pktIDMap, numMissedBursts, rx, taskVars, relayed, miscounted, torn, misled>>

\* light_trigger_NOT_SENSOR, in slot 0: the mote catches up by one burst.
light_trigger_NOT_SENSOR(m) ==
  /\ m # Sensor
  /\ numMissedBursts[m] > 0
  /\ lightState' = Set(lightState, m, 1 - lightState[m])
  /\ numMissedBursts' = Set(numMissedBursts, m, numMissedBursts[m] - 1)
  /\ miscounted' = Set(miscounted, m, miscounted[m]
                         \/ pc[m] \in {"uncount", "storeUncount"})
  /\ torn' = Set(torn, m, torn[m]
                   \/ pc[m] \in {"storeCount", "storeUncount", "commit"})
  /\ UNCHANGED <<burstId, pktIDMap, radioVars, taskVars, seen, relayed, misled>>

\* sixtop_sendEB, at most one EB waiting at a time.
sixtop_sendEB(m) ==
  /\ m \in Ranked
  /\ FreeBuffers(m) > 0
  /\ \A f \in queue[m] : f.kind # "BEACON"
  /\ queue' = Set(queue, m, queue[m] \cup {LightInfo(m, "BEACON", 0)})
  /\ UNCHANGED <<lightVars, rx, taskVars, ghosts>>

\* Mutant: a packet is received without a free buffer.
TransmitAnyway(m) ==
  \E f \in queue[m], R \in SUBSET {r \in Motes \ {Sensor} : <<m, r>> \in Links} :
    /\ queue' = Set(queue, m, queue[m] \ {f})
    /\ rx' = [r \in Motes |-> IF r \in R THEN rx[r] \cup {f} ELSE rx[r]]
    /\ UNCHANGED <<lightVars, taskVars, ghosts>>

\* A cell of mote m: one packet goes out, once, to whoever receives it.  The
\* sensor drops what it receives.
Transmit(m) ==
  \E f \in queue[m], R \in SUBSET {r \in Motes \ {Sensor} : <<m, r>> \in Links} :
    /\ \A r \in R : FreeBuffers(r) > 0
    /\ queue' = Set(queue, m, queue[m] \ {f})
    /\ rx' = [r \in Motes |-> IF r \in R THEN rx[r] \cup {f} ELSE rx[r]]
    /\ UNCHANGED <<lightVars, taskVars, ghosts>>

Interrupt ==
  \/ light_trigger_SENSOR
  \/ \E m \in Motes : light_trigger_NOT_SENSOR(m) \/ sixtop_sendEB(m) \/ Transmit(m)

-----------------------------------------------------------------------------
(***************************************************************************)
(* The task: light_receive_beacon and light_receive_data, which share the  *)
(* treatment of a new burst.                                               *)
(***************************************************************************)

Goto(m, from, to) == pc[m] = from /\ pc' = Set(pc, m, to)

\* The end of the task, its packet freed.
Idle(m) == pc' = Set(pc, m, "idle") /\ pkt' = Set(pkt, m, NoFrame)

\* Mutant: every other burst is a new one.
AheadIfOther(m, f) == IF f.burstId = burstId[m] THEN 0 ELSE 1

\* How many bursts the frame is ahead, to the code.
Ahead(m, f) == (f.burstId - burstId[m]) % BURSTIDS

IsNew(m, f) == Ahead(m, f) \in 1 .. WINDOW

\* Mutant: the map is reset by every packet.
MapReset(m, f) == {}

\* A new burst resets the map.
MapFor(m, f) == IF IsNew(m, f) THEN {} ELSE pktIDMap[m]

\* The part of the two functions that only looks at variables of the task.
Receive(m) ==
  /\ pc[m] = "idle"
  /\ \E f \in rx[m] :
       LET isNew == IsNew(m, f)
           map   == MapFor(m, f)
           data  == f.kind = "DATA"
       IN /\ rx' = Set(rx, m, rx[m] \ {f})
          /\ \/ /\ Ahead(m, f) > WINDOW              \* old burst
                /\ UNCHANGED <<pktIDMap, seen, pc, pkt>>
             \/ /\ Ahead(m, f) <= WINDOW
                /\ data /\ PktId(f) \in map          \* already relayed
                /\ pktIDMap' = Set(pktIDMap, m, map)
                /\ UNCHANGED <<seen, pc, pkt>>
             \/ /\ Ahead(m, f) <= WINDOW
                /\ ~data \/ PktId(f) \notin map
                /\ pktIDMap' = Set(pktIDMap, m,
                                   IF data THEN map \cup {PktId(f)} ELSE map)
                /\ seen' = IF isNew THEN Set(seen, m, f.number) ELSE seen
                /\ IF isNew THEN /\ pc' = Set(pc, m, "count")
                                 /\ pkt' = Set(pkt, m, f)
                   ELSE IF data /\ m # Sink THEN /\ pc' = Set(pc, m, "relay")
                                                 /\ pkt' = Set(pkt, m, f)
                   ELSE UNCHANGED <<pc, pkt>>
  /\ UNCHANGED <<burstId, lightState, numMissedBursts, queue, reg,
                 relayed, miscounted, torn, misled>>

\* while (burstId != pkt_burstId): burstId advances, numMissedBursts++ ...
Count(m) ==
  /\ Goto(m, "count", "storeCount")
  /\ burstId' = Set(burstId, m, (burstId[m] + 1) % BURSTIDS)
  /\ reg' = Set(reg, m, (numMissedBursts[m] + 1) % MISSEDS)
  /\ UNCHANGED <<pktIDMap, lightState, numMissedBursts, radioVars, pkt, ghosts>>

StoreCount(m) ==
  /\ Goto(m, "storeCount", IF burstId[m] = pkt[m].burstId THEN "uncount" ELSE "count")
  /\ numMissedBursts' = Set(numMissedBursts, m, reg[m])
  /\ reg' = Set(reg, m, 0)
  /\ UNCHANGED <<burstId, pktIDMap, lightState, radioVars, pkt, ghosts>>

\* Mutant: the burst being received counts as missed.
CountAsMissed(m) ==
  /\ Goto(m, "uncount", "storeUncount")
  /\ reg' = Set(reg, m, numMissedBursts[m])
  /\ UNCHANGED <<lightVars, radioVars, pkt, ghosts>>

\* ... and numMissedBursts--, this burst not being missed.
Uncount(m) ==
  /\ Goto(m, "uncount", "storeUncount")
  /\ reg' = Set(reg, m, (numMissedBursts[m] - 1) % MISSEDS)
  /\ UNCHANGED <<lightVars, radioVars, pkt, ghosts>>

StoreUncount(m) ==
  /\ Goto(m, "storeUncount", "update")
  /\ numMissedBursts' = Set(numMissedBursts, m, reg[m])
  /\ reg' = Set(reg, m, 0)
  /\ UNCHANGED <<burstId, pktIDMap, lightState, radioVars, pkt, ghosts>>

\* Mutant: the packet's state is taken over whatever was missed.
UpdateAlways(m) ==
  /\ Goto(m, "update", "commit")
  /\ reg' = Set(reg, m, pkt[m].state)
  /\ misled' = Set(misled, m, misled[m] \/ ~UpToDate(pkt[m]))
  /\ UNCHANGED <<lightVars, radioVars, pkt, seen, relayed, miscounted, torn>>

\* light_update_light_state: the packet's state if no burst was missed, ...
Update(m) ==
  /\ pc[m] = "update"
  /\ IF numMissedBursts[m] = 0
       THEN /\ pc' = Set(pc, m, "commit")
            /\ reg' = Set(reg, m, pkt[m].state)
            /\ misled' = Set(misled, m, misled[m] \/ ~UpToDate(pkt[m]))
       ELSE pc' = Set(pc, m, "toggle") /\ UNCHANGED <<reg, misled>>
  /\ UNCHANGED <<lightVars, radioVars, pkt, seen, relayed, miscounted, torn>>

\* ... and the other state otherwise.
Toggle(m) ==
  /\ Goto(m, "toggle", "commit")
  /\ reg' = Set(reg, m, 1 - lightState[m])
  /\ UNCHANGED <<lightVars, radioVars, pkt, ghosts>>

Commit(m) ==
  /\ pc[m] = "commit"
  /\ lightState' = Set(lightState, m, reg[m])
  /\ reg' = Set(reg, m, 0)
  /\ IF pkt[m].kind = "DATA" /\ m # Sink
       THEN pc' = Set(pc, m, "relay") /\ UNCHANGED pkt
       ELSE Idle(m)
  /\ UNCHANGED <<burstId, pktIDMap, numMissedBursts, radioVars, ghosts>>

\* light_send_one_packet, with the light_info of the relay.
Relay(m) ==
  /\ pc[m] = "relay"
  /\ Idle(m)
  /\ IF FreeBuffers(m) > 0
       THEN /\ queue' = Set(queue, m, queue[m] \cup {LightInfo(m, "DATA", PktId(pkt[m]))})
            /\ relayed' = Set(relayed, m, relayed[m] \cup {<<seen[m], PktId(pkt[m])>>})
       ELSE UNCHANGED <<queue, relayed>>
  /\ UNCHANGED <<lightVars, rx, reg, seen, miscounted, torn, misled>>

Task(m) ==
  \/ Receive(m)
  \/ Count(m) \/ StoreCount(m) \/ Uncount(m) \/ StoreUncount(m)
  \/ Update(m) \/ Toggle(m) \/ Commit(m)
  \/ Relay(m)

-----------------------------------------------------------------------------

Next == Interrupt \/ \E m \in Motes : Task(m)

Spec == Init /\ [][Next]_vars

-----------------------------------------------------------------------------
(***************************************************************************)
(* Properties.                                                             *)
(***************************************************************************)

\* The variables of the application, of the pool and of the task have their
\* types, and no more packets than buffers are kept.
TypeOK ==
  \A m \in Motes :
    /\ burstId[m] \in 0 .. BURSTIDS - 1
    /\ pktIDMap[m] \in SUBSET (0 .. 3)
    /\ lightState[m] \in {0, 1}
    /\ numMissedBursts[m] \in 0 .. MISSEDS - 1
    /\ queue[m] \subseteq Frames /\ rx[m] \subseteq Frames
    /\ pc[m] \in {"idle", "count", "storeCount", "uncount", "storeUncount",
                  "update", "toggle", "commit", "relay"}
    /\ pkt[m] \in Frames \cup {NoFrame}
    /\ FreeBuffers(m) >= 0

\* A mote has fewer bursts to catch up than there were, provided the
\* interrupt of slot 0 spares the window of the task in which the burst being
\* received counts as missed.
MissedCounts ==
  \A m \in Motes :
    \/ miscounted[m]
    \/ numMissedBursts[m] = 0
    \/ numMissedBursts[m] < seen[m]
    \/ numMissedBursts[m] = seen[m] /\ pc[m] \notin {"idle", "relay"}

\* The light state of a mote follows the burst number, less the bursts it has
\* to catch up: missed bursts, old packets, duplicates, EBs and the interrupt
\* that toggles it leave it right, unless that interrupt comes between a load
\* and its store, or the mote takes over the state of a packet whose sender
\* had not caught up itself.
StateFollowsBurst ==
  \A m \in Motes :
    torn[m] \/ misled[m] \/ pc[m] \notin {"idle", "relay"}
      \/ (burstId[m] + numMissedBursts[m] + lightState[m]) % 2 = 0

\* A mote relays each packet of a burst once, however many neighbours send it
\* and however late.
RelayOnce ==
  [][\A m \in Motes :
       pc[m] = "relay" /\ pc'[m] = "idle" =>
         <<seen[m], PktId(pkt[m])>> \notin relayed[m]]_vars

\* What the window of the burst numbers asks of the network: no packet reaches
\* a mote so many bursts late that its number looks like a new one's.  Nothing
\* in the code keeps packets from growing older than that; MAXAGE does here.
Timely == \A m \in Motes : \A f \in rx[m] : seen[m] - f.number < BURSTIDS - WINDOW

\* light.c:221 and light.c:287 "old burstID": a packet of an earlier burst
\* never takes a mote back, although burst numbers wrap, while packets are
\* Timely.
BurstsAdvance == [][\A m \in Motes : seen'[m] >= seen[m]]_vars

\* light.h:59 "number of burst I have missed and for which I need to
\* catch-up": it is at most the number of bursts there were.
MissedIsCount == \A m \in Motes : numMissedBursts[m] <= seen[Sensor]

\* light.h:57 "current state of the light": a mote that has taken in the
\* last burst and has nothing to catch up agrees with the sensor, even when
\* no interrupt comes in a window of any task.
StateOfTheLight ==
  (\A m \in Motes : ~torn[m] /\ ~miscounted[m]) => \A m \in Motes :
    pc[m] = "idle" /\ seen[m] = seen[Sensor] /\ numMissedBursts[m] = 0
      => lightState[m] = lightState[Sensor]

=============================================================================
