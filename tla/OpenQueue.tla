----------------------------- MODULE OpenQueue -----------------------------
(***************************************************************************)
(* The packet pool of a mote: the array openqueue_vars.queue of            *)
(* QUEUELENGTH entries and the functions of                                *)
(* openstack/cross-layers/openqueue.c, written as operators on a queue q   *)
(* (a function from entry numbers to entries).  Every one of those         *)
(* functions runs with the interrupts disabled, so each is one atomic      *)
(* operation for the modules that use them.                                *)
(*                                                                         *)
(* An entry keeps the fields the stack's control flow reads: who created   *)
(* it, who owns it, the transmissions left, and the type of a received     *)
(* frame.  The payload is left to the modules that look at it.             *)
(***************************************************************************)
EXTENDS Naturals

CONSTANT QUEUELENGTH     \* openqueue.h: 20

ASSUME QueueAssumption == QUEUELENGTH \in Nat \ {0}

Buffers == 0 .. QUEUELENGTH - 1

Null == QUEUELENGTH      \* the NULL pointer: no entry has this number

Pointers == Buffers \cup {Null}

(***************************************************************************)
(* The component identifiers of opendefs.h that creators and owners take.  *)
(* Those numbered above COMPONENT_IEEE802154E get no buffer while the mote *)
(* is not synchronised.                                                    *)
(***************************************************************************)
AboveMac == {"SIXTOP_TO_IEEE802154E", "IEEE802154E_TO_SIXTOP", "SIXTOP",
             "NEIGHBORS", "LIGHT"}

Components == {"NULL", "OPENQUEUE", "IEEE802154E"} \cup AboveMac

Kinds == {"UNDEFINED", "BEACON", "DATA"}

\* What openqueue_reset_entry leaves in an entry.
ResetEntry == [creator |-> "NULL", owner |-> "NULL",
               retries |-> 0, kind |-> "UNDEFINED"]

Entries == [creator : Components, owner : Components,
            retries : 0 .. 255, kind : Kinds]

\* Scanning for (i=0;i<QUEUELENGTH;i++) finds the lowest matching entry.
First(S) == IF S = {} THEN Null
            ELSE CHOOSE b \in S : \A c \in S : b <= c

-----------------------------------------------------------------------------

FreeBuffers(q) == {b \in Buffers : q[b].owner = "NULL"}

OwnedBy(q, owner) == {b \in Buffers : q[b].owner = owner}

\* The entry openqueue_getFreePacketBuffer(creator) hands out, or Null.
FreePacketBuffer(q, isSync, creator) ==
  IF ~isSync /\ creator \in AboveMac THEN Null ELSE First(FreeBuffers(q))

\* The queue after that call claimed entry b.
Claim(q, b, creator) ==
  [q EXCEPT ![b].creator = creator, ![b].owner = "OPENQUEUE"]

\* Mutant: the entry is not reset.
FreeNothing(q, b) == q

FreePacket(q, b) == [q EXCEPT ![b] = ResetEntry]

\* Mutant: the creator is not compared.
RemoveAll(q, creator) == [b \in Buffers |-> ResetEntry]

RemoveAllCreatedBy(q, creator) ==
  [b \in Buffers |-> IF q[b].creator = creator THEN ResetEntry ELSE q[b]]

\* Called by 6top: what the MAC has handed up.
SentPackets(q) ==
  {b \in OwnedBy(q, "IEEE802154E_TO_SIXTOP") : q[b].creator # "IEEE802154E"}

ReceivedPackets(q) ==
  {b \in OwnedBy(q, "IEEE802154E_TO_SIXTOP") : q[b].creator = "IEEE802154E"}

SixtopGetSentPacket(q)     == First(SentPackets(q))
SixtopGetReceivedPacket(q) == First(ReceivedPackets(q))

\* Called by the MAC: what 6top has handed down.
MacGetDataPacket(q) ==
  First({b \in OwnedBy(q, "SIXTOP_TO_IEEE802154E") : q[b].creator # "SIXTOP"})

MacGetEBPacket(q) ==
  First({b \in OwnedBy(q, "SIXTOP_TO_IEEE802154E") : q[b].creator = "SIXTOP"})

=============================================================================
