----------------------------- MODULE PacketPool -----------------------------
(***************************************************************************)
(* What the packet pool promises to everybody who handles a packet: the    *)
(* life of a buffer, seen from outside the stack.  A buffer is             *)
(*                                                                         *)
(*    "free"    in the pool,                                               *)
(*    "held"    in the hands of the code running in task mode,             *)
(*    "queued"  handed down to the MAC, waiting for its cell,              *)
(*    "mac"     the packet of the slot in progress,                        *)
(*    "sent"    back from the MAC, its sendDone task posted,               *)
(*    "rcvd"    a received frame, its receive task posted.                 *)
(*                                                                         *)
(* Interrupts and tasks each move some buffers one step along; no step     *)
(* takes a buffer away from whoever holds it, a packet the MAC took comes  *)
(* back before anyone else sees it, and the MAC has one packet at a time.  *)
(***************************************************************************)
CONSTANT Buffers

VARIABLE phase

Phases == {"free", "held", "queued", "mac", "sent", "rcvd"}

\* A buffer created and handed down within one interrupt goes straight from
\* "free" to "queued", or to "mac" when its cell is the slot that starts.
Moves == { <<"free", "held">>, <<"free", "queued">>, <<"free", "mac">>,
           <<"free", "rcvd">>, <<"held", "queued">>, <<"held", "free">>,
           <<"queued", "mac">>, <<"mac", "sent">>, <<"sent", "held">>,
           <<"rcvd", "held">> }

OnePacketInMac ==
  \A b, c \in Buffers : phase[b] = "mac" /\ phase[c] = "mac" => b = c

Init == phase = [b \in Buffers |-> "free"]

Next ==
  /\ phase' \in [Buffers -> Phases]
  /\ \A b \in Buffers :
       phase'[b] # phase[b] => <<phase[b], phase'[b]>> \in Moves
  /\ OnePacketInMac'

Spec == Init /\ [][Next]_phase

\* The MAC gives every packet back.
Returned == \A b \in Buffers : (phase[b] = "mac") ~> (phase[b] = "sent")

=============================================================================
