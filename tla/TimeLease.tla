----------------------------- MODULE TimeLease -----------------------------
(***************************************************************************)
(* What it means to be synchronised, whoever counts and however finely: a  *)
(* mote holds the time of the network on a lease.  It gets one, or a new   *)
(* term for the one it holds, with a number that it has not had last, and  *)
(* with nothing else; it loses the lease Term slots after that.            *)
(*                                                                         *)
(* Module Ieee154e, the interrupts of one mote, and module SyncNet, the    *)
(* slots of several, both implement it.                                    *)
(***************************************************************************)
EXTENDS Naturals

CONSTANTS
  Holders,
  Resets,      \* the holders that may start again
  Term,
  Numbers

VARIABLES held, left, number

Init ==
  /\ held = [m \in Holders |-> FALSE]
  /\ left = [m \in Holders |-> 0]
  /\ number = [m \in Holders |-> 0]

\* One slot of the term passes.
Run(m) ==
  /\ held[m] /\ held'[m]
  /\ left[m] > 1 /\ left'[m] = left[m] - 1
  /\ number'[m] = number[m]

\* The last slot of the term passes.
Expire(m) ==
  /\ held[m] /\ ~held'[m]
  /\ left[m] = 1 /\ left'[m] = 0
  /\ number'[m] = number[m]

\* A new number, and a whole term.
Renew(m) ==
  /\ held'[m]
  /\ left'[m] = Term
  /\ number'[m] \in Numbers \ {number[m]}

Reset(m) ==
  /\ m \in Resets
  /\ ~held'[m] /\ left'[m] = 0 /\ number'[m] = 0

Keep(m) == held'[m] = held[m] /\ left'[m] = left[m] /\ number'[m] = number[m]

\* The holders act at their own times or together.
Next ==
  \A m \in Holders : Run(m) \/ Expire(m) \/ Renew(m) \/ Reset(m) \/ Keep(m)

Spec == Init /\ [][Next]_<<held, left, number>>

=============================================================================
