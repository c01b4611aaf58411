---------------------------- MODULE MCIeee154e -----------------------------
(* A mote on a small slotframe, one configuration per role. *)
EXTENDS Ieee154e
=============================================================================
