----------------------------- MODULE MCSyncNet -----------------------------
(* Small networks for TLC: a DAG root and two motes.                       *)
EXTENDS SyncNet

CONSTANTS r, a, b, c

\* b hears everyone but prefers a, whose parent is the DAG root.
HearsAll == [m \in Motes |-> Motes \ {m}]
NoParents == [m \in Motes |-> {}]
Line == [m \in Motes |-> IF m = a THEN {r} ELSE IF m = b THEN {a} ELSE {}]

\* EBs on some of the channels of the data packets, which these reach in data
\* slots too.
EbChannels == [i \in 0 .. EB_NUMCHANS - 1 |-> 3 * i]
DataChannels == [i \in 0 .. NUMCHANS - 1 |-> (i + 2) % NUMCHANS]

=============================================================================
