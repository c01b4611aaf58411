----------------------------- MODULE Neighbors -----------------------------
(***************************************************************************)
(* The neighbour table of one mote (openstack/02b-MAChigh/neighbors.c):    *)
(* whom it has heard, its DAG rank and its preferred parent, the only mote *)
(* the MAC resynchronises to.                                              *)
(*                                                                         *)
(* The receive task of 6top writes the table with the interrupts enabled;  *)
(* the MAC asks neighbors_isPreferredParent, and reads the rank to fill in *)
(* EBs, from interrupts between any two of its steps.  These interrupts    *)
(* write nothing here: what they may be told is what is true in each       *)
(* state, so the module has one action per part of the task between two    *)
(* accesses that they can tell apart.                                      *)
(*                                                                         *)
(* neighbors_removeOld has no caller: a row once used is used for ever.    *)
(***************************************************************************)
EXTENDS Integers, FiniteSets

CONSTANTS
  MAXNUMNEIGHBORS,           \* opendefs.h: 15
  Motes,                     \* the motes that may be heard, by shortID
  NoMote,                    \* shortID 0 of a row never used
  MAXDAGRANK,                \* neighbors.h: 0xff, also DEFAULTDAGRANK
  NUMRXS,                    \* the values of numRx: 256, it is a uint8_t
  SWITCHSTABILITYTHRESHOLD,  \* neighbors.h: 3
  isDAGroot

ASSUME NeighborsAssumption ==
  /\ MAXNUMNEIGHBORS \in Nat \ {0}
  /\ NoMote \notin Motes
  /\ MAXDAGRANK \in Nat /\ MAXDAGRANK > 2
  /\ NUMRXS \in Nat /\ NUMRXS > 1
  /\ SWITCHSTABILITYTHRESHOLD \in Nat \ {0}
  /\ isDAGroot \in BOOLEAN

Rows == 1 .. MAXNUMNEIGHBORS

NoRow == 0

MINHOPRANKINCREASE == 1

\* What an EB may announce: a mote without a rank sends none.
EbRanks == 1 .. MAXDAGRANK - 1

\* Below GOODNEIGHBORMINRSSI, between the two thresholds, and above
\* BADNEIGHBORMAXRSSI.
Signals == {"weak", "fair", "strong"}

Row == [used : BOOLEAN, shortID : Motes \cup {NoMote}, preferred : BOOLEAN,
        DAGrank : 0 .. MAXDAGRANK, numRx : 0 .. NUMRXS - 1,
        stableNeighbor : BOOLEAN,
        switchStabilityCounter : 0 .. SWITCHSTABILITYTHRESHOLD - 1]

VARIABLES
  neighbors, myDAGrank,   \* neighbors_vars; preferred is MAXPREFERENCE
  pc,                     \* where the receive task is
  src, ebrank,            \* the frame it handles; ebrank is 0 for data
  first,                  \* updating: the branch that acquires a rank
  i, prefParentIdx,       \* updating: next row, and the parent found
  runningNumRx,           \* updating: its number of receptions
  parent                  \* ghost: the preferred parent after the last task

scanVars == <<first, i, prefParentIdx, runningNumRx>>
vars == <<neighbors, myDAGrank, pc, src, ebrank, scanVars, parent>>

-----------------------------------------------------------------------------

Init ==
  /\ neighbors = [r \in Rows |->
       [used |-> FALSE, shortID |-> NoMote, preferred |-> FALSE, DAGrank |-> 0,
        numRx |-> 0, stableNeighbor |-> FALSE, switchStabilityCounter |-> 0]]
  /\ myDAGrank = IF isDAGroot THEN MINHOPRANKINCREASE ELSE MAXDAGRANK
  /\ pc = "idle"
  /\ src = NoMote /\ ebrank = 0
  /\ first = FALSE /\ i = 1 /\ prefParentIdx = NoRow /\ runningNumRx = 0
  /\ parent = NoMote

\* isThisRowMatching
IsRowOf(m, r) == neighbors[r].used /\ neighbors[r].shortID = m

isNeighbor(m) == \E r \in Rows : IsRowOf(m, r)

RowOf(m) == CHOOSE r \in Rows : IsRowOf(m, r) /\ \A s \in 1 .. r-1 : ~IsRowOf(m, s)

\* neighbors_isPreferredParent, for the interrupts.
isPreferredParent(m) == \E r \in Rows : IsRowOf(m, r) /\ neighbors[r].preferred

UnusedRows == {r \in Rows : ~neighbors[r].used}

IsFirstUnused(r) == r \in UnusedRows /\ \A s \in UnusedRows : r <= s

HaveParent == \E r \in Rows : neighbors[r].preferred

\* The task returns: whoever is preferred now is the parent.
Settle ==
  /\ pc' = "idle" /\ src' = NoMote /\ ebrank' = 0
  /\ parent' = IF \E r \in Rows : neighbors'[r].preferred
                 THEN neighbors'[CHOOSE r \in Rows : neighbors'[r].preferred].shortID
                 ELSE NoMote

\* neighbors_indicateRx is done: an EB goes on to neighbors_indicateRxEB.
AfterStatistics(m, announced) ==
  IF announced = 0
    THEN Settle
    ELSE pc' = "rank" /\ src' = m /\ ebrank' = announced /\ UNCHANGED parent

-----------------------------------------------------------------------------
(***************************************************************************)
(* neighbors_indicateRx                                                    *)
(***************************************************************************)

\* A neighbour changes between stable and unstable at the
\* SWITCHSTABILITYTHRESHOLD-th reception in a row that speaks for it.
Stability(row, signal) ==
  LET against == signal = (IF row.stableNeighbor THEN "weak" ELSE "strong")
      n == row.switchStabilityCounter + 1
      switches == against /\ n >= SWITCHSTABILITYTHRESHOLD
  IN [row EXCEPT
        !.stableNeighbor = IF switches THEN ~@ ELSE @,
        !.switchStabilityCounter = IF against /\ ~switches THEN n ELSE 0]

\* Mutant: the counter of receptions does not wrap.
HeardWide(row, signal) == Stability([row EXCEPT !.numRx = @ + 1], signal)

Heard(row, signal) ==
  Stability([row EXCEPT !.numRx = (@ + 1) % NUMRXS], signal)

NewRow(m) ==
  [used |-> TRUE, shortID |-> m, preferred |-> FALSE, DAGrank |-> MAXDAGRANK,
   numRx |-> 1, stableNeighbor |-> TRUE, switchStabilityCounter |-> 0]

IndicateKnown(m, announced, signal) ==
  /\ isNeighbor(m)
  /\ neighbors' = [neighbors EXCEPT ![RowOf(m)] = Heard(@, signal)]
  /\ AfterStatistics(m, announced)

\* Mutant: a neighbour is registered whether or not it is known.
IndicateAsNew(m, announced) ==
  /\ \E r \in Rows : IsFirstUnused(r) /\ neighbors' = [neighbors EXCEPT ![r] = NewRow(m)]
  /\ pc' = "prefer" /\ src' = m /\ ebrank' = announced
  /\ UNCHANGED parent

\* registerNewNeighbor, up to the question whether there is a parent.
IndicateNew(m, announced) ==
  /\ ~isNeighbor(m)
  /\ \E r \in Rows : IsFirstUnused(r) /\ neighbors' = [neighbors EXCEPT ![r] = NewRow(m)]
  /\ pc' = "prefer" /\ src' = m /\ ebrank' = announced
  /\ UNCHANGED parent

\* With a full table a new neighbour is ignored.
IndicateFull(m, announced) ==
  /\ ~isNeighbor(m) /\ UnusedRows = {}
  /\ UNCHANGED neighbors
  /\ AfterStatistics(m, announced)

\* task_sixtopNotifReceive hands a frame to neighbors_indicateRx.
indicateRx(m, announced, signal) ==
  /\ pc = "idle"
  /\ \/ IndicateKnown(m, announced, signal)
     \/ IndicateNew(m, announced)
     \/ IndicateFull(m, announced)
  /\ UNCHANGED <<myDAGrank, scanVars>>

\* The end of registerNewNeighbor: the new neighbour is the preferred parent
\* of a mote that has none, whatever its rank.
Prefer ==
  /\ pc = "prefer"
  /\ neighbors' = IF ~HaveParent /\ ~isDAGroot
                    THEN [neighbors EXCEPT ![RowOf(src)].preferred = TRUE]
                    ELSE neighbors
  /\ AfterStatistics(src, ebrank)
  /\ UNCHANGED <<myDAGrank, scanVars>>

-----------------------------------------------------------------------------
(***************************************************************************)
(* neighbors_indicateRxEB and                                              *)
(* neighbors_updateMyDAGrankAndNeighborPreference                          *)
(***************************************************************************)

StoreRank ==
  neighbors' = IF isNeighbor(src) THEN [neighbors EXCEPT ![RowOf(src)].DAGrank = ebrank]
                                  ELSE neighbors

BeginScan ==
  /\ pc' = "scan"
  /\ first' = (myDAGrank = MAXDAGRANK)
  /\ i' = 1 /\ prefParentIdx' = NoRow /\ runningNumRx' = 0
  /\ UNCHANGED <<src, ebrank, myDAGrank, parent>>

\* Mutant: an EB that is not of a better rank ends without an update.
indicateRxEBNoUpdate ==
  /\ pc = "rank"
  /\ StoreRank
  /\ IF isDAGroot \/ ebrank >= myDAGrank
       THEN Settle /\ UNCHANGED <<myDAGrank, scanVars>>
       ELSE BeginScan

\* The rank is stored and the update begins; a DAG root's ends at once.
indicateRxEB ==
  /\ pc = "rank"
  /\ StoreRank
  /\ IF isDAGroot
       THEN Settle /\ myDAGrank' = MINHOPRANKINCREASE /\ UNCHANGED scanVars
       ELSE BeginScan

tentativeDAGrank == neighbors[i].DAGrank + MINHOPRANKINCREASE

\* The first rank: the least of the neighbours', plus one.
BetterRank == tentativeDAGrank < myDAGrank /\ tentativeDAGrank < MAXDAGRANK

\* Mutant: the rank of the candidate is not looked at.
BusierAny == neighbors[i].numRx > runningNumRx

\* Afterwards: among those of rank one less, the one heard most.
BusierParent ==
  /\ neighbors[i].DAGrank = myDAGrank - MINHOPRANKINCREASE
  /\ neighbors[i].numRx > runningNumRx

Candidate == neighbors[i].used /\ (IF first THEN BetterRank ELSE BusierParent)

NextRow ==
  IF i < MAXNUMNEIGHBORS THEN i' = i + 1 /\ pc' = "scan" ELSE i' = i /\ pc' = "choose"

Note ==
  IF Candidate
    THEN /\ prefParentIdx' = i
         /\ myDAGrank' = IF first THEN tentativeDAGrank ELSE myDAGrank
         /\ runningNumRx' = IF first THEN runningNumRx ELSE neighbors[i].numRx
    ELSE UNCHANGED <<prefParentIdx, myDAGrank, runningNumRx>>

\* Mutant: the preference moves as soon as a better parent is found.
ScanAndPrefer ==
  /\ pc = "scan"
  /\ neighbors' = [r \in Rows |-> [neighbors[r] EXCEPT
                     !.preferred = IF Candidate THEN r = i ELSE r # i /\ @]]
  /\ Note /\ NextRow
  /\ UNCHANGED <<src, ebrank, first, parent>>

\* One turn of the loop over the table.
ScanRow ==
  /\ pc = "scan"
  /\ neighbors' = IF neighbors[i].used THEN [neighbors EXCEPT ![i].preferred = FALSE]
                                       ELSE neighbors
  /\ Note /\ NextRow
  /\ UNCHANGED <<src, ebrank, first, parent>>

Choose ==
  /\ pc = "choose"
  /\ neighbors' = IF prefParentIdx # NoRow
                    THEN [neighbors EXCEPT ![prefParentIdx].preferred = TRUE]
                    ELSE neighbors
  /\ Settle
  /\ first' = FALSE /\ i' = 1 /\ prefParentIdx' = NoRow /\ runningNumRx' = 0
  /\ UNCHANGED myDAGrank

-----------------------------------------------------------------------------

Next ==
  \/ \E m \in Motes, announced \in EbRanks \cup {0}, signal \in Signals :
       indicateRx(m, announced, signal)
  \/ Prefer
  \/ indicateRxEB \/ ScanRow \/ Choose

Spec == Init /\ [][Next]_vars

-----------------------------------------------------------------------------
(***************************************************************************)
(* Properties.                                                             *)
(***************************************************************************)

\* neighbors_vars and the locals of the receive task keep their types.
TypeOK ==
  /\ neighbors \in [Rows -> Row]
  /\ myDAGrank \in 1 .. MAXDAGRANK
  /\ pc \in {"idle", "prefer", "rank", "scan", "choose"}
  /\ src \in Motes \cup {NoMote} /\ ebrank \in 0 .. MAXDAGRANK - 1
  /\ first \in BOOLEAN /\ i \in Rows
  /\ prefParentIdx \in Rows \cup {NoRow} /\ runningNumRx \in 0 .. NUMRXS - 1
  /\ parent \in Motes \cup {NoMote}

\* Between any two steps of the task, so for any interrupt, the table of
\* neighbors.c has at most one preferred parent and none for the DAG root, and
\* at most one row per mote, so that its searches find the same row.
TableSound ==
  /\ \A r \in Rows : neighbors[r].preferred => neighbors[r].used /\ ~isDAGroot
  /\ \A r, s \in Rows : neighbors[r].preferred /\ neighbors[s].preferred => r = s
  /\ \A r, s \in Rows :
       neighbors[r].used /\ neighbors[s].used /\ neighbors[r].shortID = neighbors[s].shortID
         => r = s

\* Between tasks the preferred parent of a mote with a rank has a rank one
\* less, or has announced none: ranks descend along the parents, so that the
\* motes that resynchronise to each other form no cycle.
ParentBelow ==
  pc = "idle" /\ myDAGrank # MAXDAGRANK =>
    \A r \in Rows : neighbors[r].preferred =>
      neighbors[r].DAGrank \in {myDAGrank - MINHOPRANKINCREASE, MAXDAGRANK}

\* What the update of neighbors.c (243-299) computes with its loops.  The
\* first rank is that of the EB just received plus one, and its sender the
\* parent; afterwards the parent is the neighbour of rank one less with the
\* highest numRx.  A mote is left without a parent only if all of these have
\* a numRx of zero, which they reach by its overflow alone.
ChoosesParent ==
  [][pc = "choose" =>
       IF first
         THEN prefParentIdx # NoRow => myDAGrank = ebrank + 1 /\ parent' = src
         ELSE LET above == {r \in Rows : /\ neighbors[r].used
                                         /\ neighbors[r].DAGrank = myDAGrank - 1
                                         /\ neighbors[r].numRx > 0}
              IN IF above = {}
                   THEN parent' = NoMote
                   ELSE \E r \in above : /\ parent' = neighbors[r].shortID
                                         /\ \A s \in above : neighbors[s].numRx <= neighbors[r].numRx
    ]_vars

\* An interrupt at any point of the task is told that a mote is the preferred
\* parent only if it is the one of the last task, or the new neighbour of a
\* mote that had none: it never resynchronises to a passing candidate of the
\* update.  And it is told so of the parent, except while the update runs.
AnswersSettle ==
  /\ \A m \in Motes : isPreferredParent(m) => m = parent \/ (parent = NoMote /\ m = src)
  /\ pc \notin {"scan", "choose"} /\ parent # NoMote => isPreferredParent(parent)

=============================================================================
