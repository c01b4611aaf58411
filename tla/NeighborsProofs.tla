-------------------------- MODULE NeighborsProofs --------------------------
(***************************************************************************)
(* The neighbour table is sound for a table of any size, any set of motes  *)
(* and any order of the frames heard, and the loops of the update choose   *)
(* the parent that ChoosesParent defines.                                  *)
(***************************************************************************)
EXTENDS Neighbors, TLAPS

USE NeighborsAssumption

Preferred(r) == neighbors[r].preferred

Unused(r) == ~neighbors[r].used

\* Rows in use carry the name of a mote, the others are never preferred.
RowsNamed == \A r \in Rows : neighbors[r].used => neighbors[r].shortID \in Motes

\* What the receive task has established where it is.
TaskInv ==
  /\ pc = "idle" => src = NoMote
  /\ pc # "idle" => src \in Motes
  /\ pc \in {"rank", "scan", "choose"} => ebrank \in EbRanks
  /\ pc \in {"scan", "choose"} => ~isDAGroot
  /\ pc = "prefer" => \E r \in Rows :
       IsRowOf(src, r) /\ ~Preferred(r) /\ neighbors[r].DAGrank = MAXDAGRANK

\* Whom an interrupt may be told of.
AnswerInv ==
  /\ \A r \in Rows : Preferred(r) =>
       \/ neighbors[r].shortID = parent
       \/ parent = NoMote /\ neighbors[r].shortID = src /\ pc # "prefer"
  /\ pc \notin {"scan", "choose"} /\ parent # NoMote =>
       \E r \in Rows : Preferred(r) /\ neighbors[r].shortID = parent

\* The loop of the update: the rows passed are not preferred, and the
\* candidate is a row in use of a rank one less.
ScanInv ==
  /\ pc = "scan" => \A r \in Rows : r < i => ~Preferred(r)
  /\ pc = "choose" => \A r \in Rows : ~Preferred(r)
  /\ pc \in {"scan", "choose"} /\ prefParentIdx # NoRow =>
       /\ neighbors[prefParentIdx].used
       /\ neighbors[prefParentIdx].DAGrank = myDAGrank - MINHOPRANKINCREASE
  /\ pc \in {"scan", "choose"} /\ first /\ prefParentIdx = NoRow => myDAGrank = MAXDAGRANK
  /\ pc \in {"scan", "choose"} /\ ~first => myDAGrank # MAXDAGRANK

\* ParentBelow holds until the EB's rank is stored.
RankInv ==
  pc \in {"idle", "prefer", "rank"} /\ myDAGrank # MAXDAGRANK =>
    \A r \in Rows : Preferred(r) =>
      neighbors[r].DAGrank \in {myDAGrank - MINHOPRANKINCREASE, MAXDAGRANK}

TableInv == TypeOK /\ TableSound /\ RowsNamed /\ TaskInv /\ AnswerInv /\ ScanInv /\ RankInv

-----------------------------------------------------------------------------
(***************************************************************************)
(* The operators.                                                          *)
(***************************************************************************)

\* A mote with a row has one, and RowOf finds it.
LEMMA RowOfKnown ==
  ASSUME TableSound, NEW m, isNeighbor(m)
  PROVE  RowOf(m) \in Rows /\ IsRowOf(m, RowOf(m))
<1>1. PICK r \in Rows : IsRowOf(m, r)
  BY DEF isNeighbor
<1>2. \A s \in 1 .. r-1 : ~IsRowOf(m, s)
  <2> SUFFICES ASSUME NEW s \in 1 .. r-1, IsRowOf(m, s)
               PROVE  FALSE
    OBVIOUS
  <2>1. s \in Rows /\ s # r
    BY <1>1 DEF Rows
  <2> QED BY <1>1, <2>1 DEF TableSound, IsRowOf
<1>3. RowOf(m) \in Rows /\ IsRowOf(m, RowOf(m)) /\ \A s \in 1 .. RowOf(m)-1 : ~IsRowOf(m, s)
  BY <1>1, <1>2 DEF RowOf
<1> QED BY <1>3

\* A reception changes the statistics of a row and nothing else.
LEMMA HeardKeeps ==
  ASSUME NEW row \in Row, NEW signal
  PROVE  /\ Heard(row, signal) \in Row
         /\ Heard(row, signal).used = row.used
         /\ Heard(row, signal).shortID = row.shortID
         /\ Heard(row, signal).preferred = row.preferred
         /\ Heard(row, signal).DAGrank = row.DAGrank
<1> DEFINE counted == [row EXCEPT !.numRx = (@ + 1) % NUMRXS]
<1>1. (row.numRx + 1) % NUMRXS \in 0 .. NUMRXS - 1
  BY DEF Row
<1>2. counted \in Row
  BY <1>1 DEF Row
<1>3. /\ counted.used = row.used /\ counted.shortID = row.shortID
      /\ counted.preferred = row.preferred /\ counted.DAGrank = row.DAGrank
  BY DEF Row
<1> HIDE DEF counted
<1>4. /\ Stability(counted, signal) \in Row
      /\ Stability(counted, signal).used = counted.used
      /\ Stability(counted, signal).shortID = counted.shortID
      /\ Stability(counted, signal).preferred = counted.preferred
      /\ Stability(counted, signal).DAGrank = counted.DAGrank
  <2> DEFINE against == signal = (IF counted.stableNeighbor THEN "weak" ELSE "strong")
             n == counted.switchStabilityCounter + 1
             switches == against /\ n >= SWITCHSTABILITYTHRESHOLD
             c == IF against /\ ~switches THEN n ELSE 0
             b == IF switches THEN ~counted.stableNeighbor ELSE counted.stableNeighbor
  <2>1. c \in 0 .. SWITCHSTABILITYTHRESHOLD - 1
    BY <1>2 DEF Row
  <2>2. b \in BOOLEAN
    BY <1>2 DEF Row
  <2>3. Stability(counted, signal) =
          [counted EXCEPT !.stableNeighbor = b, !.switchStabilityCounter = c]
    BY DEF Stability
  <2> HIDE DEF against, n, switches, c, b
  <2> QED BY <1>2, <2>1, <2>2, <2>3 DEF Row
<1> QED BY <1>2, <1>3, <1>4 DEF Heard, counted

LEMMA NewRowTyped ==
  ASSUME NEW m \in Motes
  PROVE  /\ NewRow(m) \in Row
         /\ NewRow(m).used /\ NewRow(m).shortID = m
         /\ ~NewRow(m).preferred /\ NewRow(m).DAGrank = MAXDAGRANK
<1>1. 1 \in 0 .. NUMRXS - 1 /\ 0 \in 0 .. SWITCHSTABILITYTHRESHOLD - 1
  OBVIOUS
<1>2. MAXDAGRANK \in 0 .. MAXDAGRANK
  OBVIOUS
<1> QED BY <1>1, <1>2 DEF NewRow, Row

-----------------------------------------------------------------------------
(***************************************************************************)
(* The steps.                                                              *)
(***************************************************************************)

\* The table has the shape TableInv asks for, whoever is preferred.
Shape ==
  /\ neighbors \in [Rows -> Row]
  /\ TableSound
  /\ RowsNamed

\* At the end of a task the preferred parent is known by name.
LEMMA SettleAnswers ==
  ASSUME Shape', Settle
  PROVE  /\ parent' \in Motes \cup {NoMote}
         /\ TaskInv' /\ AnswerInv' /\ ScanInv'
<1>1. /\ \A r \in Rows : neighbors'[r].preferred => neighbors'[r].used
      /\ \A r, s \in Rows : neighbors'[r].preferred /\ neighbors'[s].preferred => r = s
      /\ \A r \in Rows : neighbors'[r].used => neighbors'[r].shortID \in Motes
  BY DEF Shape, TableSound, RowsNamed
<1>2. pc' = "idle" /\ src' = NoMote
  BY DEF Settle
<1>3. CASE \E r \in Rows : neighbors'[r].preferred
  <2>1. PICK r \in Rows : neighbors'[r].preferred
    BY <1>3
  <2>2. (CHOOSE s \in Rows : neighbors'[s].preferred) = r
    BY <2>1, <1>1
  <2>3. parent' = neighbors'[r].shortID
    BY <1>3, <2>2 DEF Settle
  <2>4. parent' \in Motes
    BY <2>1, <2>3, <1>1
  <2>5. AnswerInv'
    BY <2>1, <2>3, <1>1, <1>2 DEF AnswerInv, Preferred
  <2> QED BY <2>4, <2>5, <1>2 DEF TaskInv, ScanInv
<1>4. CASE ~\E r \in Rows : neighbors'[r].preferred
  <2>1. parent' = NoMote
    BY <1>4 DEF Settle
  <2>2. AnswerInv'
    BY <2>1, <1>4, <1>2 DEF AnswerInv, Preferred
  <2> QED BY <2>1, <2>2, <1>2 DEF TaskInv, ScanInv
<1> QED BY <1>3, <1>4

\* The task goes on with an EB, or ends; the table has its final shape, and
\* whom it prefers is known.
LEMMA StatisticsDone ==
  ASSUME TableInv, Shape', NEW m \in Motes, NEW announced \in EbRanks \cup {0},
         AfterStatistics(m, announced),
         pc \in {"idle", "prefer"}, UNCHANGED <<myDAGrank, scanVars>>,
         RankInv',
         announced # 0 => AnswerInv'
  PROVE  TableInv'
<1>1. CASE announced = 0
  <2>1. Settle
    BY <1>1 DEF AfterStatistics
  <2>2. TypeOK'
    BY <2>1, SettleAnswers DEF Settle, TypeOK, TableInv, Shape, scanVars
  <2> QED BY <2>1, <2>2, SettleAnswers DEF TableInv, Shape
<1>2. CASE announced # 0
  <2>1. pc' = "rank" /\ src' = m /\ ebrank' = announced /\ parent' = parent /\ announced \in EbRanks
    BY <1>2 DEF AfterStatistics
  <2>2. TypeOK'
    BY <2>1 DEF TypeOK, TableInv, Shape, scanVars, EbRanks
  <2>3. TaskInv'
    BY <2>1, <2>2 DEF TaskInv, TypeOK
  <2>4. ScanInv'
    BY <2>1 DEF ScanInv
  <2> QED BY <1>2, <2>2, <2>3, <2>4 DEF TableInv, Shape
<1> QED BY <1>1, <1>2

LEMMA KnownStep ==
  ASSUME TableInv, pc = "idle", NEW m \in Motes, NEW announced \in EbRanks \cup {0}, NEW signal,
         IndicateKnown(m, announced, signal), UNCHANGED <<myDAGrank, scanVars>>
  PROVE  TableInv'
<1>1. RowOf(m) \in Rows /\ IsRowOf(m, RowOf(m))
  BY RowOfKnown DEF IndicateKnown, TableInv
<1>2. \A r \in Rows : /\ neighbors'[r] \in Row
                      /\ neighbors'[r].used = neighbors[r].used
                      /\ neighbors'[r].shortID = neighbors[r].shortID
                      /\ neighbors'[r].preferred = neighbors[r].preferred
                      /\ neighbors'[r].DAGrank = neighbors[r].DAGrank
  <2> TAKE r \in Rows
  <2>1. neighbors[r] \in Row /\ neighbors \in [Rows -> Row]
    BY DEF TableInv, TypeOK
  <2>2. CASE r = RowOf(m)
    BY <2>1, <2>2, <1>1, HeardKeeps DEF IndicateKnown
  <2>3. CASE r # RowOf(m)
    BY <2>1, <2>3, <1>1 DEF IndicateKnown
  <2> QED BY <2>2, <2>3
<1>3. neighbors' \in [Rows -> Row]
  BY <1>2 DEF IndicateKnown, TableInv, TypeOK
<1>4. Shape'
  BY <1>2, <1>3 DEF Shape, TableSound, RowsNamed, TableInv
<1>5. RankInv'
  BY <1>2 DEF RankInv, TableInv, Preferred
<1>6. announced # 0 => AnswerInv'
  <2> SUFFICES ASSUME announced # 0 PROVE AnswerInv'
    OBVIOUS
  <2>1. pc' = "rank" /\ src' = m /\ parent' = parent
    BY DEF IndicateKnown, AfterStatistics
  <2>2. \A r \in Rows : Preferred(r) => neighbors[r].shortID = parent
    BY DEF TableInv, AnswerInv, TaskInv, RowsNamed, TableSound, Preferred
  <2> QED BY <2>1, <2>2, <1>2 DEF TableInv, AnswerInv, Preferred
<1> QED BY <1>4, <1>5, <1>6, StatisticsDone DEF IndicateKnown

LEMMA FullStep ==
  ASSUME TableInv, pc = "idle", NEW m \in Motes, NEW announced \in EbRanks \cup {0},
         IndicateFull(m, announced), UNCHANGED <<myDAGrank, scanVars>>
  PROVE  TableInv'
<1>1. neighbors' = neighbors
  BY DEF IndicateFull
<1>2. Shape'
  BY <1>1 DEF Shape, TableSound, RowsNamed, TableInv, TypeOK
<1>3. RankInv'
  BY <1>1 DEF RankInv, TableInv, Preferred
<1>4. announced # 0 => AnswerInv'
  <2> SUFFICES ASSUME announced # 0 PROVE AnswerInv'
    OBVIOUS
  <2>1. pc' = "rank" /\ src' = m /\ parent' = parent
    BY DEF IndicateFull, AfterStatistics
  <2>2. \A r \in Rows : Preferred(r) => neighbors[r].shortID = parent
    BY DEF TableInv, AnswerInv, TaskInv, RowsNamed, TableSound, Preferred
  <2> QED BY <2>1, <2>2, <1>1 DEF TableInv, AnswerInv, Preferred
<1> QED BY <1>2, <1>3, <1>4, StatisticsDone DEF IndicateFull

LEMMA NewStep ==
  ASSUME TableInv, pc = "idle", NEW m \in Motes, NEW announced \in EbRanks \cup {0},
         IndicateNew(m, announced), UNCHANGED <<myDAGrank, scanVars>>
  PROVE  TableInv'
<1>1. PICK n \in Rows : IsFirstUnused(n) /\ neighbors' = [neighbors EXCEPT ![n] = NewRow(m)]
  BY DEF IndicateNew
<1>2. pc' = "prefer" /\ src' = m /\ ebrank' = announced /\ parent' = parent
  BY DEF IndicateNew
<1>3. ~neighbors[n].used /\ ~neighbors[n].preferred
  BY <1>1 DEF IsFirstUnused, UnusedRows, TableInv, TableSound
<1>4. /\ neighbors \in [Rows -> Row]
      /\ neighbors'[n] = NewRow(m)
      /\ \A r \in Rows : r # n => neighbors'[r] = neighbors[r]
  BY <1>1 DEF TableInv, TypeOK
<1>5. /\ neighbors'[n] \in Row /\ neighbors'[n].used /\ neighbors'[n].shortID = m
      /\ ~neighbors'[n].preferred /\ neighbors'[n].DAGrank = MAXDAGRANK
  BY <1>4, NewRowTyped
<1>6. neighbors' \in [Rows -> Row]
  BY <1>1, <1>4, <1>5
<1>7. \A r \in Rows : neighbors[r].used => neighbors[r].shortID # m
  BY DEF IndicateNew, isNeighbor, IsRowOf
<1>8. TableSound'
  BY <1>4, <1>5, <1>7 DEF TableSound, TableInv
<1>9. RowsNamed'
  BY <1>4, <1>5 DEF RowsNamed, TableInv
<1>10. TypeOK'
  BY <1>2, <1>6 DEF TypeOK, TableInv, scanVars, EbRanks
<1>11. TaskInv'
  BY <1>2, <1>5, <1>10 DEF TaskInv, TypeOK, IsRowOf, Preferred
<1>12. AnswerInv'
  <2>1. \A r \in Rows : Preferred(r) => neighbors[r].shortID = parent
    BY DEF TableInv, AnswerInv, TaskInv, RowsNamed, TableSound, Preferred
  <2> QED BY <2>1, <1>2, <1>3, <1>4, <1>5 DEF TableInv, AnswerInv, Preferred
<1>13. ScanInv' /\ RankInv'
  BY <1>2, <1>4, <1>5 DEF ScanInv, RankInv, TableInv, Preferred
<1> QED BY <1>8, <1>9, <1>10, <1>11, <1>12, <1>13 DEF TableInv

LEMMA PreferStep ==
  ASSUME TableInv, Prefer
  PROVE  TableInv'
<1>1. pc = "prefer" /\ src \in Motes /\ ebrank \in EbRanks \cup {0}
  BY DEF Prefer, TableInv, TaskInv, TypeOK, EbRanks
<1>2. PICK n \in Rows : IsRowOf(src, n) /\ ~Preferred(n) /\ neighbors[n].DAGrank = MAXDAGRANK
  BY <1>1 DEF TableInv, TaskInv
<1>3. RowOf(src) = n
  <2>1. RowOf(src) \in Rows /\ IsRowOf(src, RowOf(src))
    BY <1>2, RowOfKnown DEF isNeighbor, TableInv
  <2> QED BY <2>1, <1>2 DEF TableInv, TableSound, IsRowOf
<1>4. neighbors \in [Rows -> Row]
  BY DEF TableInv, TypeOK
<1>5. CASE ~HaveParent /\ ~isDAGroot
  <2>1. /\ neighbors' = [neighbors EXCEPT ![n].preferred = TRUE]
    BY <1>3, <1>5 DEF Prefer
  <2>2. /\ neighbors'[n] = [neighbors[n] EXCEPT !.preferred = TRUE]
        /\ \A r \in Rows : r # n => neighbors'[r] = neighbors[r]
    BY <2>1, <1>4
  <2>3. \A r \in Rows : ~neighbors[r].preferred
    BY <1>5 DEF HaveParent
  <2>4. \A r \in Rows : /\ neighbors'[r] \in Row
                        /\ neighbors'[r].used = neighbors[r].used
                        /\ neighbors'[r].shortID = neighbors[r].shortID
                        /\ neighbors'[r].preferred = (r = n)
                        /\ neighbors'[r].DAGrank = neighbors[r].DAGrank
    <3> TAKE r \in Rows
    <3>1. neighbors[r] \in Row /\ neighbors[r].preferred = FALSE
      BY <2>3, <1>4 DEF Row
    <3>2. CASE r = n
      BY <3>1, <3>2, <2>2 DEF Row
    <3>3. CASE r # n
      BY <3>1, <3>3, <2>2
    <3> QED BY <3>2, <3>3
  <2>5. neighbors' \in [Rows -> Row]
    BY <2>1, <2>4, <1>4
  <2>6. neighbors[n].used /\ neighbors[n].shortID = src
    BY <1>2 DEF IsRowOf
  <2>7. Shape'
    BY <2>4, <2>5, <2>6, <1>5 DEF Shape, TableSound, RowsNamed, TableInv
  <2>8. ebrank # 0 => AnswerInv'
    <3> SUFFICES ASSUME ebrank # 0 PROVE AnswerInv'
      OBVIOUS
    <3>1. pc' = "rank" /\ src' = src /\ parent' = parent
      BY DEF Prefer, AfterStatistics
    <3>2. parent = NoMote
      BY <2>3, <1>1 DEF TableInv, AnswerInv, Preferred
    <3> QED BY <3>1, <3>2, <2>4, <2>6 DEF AnswerInv, Preferred
  <2>9. RankInv'
    BY <2>4, <1>2 DEF RankInv, Preferred
  <2> QED BY <1>1, <2>7, <2>8, <2>9, StatisticsDone DEF Prefer
<1>6. CASE ~(~HaveParent /\ ~isDAGroot)
  <2>1. neighbors' = neighbors
    BY <1>6 DEF Prefer
  <2>2. Shape'
    BY <2>1 DEF Shape, TableSound, RowsNamed, TableInv, TypeOK
  <2>3. RankInv'
    BY <2>1, <1>1 DEF RankInv, TableInv, Preferred, Prefer
  <2>4. ebrank # 0 => AnswerInv'
    <3> SUFFICES ASSUME ebrank # 0 PROVE AnswerInv'
      OBVIOUS
    <3>1. pc' = "rank" /\ src' = src /\ parent' = parent
      BY DEF Prefer, AfterStatistics
    <3> QED BY <3>1, <2>1, <1>1 DEF TableInv, AnswerInv, Preferred
  <2> QED BY <1>1, <2>2, <2>3, <2>4, StatisticsDone DEF Prefer
<1> QED BY <1>5, <1>6

LEMMA StoreStep ==
  ASSUME TableInv, indicateRxEB
  PROVE  TableInv'
<1>1. pc = "rank" /\ src \in Motes /\ ebrank \in EbRanks
  BY DEF indicateRxEB, TableInv, TaskInv
<1>2. neighbors \in [Rows -> Row]
  BY DEF TableInv, TypeOK
<1>3. ebrank \in 0 .. MAXDAGRANK
  BY <1>1 DEF EbRanks
<1>4. /\ neighbors' \in [Rows -> Row]
      /\ \A r \in Rows : /\ neighbors'[r].used = neighbors[r].used
                         /\ neighbors'[r].shortID = neighbors[r].shortID
                         /\ neighbors'[r].preferred = neighbors[r].preferred
  <2>1. CASE isNeighbor(src)
    <3>1. RowOf(src) \in Rows
      BY <2>1, RowOfKnown DEF TableInv
    <3>2. neighbors' = [neighbors EXCEPT ![RowOf(src)].DAGrank = ebrank]
      BY <2>1 DEF indicateRxEB, StoreRank
    <3> QED BY <3>1, <3>2, <1>2, <1>3 DEF Row
  <2>2. CASE ~isNeighbor(src)
    BY <2>2, <1>2 DEF indicateRxEB, StoreRank
  <2> QED BY <2>1, <2>2
<1>5. Shape'
  BY <1>4 DEF Shape, TableSound, RowsNamed, TableInv
<1>6. CASE isDAGroot
  <2>1. Settle /\ myDAGrank' = MINHOPRANKINCREASE /\ UNCHANGED scanVars
    BY <1>6 DEF indicateRxEB
  <2>2. TypeOK'
    BY <2>1, <1>5, SettleAnswers
       DEF Settle, TypeOK, TableInv, Shape, scanVars, MINHOPRANKINCREASE
  <2>3. RankInv'
    BY <1>5, <1>6 DEF RankInv, Shape, TableSound, Preferred
  <2> QED BY <2>1, <2>2, <2>3, <1>5, SettleAnswers DEF TableInv, Shape
<1>7. CASE ~isDAGroot
  <2>1. BeginScan
    BY <1>7 DEF indicateRxEB
  <2>2. /\ pc' = "scan" /\ i' = 1 /\ prefParentIdx' = NoRow /\ runningNumRx' = 0
        /\ first' = (myDAGrank = MAXDAGRANK)
        /\ UNCHANGED <<src, ebrank, myDAGrank, parent>>
    BY <2>1 DEF BeginScan
  <2>3. 1 \in Rows /\ 0 \in 0 .. NUMRXS - 1
    BY DEF Rows
  <2>4. TypeOK'
    BY <2>2, <2>3, <1>5 DEF TypeOK, TableInv, Shape
  <2>5. TaskInv'
    BY <2>2, <1>1, <1>7 DEF TaskInv
  <2>6. AnswerInv'
    BY <2>2, <1>1, <1>4 DEF AnswerInv, TableInv, Preferred
  <2>7. ScanInv'
    <3>1. \A r \in Rows : ~(r < i')
      BY <2>2 DEF Rows
    <3>2. prefParentIdx' = NoRow /\ pc' # "choose"
      BY <2>2
    <3>3. first' => myDAGrank' = MAXDAGRANK
      BY <2>2
    <3>4. ~first' => myDAGrank' # MAXDAGRANK
      BY <2>2
    <3> QED BY <3>1, <3>2, <3>3, <3>4 DEF ScanInv
  <2>8. RankInv'
    BY <2>2 DEF RankInv
  <2> QED BY <2>4, <2>5, <2>6, <2>7, <2>8, <1>5 DEF TableInv, Shape
<1> QED BY <1>6, <1>7

LEMMA ScanStep ==
  ASSUME TableInv, ScanRow
  PROVE  TableInv'
<1>1. pc = "scan" /\ src \in Motes /\ ebrank \in EbRanks /\ ~isDAGroot /\ i \in Rows
  BY DEF ScanRow, TableInv, TaskInv, TypeOK
<1>2. neighbors \in [Rows -> Row]
  BY DEF TableInv, TypeOK
<1>3. UNCHANGED <<src, ebrank, first, parent>>
  BY DEF ScanRow
<1>4. /\ neighbors' \in [Rows -> Row]
      /\ \A r \in Rows : /\ neighbors'[r].used = neighbors[r].used
                         /\ neighbors'[r].shortID = neighbors[r].shortID
                         /\ neighbors'[r].DAGrank = neighbors[r].DAGrank
                         /\ neighbors'[r].preferred => neighbors[r].preferred /\ r # i
  <2>1. CASE neighbors[i].used
    <3>1. neighbors' = [neighbors EXCEPT ![i].preferred = FALSE]
      BY <2>1 DEF ScanRow
    <3> QED BY <3>1, <1>1, <1>2 DEF Row
  <2>2. CASE ~neighbors[i].used
    BY <2>2, <1>2 DEF ScanRow, TableInv, TableSound
  <2> QED BY <2>1, <2>2
<1>5. Shape'
  BY <1>4 DEF Shape, TableSound, RowsNamed, TableInv
<1>6. \/ pc' = "scan" /\ i' = i + 1 /\ i' \in Rows
      \/ pc' = "choose" /\ i' = i /\ i = MAXNUMNEIGHBORS
  BY <1>1 DEF ScanRow, NextRow, Rows
<1>7. \A r \in Rows : (pc' = "scan" /\ r < i') \/ pc' = "choose" => ~neighbors'[r].preferred
  <2> SUFFICES ASSUME NEW r \in Rows, (pc' = "scan" /\ r < i') \/ pc' = "choose",
                      neighbors'[r].preferred
               PROVE  FALSE
    OBVIOUS
  <2>1. neighbors[r].preferred /\ r # i
    BY <1>4
  <2>2. r < i
    BY <1>1, <1>6, <2>1 DEF Rows
  <2> QED BY <2>1, <2>2, <1>1 DEF TableInv, ScanInv, Preferred
<1>8. neighbors[i] \in Row
  BY <1>1, <1>2
<1>9. TypeOK'
  <2>1. myDAGrank' \in 1 .. MAXDAGRANK
    BY <1>8 DEF ScanRow, Note, Candidate, BetterRank, tentativeDAGrank, MINHOPRANKINCREASE,
                Row, TableInv, TypeOK
  <2>2. prefParentIdx' \in Rows \cup {NoRow} /\ runningNumRx' \in 0 .. NUMRXS - 1
    BY <1>1, <1>8 DEF ScanRow, Note, Row, TableInv, TypeOK
  <2>3. i' \in Rows /\ pc' \in {"scan", "choose"}
    BY <1>1, <1>6
  <2> QED BY <2>1, <2>2, <2>3, <1>3, <1>4 DEF TypeOK, TableInv
<1>10. TaskInv'
  BY <1>1, <1>3, <1>6 DEF TaskInv
<1>11. AnswerInv'
  BY <1>1, <1>3, <1>4, <1>6 DEF AnswerInv, TableInv, Preferred
<1>12. /\ prefParentIdx' # NoRow =>
            /\ neighbors'[prefParentIdx'].used
            /\ neighbors'[prefParentIdx'].DAGrank = myDAGrank' - MINHOPRANKINCREASE
       /\ first' /\ prefParentIdx' = NoRow => myDAGrank' = MAXDAGRANK
       /\ ~first' => myDAGrank' # MAXDAGRANK
  <2>1. CASE Candidate
    <3>1. prefParentIdx' = i /\ myDAGrank' = (IF first THEN tentativeDAGrank ELSE myDAGrank)
      BY <2>1 DEF ScanRow, Note
    <3>2. i # NoRow
      BY <1>1 DEF Rows, NoRow
    <3>3. neighbors[i].used /\ neighbors[i].DAGrank \in Int
      BY <2>1, <1>8 DEF Candidate, Row
    <3>4. neighbors[i].DAGrank = myDAGrank' - MINHOPRANKINCREASE
      BY <2>1, <3>1, <3>3 DEF Candidate, BusierParent, tentativeDAGrank, MINHOPRANKINCREASE
    <3>5. ~first => myDAGrank' # MAXDAGRANK
      BY <3>1, <1>1 DEF TableInv, ScanInv
    <3> QED BY <3>1, <3>2, <3>3, <3>4, <3>5, <1>1, <1>3, <1>4
  <2>2. CASE ~Candidate
    <3>1. UNCHANGED <<prefParentIdx, myDAGrank>>
      BY <2>2 DEF ScanRow, Note
    <3>2. prefParentIdx # NoRow => prefParentIdx \in Rows
      BY DEF TableInv, TypeOK
    <3> QED BY <3>1, <3>2, <1>1, <1>3, <1>4 DEF TableInv, ScanInv
  <2> QED BY <2>1, <2>2
<1>13. ScanInv'
  BY <1>7, <1>12, <1>6 DEF ScanInv, Preferred
<1>14. RankInv'
  BY <1>6 DEF RankInv
<1> QED BY <1>5, <1>9, <1>10, <1>11, <1>13, <1>14 DEF TableInv, Shape

LEMMA ChooseStep ==
  ASSUME TableInv, Choose
  PROVE  TableInv'
<1>1. pc = "choose" /\ ~isDAGroot /\ UNCHANGED myDAGrank
  BY DEF Choose, TableInv, TaskInv
<1>2. neighbors \in [Rows -> Row]
  BY DEF TableInv, TypeOK
<1>3. \A r \in Rows : ~neighbors[r].preferred
  BY <1>1 DEF TableInv, ScanInv, Preferred
<1>4. /\ neighbors' \in [Rows -> Row]
      /\ \A r \in Rows : /\ neighbors'[r].used = neighbors[r].used
                         /\ neighbors'[r].shortID = neighbors[r].shortID
                         /\ neighbors'[r].DAGrank = neighbors[r].DAGrank
                         /\ neighbors'[r].preferred => r = prefParentIdx
  <2>1. CASE prefParentIdx # NoRow
    <3>1. prefParentIdx \in Rows
      BY <2>1 DEF TableInv, TypeOK
    <3>2. neighbors' = [neighbors EXCEPT ![prefParentIdx].preferred = TRUE]
      BY <2>1 DEF Choose
    <3> QED BY <3>1, <3>2, <1>2, <1>3 DEF Row
  <2>2. CASE prefParentIdx = NoRow
    BY <2>2, <1>2, <1>3 DEF Choose
  <2> QED BY <2>1, <2>2
<1>5. \A r \in Rows : neighbors'[r].preferred =>
        /\ neighbors[r].used
        /\ neighbors[r].DAGrank = myDAGrank - MINHOPRANKINCREASE
  <2> SUFFICES ASSUME NEW r \in Rows, neighbors'[r].preferred
               PROVE  /\ neighbors[r].used
                      /\ neighbors[r].DAGrank = myDAGrank - MINHOPRANKINCREASE
    OBVIOUS
  <2>1. r = prefParentIdx /\ prefParentIdx # NoRow
    BY <1>4 DEF Rows, NoRow
  <2> QED BY <2>1, <1>1 DEF TableInv, ScanInv
<1>6. Shape'
  BY <1>1, <1>4, <1>5 DEF Shape, TableSound, RowsNamed, TableInv
<1>7. Settle
  BY DEF Choose
<1>8. first' = FALSE /\ i' \in Rows /\ prefParentIdx' = NoRow /\ runningNumRx' \in 0 .. NUMRXS - 1
  BY DEF Choose, Rows
<1>9. TypeOK'
  <2>1. pc' = "idle" /\ src' = NoMote /\ ebrank' = 0
    BY <1>7 DEF Settle
  <2>2. 0 \in 0 .. MAXDAGRANK - 1
    OBVIOUS
  <2>3. parent' \in Motes \cup {NoMote}
    BY <1>6, <1>7, SettleAnswers
  <2>4. myDAGrank' \in 1 .. MAXDAGRANK
    BY <1>1 DEF TableInv, TypeOK
  <2> QED BY <2>1, <2>2, <2>3, <2>4, <1>4, <1>8 DEF TypeOK
<1>10. RankInv'
  BY <1>1, <1>4, <1>5 DEF RankInv, Preferred
<1> QED BY <1>6, <1>7, <1>9, <1>10, SettleAnswers DEF TableInv, Shape

-----------------------------------------------------------------------------
(***************************************************************************)
(* The theorems.                                                           *)
(***************************************************************************)

LEMMA TableInit == Init => TableInv
<1> SUFFICES ASSUME Init PROVE TableInv
  OBVIOUS
<1>1. \A r \in Rows : /\ neighbors[r] \in Row
                      /\ ~neighbors[r].used /\ ~neighbors[r].preferred
  BY DEF Init, Row
<1>2. neighbors \in [Rows -> Row]
  BY <1>1 DEF Init
<1>3. myDAGrank \in 1 .. MAXDAGRANK
  BY DEF Init, MINHOPRANKINCREASE
<1>4. TypeOK
  <2>1. 1 \in Rows /\ 0 \in 0 .. NUMRXS - 1 /\ 0 \in 0 .. MAXDAGRANK - 1
    BY DEF Rows
  <2> QED BY <2>1, <1>2, <1>3 DEF Init, TypeOK
<1>5. TableSound /\ RowsNamed
  BY <1>1 DEF TableSound, RowsNamed
<1>6. TaskInv /\ AnswerInv /\ ScanInv /\ RankInv
  BY <1>1 DEF Init, TaskInv, AnswerInv, ScanInv, RankInv, Preferred
<1> QED BY <1>4, <1>5, <1>6 DEF TableInv

LEMMA TableStep == TableInv /\ [Next]_vars => TableInv'
<1> SUFFICES ASSUME TableInv, [Next]_vars PROVE TableInv'
  OBVIOUS
<1>1. ASSUME NEW m \in Motes, NEW announced \in EbRanks \cup {0}, NEW signal \in Signals,
             indicateRx(m, announced, signal)
      PROVE  TableInv'
  <2>1. pc = "idle" /\ UNCHANGED <<myDAGrank, scanVars>>
    BY <1>1 DEF indicateRx
  <2>2. CASE IndicateKnown(m, announced, signal)
    BY <2>1, <2>2, KnownStep
  <2>3. CASE IndicateNew(m, announced)
    BY <2>1, <2>3, NewStep
  <2>4. CASE IndicateFull(m, announced)
    BY <2>1, <2>4, FullStep
  <2> QED BY <1>1, <2>2, <2>3, <2>4 DEF indicateRx
<1>2. CASE UNCHANGED vars
  BY <1>2 DEF vars, scanVars, TableInv, TypeOK, TableSound, RowsNamed, TaskInv, AnswerInv,
              ScanInv, RankInv, Preferred, IsRowOf
<1> QED BY <1>1, <1>2, PreferStep, StoreStep, ScanStep, ChooseStep DEF Next

LEMMA TableInvariant == Spec => []TableInv
BY TableInit, TableStep, PTL DEF Spec

\* The table of neighbors.c and the locals of the receive task keep their
\* types, the search indexes their bounds and the counters their widths.
THEOREM TypeCorrect == Spec => []TypeOK
<1>1. TableInv => TypeOK
  BY DEF TableInv
<1> QED BY <1>1, TableInvariant, PTL

\* Whatever a mote hears, and at any point of its receive task: one preferred
\* parent at most, none at the DAG root, and one row per neighbour.
THEOREM TableCorrect == Spec => []TableSound
<1>1. TableInv => TableSound
  BY DEF TableInv
<1> QED BY <1>1, TableInvariant, PTL

\* Between two tasks the preferred parent has a rank one less, or has not
\* announced one: the resynchronisation of the motes follows no cycle.
THEOREM ParentsAreBelow == Spec => []ParentBelow
<1>1. TableInv => ParentBelow
  BY DEF TableInv, RankInv, ParentBelow, Preferred
<1> QED BY <1>1, TableInvariant, PTL

\* An interrupt that asks for the preferred parent at any point of the task
\* is told of nobody but the parent, or of the first neighbour, and outside
\* the update it is told of the parent.
THEOREM AnswersCorrect == Spec => []AnswersSettle
<1>1. ASSUME TableInv PROVE AnswersSettle
  <2>1. \A m \in Motes : isPreferredParent(m) => m = parent \/ (parent = NoMote /\ m = src)
    BY <1>1 DEF TableInv, AnswerInv, isPreferredParent, IsRowOf, Preferred
  <2>2. pc \notin {"scan", "choose"} /\ parent # NoMote => isPreferredParent(parent)
    BY <1>1 DEF TableInv, AnswerInv, TableSound, isPreferredParent, IsRowOf, Preferred
  <2> QED BY <2>1, <2>2 DEF AnswersSettle
<1> QED BY <1>1, TableInvariant, PTL

-----------------------------------------------------------------------------
(***************************************************************************)
(* What the loops of the update compute.                                   *)
(***************************************************************************)

High(r) == neighbors[r].DAGrank >= MAXDAGRANK - 1

Passed(r) == pc = "choose" \/ (pc = "scan" /\ r < i)

\* A mote without a rank has heard of none that is of use.
HighRows ==
  pc \in {"idle", "prefer", "rank"} /\ myDAGrank = MAXDAGRANK =>
    \A r \in Rows : neighbors[r].used => High(r)

\* The first rank: only the mote of the EB has one that is of use.
FirstScan ==
  pc \in {"scan", "choose"} /\ first =>
    /\ \A r \in Rows : neighbors[r].used =>
         IF neighbors[r].shortID = src THEN neighbors[r].DAGrank = ebrank ELSE High(r)
    /\ IF prefParentIdx = NoRow
         THEN \A r \in Rows : neighbors[r].used /\ Passed(r) => High(r)
         ELSE neighbors[prefParentIdx].shortID = src

\* Afterwards: the candidate is heard most of the rows passed.
LaterScan ==
  pc \in {"scan", "choose"} /\ ~first =>
    /\ \A r \in Rows : /\ neighbors[r].used /\ Passed(r)
                       /\ neighbors[r].DAGrank = myDAGrank - MINHOPRANKINCREASE
                       => neighbors[r].numRx <= runningNumRx
    /\ IF prefParentIdx = NoRow
         THEN runningNumRx = 0
         ELSE runningNumRx = neighbors[prefParentIdx].numRx /\ runningNumRx > 0

BestInv == HighRows /\ FirstScan /\ LaterScan

LEMMA HeardRanks ==
  ASSUME TableInv, BestInv, NEW m \in Motes, NEW announced \in EbRanks \cup {0},
         NEW signal \in Signals, indicateRx(m, announced, signal)
  PROVE  BestInv'
<1>1. /\ pc = "idle" /\ myDAGrank' = myDAGrank
      /\ pc' \in {"idle", "prefer", "rank"}
  BY DEF indicateRx, IndicateKnown, IndicateNew, IndicateFull, AfterStatistics, Settle
<1>2. neighbors \in [Rows -> Row]
  BY DEF TableInv, TypeOK
<1>3. ASSUME NEW r \in Rows, neighbors'[r].used
      PROVE  \/ neighbors[r].used /\ neighbors'[r].DAGrank = neighbors[r].DAGrank
             \/ neighbors'[r].DAGrank = MAXDAGRANK
  <2>1. CASE IndicateKnown(m, announced, signal)
    <3>1. RowOf(m) \in Rows
      BY <2>1, RowOfKnown DEF IndicateKnown, TableInv
    <3>2. neighbors' = [neighbors EXCEPT ![RowOf(m)] = Heard(@, signal)]
      BY <2>1 DEF IndicateKnown
    <3>3. CASE r = RowOf(m)
      <4>1. neighbors'[r] = Heard(neighbors[r], signal) /\ neighbors[r] \in Row
        BY <1>2, <3>2, <3>3
      <4> QED
        BY <1>3, <4>1, HeardKeeps
    <3>4. CASE r # RowOf(m)
      BY <1>2, <1>3, <3>2, <3>4
    <3> QED BY <3>3, <3>4
  <2>2. CASE IndicateNew(m, announced)
    <3>1. PICK n \in Rows : neighbors' = [neighbors EXCEPT ![n] = NewRow(m)]
      BY <2>2 DEF IndicateNew
    <3> QED BY <1>2, <1>3, <3>1, NewRowTyped
  <2>3. CASE IndicateFull(m, announced)
    BY <1>3, <2>3 DEF IndicateFull
  <2> QED BY <2>1, <2>2, <2>3 DEF indicateRx
<1>4. ASSUME myDAGrank' = MAXDAGRANK, NEW r \in Rows, neighbors'[r].used PROVE High(r)'
  BY <1>1, <1>3, <1>4 DEF BestInv, HighRows, High
<1> QED BY <1>1, <1>4 DEF BestInv, HighRows, FirstScan, LaterScan

LEMMA PreferRanks ==
  ASSUME TableInv, BestInv, Prefer
  PROVE  BestInv'
<1>1. /\ pc = "prefer" /\ myDAGrank' = myDAGrank
      /\ pc' \in {"idle", "prefer", "rank"}
  BY DEF Prefer, AfterStatistics, Settle
<1>2. neighbors \in [Rows -> Row]
  BY DEF TableInv, TypeOK
<1>3. \A r \in Rows : /\ neighbors'[r].used = neighbors[r].used
                      /\ neighbors'[r].DAGrank = neighbors[r].DAGrank
  <2>1. PICK n \in Rows : IsRowOf(src, n)
    BY <1>1 DEF TableInv, TaskInv
  <2>2. RowOf(src) \in Rows
    BY <2>1, RowOfKnown DEF isNeighbor, TableInv
  <2> QED BY <1>2, <2>2 DEF Prefer, Row
<1>4. HighRows'
  BY <1>1, <1>3 DEF BestInv, HighRows, High
<1> QED BY <1>1, <1>4 DEF BestInv, FirstScan, LaterScan

LEMMA StoreRanks ==
  ASSUME TableInv, BestInv, indicateRxEB
  PROVE  BestInv'
<1>1. pc = "rank" /\ src \in Motes /\ neighbors \in [Rows -> Row] /\ ebrank \in EbRanks
  BY DEF indicateRxEB, TableInv, TaskInv, TypeOK
<1>2. CASE isDAGroot
  <2>1. pc' = "idle" /\ myDAGrank' = 1
    BY <1>2 DEF indicateRxEB, Settle, MINHOPRANKINCREASE
  <2> QED BY <2>1 DEF BestInv, HighRows, FirstScan, LaterScan
<1>3. CASE ~isDAGroot
  <2>1. /\ pc' = "scan" /\ i' = 1 /\ prefParentIdx' = NoRow /\ runningNumRx' = 0
        /\ first' = (myDAGrank = MAXDAGRANK)
        /\ UNCHANGED <<src, ebrank, myDAGrank, parent>>
    BY <1>3 DEF indicateRxEB, BeginScan
  <2>2. \A r \in Rows : ~Passed(r)'
    BY <2>1 DEF Passed, Rows
  <2>3. ASSUME NEW r \in Rows
        PROVE  /\ neighbors'[r].used = neighbors[r].used
               /\ neighbors'[r].shortID = neighbors[r].shortID
               /\ neighbors'[r].DAGrank = IF IsRowOf(src, r) THEN ebrank
                                                             ELSE neighbors[r].DAGrank
    <3>1. CASE isNeighbor(src)
      <4>1. RowOf(src) \in Rows /\ IsRowOf(src, RowOf(src))
        BY <3>1, RowOfKnown DEF TableInv
      <4>2. neighbors' = [neighbors EXCEPT ![RowOf(src)].DAGrank = ebrank]
        BY <3>1 DEF indicateRxEB, StoreRank
      <4>3. IsRowOf(src, r) => r = RowOf(src)
        BY <4>1 DEF TableInv, TableSound, IsRowOf
      <4> QED BY <1>1, <4>1, <4>2, <4>3 DEF Row
    <3>2. CASE ~isNeighbor(src)
      <4>1. neighbors' = neighbors
        BY <3>2 DEF indicateRxEB, StoreRank
      <4> QED BY <3>2, <4>1 DEF isNeighbor
    <3> QED BY <3>1, <3>2
  <2>4. ASSUME first', NEW r \in Rows, neighbors'[r].used
        PROVE  IF neighbors'[r].shortID = src THEN neighbors'[r].DAGrank = ebrank
                                              ELSE High(r)'
    <3>1. myDAGrank = MAXDAGRANK /\ neighbors[r].used
      BY <2>1, <2>3, <2>4
    <3>2. High(r)
      BY <1>1, <3>1 DEF BestInv, HighRows
    <3> QED BY <2>3, <3>1, <3>2 DEF High, IsRowOf
  <2> QED BY <2>1, <2>2, <2>4 DEF BestInv, HighRows, FirstScan, LaterScan
<1> QED BY <1>2, <1>3

LEMMA ScanRanks ==
  ASSUME TableInv, BestInv, ScanRow
  PROVE  BestInv'
<1>1. pc = "scan" /\ i \in Rows /\ neighbors \in [Rows -> Row] /\ ebrank \in EbRanks
      /\ prefParentIdx \in Rows \cup {NoRow} /\ runningNumRx \in Nat
      /\ myDAGrank \in Int
  BY DEF ScanRow, TableInv, TaskInv, TypeOK
<1>2. UNCHANGED <<src, ebrank, first>>
  BY DEF ScanRow
<1>3. \A r \in Rows : /\ neighbors'[r].used = neighbors[r].used
                      /\ neighbors'[r].shortID = neighbors[r].shortID
                      /\ neighbors'[r].DAGrank = neighbors[r].DAGrank
                      /\ neighbors'[r].numRx = neighbors[r].numRx
  BY <1>1 DEF ScanRow, Row
<1>4. pc' \in {"scan", "choose"} /\ \A r \in Rows : Passed(r)' => Passed(r) \/ r = i
  BY <1>1 DEF ScanRow, NextRow, Passed, Rows
<1>5. i # NoRow /\ neighbors[i] \in Row
  BY <1>1 DEF Rows, NoRow
<1>6. HighRows'
  BY <1>4 DEF HighRows
<1>7. FirstScan'
  <2> SUFFICES ASSUME first PROVE FirstScan'
    BY <1>2 DEF FirstScan
  <2>1. /\ \A r \in Rows : neighbors[r].used =>
            IF neighbors[r].shortID = src THEN neighbors[r].DAGrank = ebrank ELSE High(r)
        /\ IF prefParentIdx = NoRow
             THEN \A r \in Rows : neighbors[r].used /\ Passed(r) => High(r)
             ELSE neighbors[prefParentIdx].shortID = src
    BY <1>1 DEF BestInv, FirstScan
  <2>2. \A r \in Rows : High(r)' <=> High(r)
    BY <1>3 DEF High
  <2>3. \A r \in Rows : neighbors'[r].used =>
            IF neighbors'[r].shortID = src' THEN neighbors'[r].DAGrank = ebrank' ELSE High(r)'
    BY <1>2, <1>3, <2>1, <2>2
  <2>4. CASE Candidate
    <3>1. prefParentIdx' = i
      BY <2>4 DEF ScanRow, Note
    <3>2. ~High(i) /\ neighbors[i].used
      BY <1>5, <2>4 DEF Candidate, BetterRank, tentativeDAGrank, MINHOPRANKINCREASE, High, Row
    <3>3. neighbors[i].shortID = src
      BY <1>1, <2>1, <3>2
    <3> QED BY <1>1, <1>2, <1>3, <1>5, <2>3, <3>1, <3>3 DEF FirstScan
  <2>5. CASE ~Candidate
    <3>1. prefParentIdx' = prefParentIdx
      BY <2>5 DEF ScanRow, Note
    <3>2. ASSUME prefParentIdx = NoRow, neighbors[i].used PROVE High(i)
      <4>1. myDAGrank = MAXDAGRANK
        BY <1>1, <3>2 DEF TableInv, ScanInv
      <4> QED BY <1>5, <2>5, <3>2, <4>1 DEF Candidate, BetterRank, tentativeDAGrank,
                                        MINHOPRANKINCREASE, High, Row
    <3>3. IF prefParentIdx' = NoRow
            THEN \A r \in Rows : neighbors'[r].used /\ Passed(r)' => High(r)'
            ELSE neighbors'[prefParentIdx'].shortID = src'
      BY <1>1, <1>2, <1>3, <1>4, <2>1, <2>2, <3>1, <3>2
    <3> QED BY <2>3, <3>3 DEF FirstScan
  <2> QED BY <2>4, <2>5
<1>8. LaterScan'
  <2> SUFFICES ASSUME ~first PROVE LaterScan'
    BY <1>2 DEF LaterScan
  <2>1. /\ \A r \in Rows : /\ neighbors[r].used /\ Passed(r)
                           /\ neighbors[r].DAGrank = myDAGrank - MINHOPRANKINCREASE
                           => neighbors[r].numRx <= runningNumRx
        /\ IF prefParentIdx = NoRow
             THEN runningNumRx = 0
             ELSE runningNumRx = neighbors[prefParentIdx].numRx /\ runningNumRx > 0
    BY <1>1 DEF BestInv, LaterScan
  <2>2. myDAGrank' = myDAGrank
    BY DEF ScanRow, Note
  <2>3. \A r \in Rows : neighbors[r].numRx \in Nat
    BY <1>1 DEF Row
  <2>4. CASE Candidate
    <3>1. prefParentIdx' = i /\ runningNumRx' = neighbors[i].numRx
      BY <2>4 DEF ScanRow, Note
    <3>2. neighbors[i].numRx > runningNumRx
      BY <2>4 DEF Candidate, BusierParent
    <3>3. ASSUME NEW r \in Rows, neighbors'[r].used, Passed(r)',
                 neighbors'[r].DAGrank = myDAGrank' - MINHOPRANKINCREASE
          PROVE  neighbors'[r].numRx <= runningNumRx'
      BY <1>1, <1>3, <1>4, <2>1, <2>2, <2>3, <3>1, <3>2, <3>3
    <3> QED BY <1>1, <1>3, <1>5, <2>3, <3>1, <3>2, <3>3 DEF LaterScan
  <2>5. CASE ~Candidate
    <3>1. prefParentIdx' = prefParentIdx /\ runningNumRx' = runningNumRx
      BY <2>5 DEF ScanRow, Note
    <3>2. /\ neighbors[i].used
          /\ neighbors[i].DAGrank = myDAGrank - MINHOPRANKINCREASE
          => neighbors[i].numRx <= runningNumRx
      BY <1>1, <2>3, <2>5 DEF Candidate, BusierParent
    <3>3. ASSUME NEW r \in Rows, neighbors'[r].used, Passed(r)',
                 neighbors'[r].DAGrank = myDAGrank' - MINHOPRANKINCREASE
          PROVE  neighbors'[r].numRx <= runningNumRx'
      BY <1>3, <1>4, <2>1, <2>2, <3>1, <3>2, <3>3
    <3>4. IF prefParentIdx' = NoRow
            THEN runningNumRx' = 0
            ELSE runningNumRx' = neighbors'[prefParentIdx'].numRx /\ runningNumRx' > 0
      BY <1>1, <1>3, <2>1, <3>1
    <3> QED BY <3>3, <3>4 DEF LaterScan
  <2> QED BY <2>4, <2>5
<1> QED BY <1>6, <1>7, <1>8 DEF BestInv

LEMMA ChooseRanks ==
  ASSUME TableInv, BestInv, Choose
  PROVE  BestInv'
<1>1. pc = "choose" /\ pc' = "idle" /\ myDAGrank' = myDAGrank
      /\ neighbors \in [Rows -> Row]
  BY DEF Choose, Settle, TableInv, TypeOK
<1>2. \A r \in Rows : /\ neighbors'[r].used = neighbors[r].used
                      /\ neighbors'[r].DAGrank = neighbors[r].DAGrank
  BY <1>1 DEF Choose, Row
<1>3. ASSUME myDAGrank = MAXDAGRANK, NEW r \in Rows, neighbors[r].used PROVE High(r)
  <2>1. first
    BY <1>1, <1>3 DEF TableInv, ScanInv
  <2>2. CASE prefParentIdx = NoRow
    BY <1>1, <1>3, <2>1, <2>2 DEF BestInv, FirstScan, Passed
  <2>3. CASE prefParentIdx # NoRow
    <3>1. /\ prefParentIdx \in Rows /\ neighbors[prefParentIdx].used
          /\ neighbors[prefParentIdx].DAGrank = MAXDAGRANK - 1
      BY <1>1, <1>3, <2>3 DEF TableInv, TypeOK, ScanInv, MINHOPRANKINCREASE
    <3>2. ebrank = MAXDAGRANK - 1
      BY <1>1, <2>1, <2>3, <3>1 DEF BestInv, FirstScan
    <3> QED BY <1>1, <1>3, <2>1, <3>2 DEF BestInv, FirstScan, High
  <2> QED BY <2>2, <2>3
<1>4. HighRows'
  BY <1>1, <1>2, <1>3 DEF HighRows, High
<1> QED BY <1>1, <1>4 DEF BestInv, FirstScan, LaterScan

LEMMA BestStep == TableInv /\ BestInv /\ [Next]_vars => BestInv'
<1> SUFFICES ASSUME TableInv, BestInv, [Next]_vars PROVE BestInv'
  OBVIOUS
<1>1. CASE UNCHANGED vars
  BY <1>1, Zenon DEF vars, scanVars, BestInv, HighRows, FirstScan, LaterScan, High, Passed
<1> QED BY <1>1, HeardRanks, PreferRanks, StoreRanks, ScanRanks, ChooseRanks DEF Next

\* What the last step of the update makes of them.
LEMMA Chosen ==
  ASSUME TableInv, BestInv, Choose
  PROVE  IF first
           THEN prefParentIdx # NoRow => myDAGrank = ebrank + 1 /\ parent' = src
           ELSE LET above == {r \in Rows : /\ neighbors[r].used
                                           /\ neighbors[r].DAGrank = myDAGrank - 1
                                           /\ neighbors[r].numRx > 0}
                IN IF above = {}
                     THEN parent' = NoMote
                     ELSE \E r \in above : /\ parent' = neighbors[r].shortID
                                           /\ \A s \in above : neighbors[s].numRx <= neighbors[r].numRx
<1>1. pc = "choose" /\ neighbors \in [Rows -> Row] /\ prefParentIdx \in Rows \cup {NoRow}
  BY DEF Choose, TableInv, TypeOK
<1>2. \A r \in Rows : neighbors[r].preferred = FALSE
  BY <1>1 DEF TableInv, ScanInv, Preferred, Row
<1>3. prefParentIdx = NoRow => parent' = NoMote
  <2> SUFFICES ASSUME prefParentIdx = NoRow PROVE parent' = NoMote
    OBVIOUS
  <2>1. neighbors' = neighbors
    BY DEF Choose
  <2>2. ~\E r \in Rows : neighbors'[r].preferred
    BY <1>2, <2>1
  <2> QED BY <2>2 DEF Choose, Settle
<1>4. prefParentIdx # NoRow =>
        /\ prefParentIdx \in Rows
        /\ neighbors[prefParentIdx].used
        /\ neighbors[prefParentIdx].DAGrank = myDAGrank - 1
        /\ parent' = neighbors[prefParentIdx].shortID
  <2> SUFFICES ASSUME prefParentIdx # NoRow
               PROVE  /\ prefParentIdx \in Rows
                      /\ neighbors[prefParentIdx].used
                      /\ neighbors[prefParentIdx].DAGrank = myDAGrank - 1
                      /\ parent' = neighbors[prefParentIdx].shortID
    OBVIOUS
  <2> DEFINE p == prefParentIdx
  <2>1. p \in Rows /\ neighbors[p].used /\ neighbors[p].DAGrank = myDAGrank - 1
    BY <1>1 DEF TableInv, ScanInv, MINHOPRANKINCREASE
  <2>2. neighbors' = [neighbors EXCEPT ![p].preferred = TRUE]
    BY DEF Choose
  <2>3. /\ neighbors'[p].shortID = neighbors[p].shortID
        /\ \A r \in Rows : neighbors'[r].preferred <=> r = p
    BY <1>1, <1>2, <2>1, <2>2 DEF Row
  <2>4. (CHOOSE r \in Rows : neighbors'[r].preferred) = p
    BY <2>1, <2>3
  <2>5. parent' = neighbors'[p].shortID
    BY <2>1, <2>3, <2>4 DEF Choose, Settle
  <2> QED BY <2>1, <2>3, <2>5
<1>5. CASE first
  <2>1. ASSUME prefParentIdx # NoRow PROVE myDAGrank = ebrank + 1 /\ parent' = src
    <3>1. neighbors[prefParentIdx].shortID = src
          /\ neighbors[prefParentIdx].DAGrank = ebrank
      BY <1>1, <1>4, <1>5, <2>1 DEF BestInv, FirstScan
    <3>2. myDAGrank \in Int
      BY DEF TableInv, TypeOK
    <3> QED BY <1>4, <2>1, <3>1, <3>2
  <2> QED BY <1>5, <2>1
<1>6. CASE ~first
  <2> DEFINE above == {r \in Rows : /\ neighbors[r].used
                                    /\ neighbors[r].DAGrank = myDAGrank - 1
                                    /\ neighbors[r].numRx > 0}
  <2>1. \A s \in above : neighbors[s].numRx <= runningNumRx
    BY <1>1, <1>6 DEF BestInv, LaterScan, Passed, MINHOPRANKINCREASE
  <2>2. CASE prefParentIdx = NoRow
    <3>1. runningNumRx = 0
      BY <1>1, <1>6, <2>2 DEF BestInv, LaterScan
    <3>2. above = {}
      BY <1>1, <2>1, <3>1 DEF Row
    <3> QED BY <1>3, <1>6, <2>2, <3>2
  <2>3. CASE prefParentIdx # NoRow
    <3>1. runningNumRx = neighbors[prefParentIdx].numRx /\ runningNumRx > 0
      BY <1>1, <1>6, <2>3 DEF BestInv, LaterScan
    <3>2. prefParentIdx \in above
      BY <1>4, <2>3, <3>1
    <3>3. \A s \in above : neighbors[s].numRx <= neighbors[prefParentIdx].numRx
      BY <2>1, <3>1
    <3>4. \E r \in above : /\ parent' = neighbors[r].shortID
                           /\ \A s \in above : neighbors[s].numRx <= neighbors[r].numRx
      BY <1>4, <2>3, <3>2, <3>3
    <3> QED BY <1>6, <3>2, <3>4
  <2> QED BY <2>2, <2>3
<1> QED BY <1>5, <1>6

\* The loops of neighbors.c, which note one candidate at a time and clear the
\* preference as they go, compute what they are for: the first rank follows
\* the EB just received, and later the parent is the neighbour of rank one
\* less that is heard most.
THEOREM ParentIsBest == Spec => ChoosesParent
<1> DEFINE Best ==
      pc = "choose" =>
       IF first
         THEN prefParentIdx # NoRow => myDAGrank = ebrank + 1 /\ parent' = src
         ELSE LET above == {r \in Rows : /\ neighbors[r].used
                                         /\ neighbors[r].DAGrank = myDAGrank - 1
                                         /\ neighbors[r].numRx > 0}
              IN IF above = {}
                   THEN parent' = NoMote
                   ELSE \E r \in above : /\ parent' = neighbors[r].shortID
                                         /\ \A s \in above : neighbors[s].numRx <= neighbors[r].numRx
<1>1. Init => BestInv
  <2> SUFFICES ASSUME Init PROVE BestInv
    OBVIOUS
  <2>1. pc = "idle" /\ \A r \in Rows : ~neighbors[r].used
    BY DEF Init
  <2> QED BY <2>1 DEF BestInv, HighRows, FirstScan, LaterScan
<1>2. TableInv /\ BestInv /\ [Next]_vars => [Best]_vars
  <2> SUFFICES ASSUME TableInv, BestInv, Next, pc = "choose" PROVE Choose
    BY Chosen
  <2> QED BY DEF Next, indicateRx, Prefer, indicateRxEB, ScanRow
<1>3. ChoosesParent <=> [][Best]_vars
  BY DEF ChoosesParent
<1> QED BY <1>1, <1>2, <1>3, BestStep, TableInvariant, PTL DEF Spec

=============================================================================
