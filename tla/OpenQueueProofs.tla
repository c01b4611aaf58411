-------------------------- MODULE OpenQueueProofs ---------------------------
(***************************************************************************)
(* What the searches of openqueue.c return, for a queue of any length.     *)
(***************************************************************************)
EXTENDS OpenQueue, FiniteSetTheorems, TLAPS

(***************************************************************************)
(* A search that has something to find finds it: the least number exists.  *)
(* The sets of smaller members are finite, and the least member is the one *)
(* whose set is minimal for inclusion.                                     *)
(***************************************************************************)
LEMMA LeastExists ==
  ASSUME NEW S \in SUBSET Nat, S # {}
  PROVE  \E b \in S : \A c \in S : b <= c
<1> DEFINE Below(x) == {y \in S : y < x}
           Family == {Below(x) : x \in S}
<1>1. Family \subseteq FiniteSubsetsOf(Nat)
  <2> SUFFICES ASSUME NEW x \in S
               PROVE  Below(x) \in FiniteSubsetsOf(Nat)
    OBVIOUS
  <2>1. IsFiniteSet(0 .. x)
    BY FS_Interval
  <2>2. Below(x) \in SUBSET (0 .. x)
    <3> SUFFICES ASSUME NEW y \in S, y < x
                 PROVE  y \in 0 .. x
      OBVIOUS
    <3> QED OBVIOUS
  <2>3. IsFiniteSet(Below(x))
    BY <2>1, <2>2, FS_Subset
  <2> QED BY <2>2, <2>3 DEF FiniteSubsetsOf
<1>2. IsWellFoundedOn(StrictSubsetOrdering(Nat), FiniteSubsetsOf(Nat))
  BY FS_StrictSubsetOrderingWellFounded
<1>3. Family # {}
  OBVIOUS
<1>4. \E T \in Family : \A U \in Family : <<U, T>> \notin StrictSubsetOrdering(Nat)
  <2> HIDE DEF Family
  <2> QED BY <1>1, <1>2, <1>3, WFMin
<1>5. PICK b \in S : \A U \in Family : <<U, Below(b)>> \notin StrictSubsetOrdering(Nat)
  BY <1>4
<1>6. ASSUME NEW c \in S, c < b
      PROVE  FALSE
  <2>1. Below(c) \in SUBSET Nat /\ Below(b) \in SUBSET Nat
    OBVIOUS
  <2>2. Below(c) \subseteq Below(b)
    <3> SUFFICES ASSUME NEW y \in S, y < c
                 PROVE  y < b
      OBVIOUS
    <3> QED BY <1>6
  <2>3. c \in Below(b) /\ c \notin Below(c)
    BY <1>6
  <2>4. <<Below(c), Below(b)>> \in StrictSubsetOrdering(Nat)
    BY <2>1, <2>2, <2>3 DEF StrictSubsetOrdering
  <2> QED BY <2>4, <1>5
<1> QED BY <1>6

\* First(S) is a member of S when there is one, and Null otherwise.
LEMMA FirstFinds ==
  ASSUME NEW S \in SUBSET Buffers
  PROVE  /\ S = {} => First(S) = Null
         /\ S # {} => First(S) \in S
<1>1. Buffers \subseteq Nat
  BY QueueAssumption DEF Buffers
<1>2. ASSUME S # {} PROVE First(S) \in S
  <2>1. \E b \in S : \A c \in S : b <= c
    BY <1>1, <1>2, LeastExists
  <2> QED BY <2>1, <1>2 DEF First
<1> QED BY <1>2 DEF First

\* A pointer is a buffer or Null, and never both.
LEMMA NullIsNoBuffer == Null \notin Buffers
  BY QueueAssumption DEF Null, Buffers

=============================================================================
