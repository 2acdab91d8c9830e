--------------------------- MODULE WorkerRngProofs ---------------------------
(***************************************************************************)
(* Proofs about WorkerRng, for words of any width, any shifts and workers.   *)
(***************************************************************************)
EXTENDS WorkerRng, WellFoundedInduction, TLAPS

\* A set of naturals that is not empty has a least element.
LEMMA LeastElement ==
    ASSUME NEW S \in SUBSET Nat, S # {}
    PROVE  \E least \in S : \A n \in S : least <= n
<1>1. PICK least \in S : \A n \in S : ~(<<n, least>> \in OpToRel(<, Nat))
  BY NatLessThanWellFounded, WFMin
<1>2. \A n \in S : ~(n < least)
  BY <1>1 DEF OpToRel
<1> QED
  BY <1>2

-----------------------------------------------------------------------------
(***************************************************************************)
(* Each of the three steps of next_u64 can be undone.                       *)
(***************************************************************************)
\* Two words with the same x ^ (x << n) agree at their lowest bit, and so on upwards.
LEMMA LeftStepInjective ==
    ASSUME NEW x \in SUBSET Bits, NEW y \in SUBSET Bits, NEW n \in Nat \ {0},
           SymDiff(x, ShiftLeft(x, n)) = SymDiff(y, ShiftLeft(y, n))
    PROVE  x = y
<1> SUFFICES ASSUME x # y PROVE FALSE
  OBVIOUS
<1>1. SymDiff(x, y) \in SUBSET Nat /\ SymDiff(x, y) # {} /\ Bits \subseteq Nat
  BY WorkerRngAssumption DEF SymDiff, Bits
<1>2. PICK bit \in SymDiff(x, y) : \A b \in SymDiff(x, y) : bit <= b
  BY <1>1, LeastElement
<1>3. \A b \in Nat : b < bit => (b \in x <=> b \in y)
  BY <1>1, <1>2 DEF SymDiff
<1>4. bit \in ShiftLeft(x, n) <=> bit \in ShiftLeft(y, n)
  BY <1>1, <1>3 DEF ShiftLeft
<1> QED
  BY <1>2, <1>4 DEF SymDiff

\* The same from the highest bit downwards.
LEMMA RightStepInjective ==
    ASSUME NEW x \in SUBSET Bits, NEW y \in SUBSET Bits, NEW n \in Nat \ {0},
           SymDiff(x, ShiftRight(x, n)) = SymDiff(y, ShiftRight(y, n))
    PROVE  x = y
<1> SUFFICES ASSUME x # y PROVE FALSE
  OBVIOUS
<1> DEFINE Below == {Width - 1 - b : b \in SymDiff(x, y)}
<1>1. SymDiff(x, y) \subseteq Bits /\ SymDiff(x, y) # {}
  BY DEF SymDiff
<1>2. Below \in SUBSET Nat /\ Below # {} /\ Bits \subseteq Nat
  <2>1. \A b \in Bits : Width - 1 - b \in Nat
    BY WorkerRngAssumption DEF Bits
  <2> QED
    BY <1>1, <2>1 DEF Bits
<1>3. PICK bit \in SymDiff(x, y) : \A b \in SymDiff(x, y) : Width - 1 - bit <= Width - 1 - b
  <2>1. PICK least \in Below : \A b \in Below : least <= b
    <3> HIDE DEF Below
    <3> QED
      BY <1>2, LeastElement
  <2> QED
    BY <2>1
<1>4. \A b \in Bits : b > bit => b \notin SymDiff(x, y)
  <2>1. \A b \in Bits : b \in Int /\ Width \in Int
    BY WorkerRngAssumption DEF Bits
  <2>2. bit \in Bits
    BY <1>1
  <2> QED
    BY <1>3, <2>1, <2>2
<1>5. \A b \in Nat : b > bit => (b \in x <=> b \in y)
  <2>1. \A b \in Bits : b > bit => (b \in x <=> b \in y)
    BY <1>4 DEF SymDiff
  <2> QED
    BY <2>1
<1>6. bit \in ShiftRight(x, n) <=> bit \in ShiftRight(y, n)
  BY <1>1, <1>2, <1>5 DEF ShiftRight
<1> QED
  BY <1>6 DEF SymDiff

LEMMA StepIsWord ==
    ASSUME NEW x \in SUBSET Bits, NEW n
    PROVE  /\ SymDiff(x, ShiftLeft(x, n)) \in SUBSET Bits
           /\ SymDiff(x, ShiftRight(x, n)) \in SUBSET Bits
  BY DEF SymDiff, ShiftLeft, ShiftRight

LEMMA MixedInjective ==
    ASSUME NEW x \in SUBSET Bits, NEW y \in SUBSET Bits
    PROVE  Mixed(x) \in SUBSET Bits /\ (Mixed(x) = Mixed(y) => x = y)
<1> DEFINE first(s) == SymDiff(s, ShiftLeft(s, FirstLeft))
           second(s) == SymDiff(first(s), ShiftRight(first(s), Right))
<1>1. {FirstLeft, Right, SecondLeft} \subseteq Nat \ {0}
  BY WorkerRngAssumption
<1>2. first(x) \in SUBSET Bits /\ first(y) \in SUBSET Bits
  BY StepIsWord
<1>3. first(x) = first(y) => x = y
  BY <1>1, LeftStepInjective
<1>4. second(x) \in SUBSET Bits /\ second(y) \in SUBSET Bits
  <2> HIDE DEF first
  <2> QED
    BY <1>2, StepIsWord
<1>5. second(x) = second(y) => first(x) = first(y)
  <2> HIDE DEF first
  <2> QED
    BY <1>1, <1>2, RightStepInjective
<1>6. /\ Mixed(x) = SymDiff(second(x), ShiftLeft(second(x), SecondLeft))
      /\ Mixed(y) = SymDiff(second(y), ShiftLeft(second(y), SecondLeft))
  BY DEF Mixed
<1> HIDE DEF second
<1>7. Mixed(x) \in SUBSET Bits
  BY <1>4, <1>6, StepIsWord
<1>8. Mixed(x) = Mixed(y) => second(x) = second(y)
  BY <1>1, <1>4, <1>6, LeftStepInjective
<1> QED
  BY <1>3, <1>5, <1>7, <1>8

\* The shifts bring no state but 0 to 0.
LEMMA MixedIsNotZero ==
    ASSUME NEW x \in SUBSET Bits, x # {}
    PROVE  Mixed(x) # {}
<1>1. Mixed({}) = {}
  BY DEF Mixed, SymDiff, ShiftLeft, ShiftRight
<1>2. {} \in SUBSET Bits
  OBVIOUS
<1> QED
  BY <1>1, <1>2, MixedInjective

\* So the test changes nothing, and no two states have one successor.
LEMMA NextIsInjective ==
    ASSUME NEW x \in SUBSET Bits, NEW y \in SUBSET Bits, x # {}, y # {}
    PROVE  /\ next_u64(x) \in (SUBSET Bits) \ {{}}
           /\ next_u64(x) = next_u64(y) => x = y
<1>1. next_u64(x) = Mixed(x) /\ next_u64(y) = Mixed(y)
  BY MixedIsNotZero DEF next_u64, Seed
<1> QED
  BY <1>1, MixedIsNotZero, MixedInjective

-----------------------------------------------------------------------------
LEMMA RngInitInv == Init => TypeOK /\ StreamsNeverMeet
<1> SUFFICES ASSUME Init PROVE TypeOK /\ StreamsNeverMeet
  OBVIOUS
<1>1. {0} \in SUBSET Bits
  BY WorkerRngAssumption DEF Bits
<1>2. TypeOK
  BY <1>1 DEF Init, TypeOK, Seed
<1>3. StreamsNeverMeet
  BY DEF Init, StreamsNeverMeet, Seed
<1> QED
  BY <1>2, <1>3

LEMMA RngStepInv == TypeOK /\ StreamsNeverMeet /\ [Next]_vars => (TypeOK /\ StreamsNeverMeet)'
<1> SUFFICES ASSUME TypeOK, StreamsNeverMeet, [Next]_vars PROVE TypeOK' /\ StreamsNeverMeet'
  OBVIOUS
<1>1. CASE Draw
  <2>1. seeds' = seeds /\ \A w \in Workers : states'[w] = next_u64(states[w])
    BY <1>1 DEF Draw
  <2>2. \A w \in Workers : states[w] \in SUBSET Bits /\ states[w] # {}
    BY DEF TypeOK
  <2>3. TypeOK'
    <3>1. states' = [w \in Workers |-> next_u64(states[w])]
      BY <1>1 DEF Draw
    <3>2. \A w \in Workers : next_u64(states[w]) \in (SUBSET Bits) \ {{}}
      BY <2>2, NextIsInjective
    <3> QED
      BY <2>1, <3>1, <3>2 DEF TypeOK
  <2>4. ASSUME NEW v \in Workers, NEW w \in Workers, states'[v] = states'[w]
        PROVE  states[v] = states[w]
    BY <2>1, <2>2, <2>4, NextIsInjective
  <2>5. StreamsNeverMeet'
    BY <2>1, <2>4 DEF StreamsNeverMeet
  <2> QED
    BY <2>3, <2>5
<1>2. CASE UNCHANGED vars
  BY <1>2 DEF vars, TypeOK, StreamsNeverMeet
<1> QED
  BY <1>1, <1>2 DEF Next

\* The shifts of next_u64 never bring a generator to 0, whatever its seed and however wide
\* its words: of the two tests for 0 only the seed's is needed.
THEOREM GeneratorsNeverStop == Spec => []ShiftsGiveNoZero
<1>1. TypeOK /\ StreamsNeverMeet /\ [Next]_vars => (TypeOK /\ StreamsNeverMeet)'
  BY RngStepInv
<1>2. TypeOK => ShiftsGiveNoZero
  BY MixedIsNotZero DEF TypeOK, ShiftsGiveNoZero
<1> QED
  BY <1>1, <1>2, RngInitInv, PTL DEF Spec

\* Workers whose generators began apart never draw the same number at the same draw, for 64
\* bits and the code's shifts as for any: each step of next_u64 can be undone.
THEOREM GeneratorsNeverMeet == Spec => []StreamsNeverMeet
<1>1. TypeOK /\ StreamsNeverMeet /\ [Next]_vars => (TypeOK /\ StreamsNeverMeet)'
  BY RngStepInv
<1> QED
  BY <1>1, RngInitInv, PTL DEF Spec
=============================================================================
