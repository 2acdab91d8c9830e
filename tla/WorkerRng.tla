------------------------------ MODULE WorkerRng ------------------------------
(***************************************************************************)
(* The generators the workers draw creatives and prices from: an xorshift    *)
(* with one word of state.  A word is the set of its bits that are 1, an     *)
(* exclusive or the symmetric difference.  Workers share nothing, so they    *)
(* draw in step here: a state of the model is after as many draws of each.   *)
(***************************************************************************)
EXTENDS Integers, FiniteSetsExt

CONSTANTS Workers,
          Width,                              \* bits of a word; 64 in the code
          FirstLeft, Right, SecondLeft        \* the shifts; 13, 7 and 17 in the code

ASSUME WorkerRngAssumption ==
    /\ Width \in Nat \ {0}
    /\ {FirstLeft, Right, SecondLeft} \subseteq 1 .. Width - 1

VARIABLES seeds,     \* what initialize_worker_runtime made of the id, the clock and a constant
          states     \* rng.state of every worker

vars == <<seeds, states>>

Bits == 0 .. Width - 1
ShiftLeft(word, n) == {bit + n : bit \in word} \cap Bits
ShiftRight(word, n) == {bit - n : bit \in word} \cap Bits

\* 0 is no state: all its successors would be 0.
Seed(value) == IF value = {} THEN {0} ELSE value

\* A slip: the first of the three steps shifts the word and does not combine the two.
FirstShiftedOnly(state) ==
    LET first == ShiftLeft(state, FirstLeft)
        second == SymDiff(first, ShiftRight(first, Right))
    IN SymDiff(second, ShiftLeft(second, SecondLeft))

\* A slip: the steps set bits (an or) where they should flip them.
Combined(state) ==
    LET first == state \cup ShiftLeft(state, FirstLeft)
        second == first \cup ShiftRight(first, Right)
    IN second \cup ShiftLeft(second, SecondLeft)

\* The three shifts of next_u64 ...
Mixed(state) ==
    LET first == SymDiff(state, ShiftLeft(state, FirstLeft))
        second == SymDiff(first, ShiftRight(first, Right))
    IN SymDiff(second, ShiftLeft(second, SecondLeft))

\* ... and its test for 0.
next_u64(state) == Seed(Mixed(state))

Init ==
    /\ seeds \in [Workers -> SUBSET Bits]
    /\ states = [w \in Workers |-> Seed(seeds[w])]

Draw ==
    /\ states' = [w \in Workers |-> next_u64(states[w])]
    /\ UNCHANGED seeds

Next == Draw

Spec == Init /\ [][Next]_vars

-----------------------------------------------------------------------------
\* The types of the variables.
TypeOK ==
    /\ seeds \in [Workers -> SUBSET Bits]
    /\ states \in [Workers -> (SUBSET Bits) \ {{}}]

\* The shifts alone never bring a generator to 0, at any draw from any seed: the test for 0
\* in next_u64 replaces nothing, so it cuts no stream short and joins none to that of the
\* seed 0.
ShiftsGiveNoZero == \A w \in Workers : Mixed(states[w]) # {}

\* Two workers draw the same number at the same draw only if they began alike: no two
\* states have the same successor, and the replacement of 0 merges no two streams but
\* those of the seeds 0 and 1.
StreamsNeverMeet ==
    \A v, w \in Workers :
        states[v] = states[w] => seeds[v] = seeds[w] \/ {seeds[v], seeds[w]} = {{}, {0}}
=============================================================================
