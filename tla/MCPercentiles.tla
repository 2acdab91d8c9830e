---------------------------- MODULE MCPercentiles ----------------------------
(***************************************************************************)
(* The summaries of short lists of values, and of long ones without         *)
(* repetition, against the meaning of a rank.                               *)
(***************************************************************************)
EXTENDS Percentiles, FiniteSets

CONSTANTS MaxValue, MaxLength, MaxCount

ASSUME PercentilesAssumption == {MaxValue, MaxLength, MaxCount} \subseteq Nat

VARIABLE list

\* The numbers 0 to n - 1, not in order.
Mixed(n) == [k \in 1 .. n |-> (k * 7919) % n]

ListInit == list = <<>> \/ \E n \in MaxLength + 1 .. MaxCount : list = Mixed(n)
ListNext == Len(list) < MaxLength /\ \E v \in 0 .. MaxValue : list' = Append(list, v)
ListSpec == ListInit /\ [][ListNext]_list

\* A percentile is the value that has at most so many below it and not fewer up to it.
IsRank(values, percent, value) ==
    LET below == {k \in 1 .. Len(values) : values[k] < value}
        upto == {k \in 1 .. Len(values) : values[k] <= value}
    IN /\ value \in ToSet(values)
       /\ 100 * Cardinality(below) <= percent * (Len(values) - 1)
       /\ percent * (Len(values) - 1) < 100 * Cardinality(upto)

\* percentile_value's sorting and its index find that value, against counting.
RankIsExact ==
    list # <<>> =>
        \A percent \in {50, 95, 99} : IsRank(list, percent, percentile_value(list, percent))
=============================================================================
