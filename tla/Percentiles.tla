----------------------------- MODULE Percentiles -----------------------------
(***************************************************************************)
(* summarize_phase: the summary of the values one phase of the requests took. *)
(* A percentile is looked up in the sorted values; the product by a double    *)
(* and the cut to an integer give the whole part of the exact quotient, for   *)
(* these percentages and fewer than 2^40 values.                             *)
(***************************************************************************)
EXTENDS Integers, SequencesExt

\* A slip: the percentage of the number of values, not of the last index.
IndexByCount(count, percent) == (percent * count) \div 100

\* The index of a percentile among count > 0 sorted values, from 0.
PercentileIndex(count, percent) == (percent * (count - 1)) \div 100

\* sorted with v before the first value above it.
Insert(sorted, v) ==
    InsertAt(sorted, Min({k \in 1 .. Len(sorted) : sorted[k] > v} \cup {Len(sorted) + 1}), v)

\* The values in ascending order: there is one such list, however std::sort finds it.
SortValues(values) ==
    LET sorted[n \in 0 .. Len(values)] ==
          IF n = 0 THEN <<>> ELSE Insert(sorted[n - 1], values[n])
    IN sorted[Len(values)]

percentile_value(values, percent) ==
    IF values = <<>> THEN 0
    ELSE SortValues(values)[PercentileIndex(Len(values), percent) + 1]

Total(values) ==
    LET total[n \in 0 .. Len(values)] == IF n = 0 THEN 0 ELSE total[n - 1] + values[n]
    IN total[Len(values)]

\* The average is kept as its two parts.
summarize_phase(values) ==
    IF values = <<>>
    THEN [count |-> 0, min_ns |-> 0, max_ns |-> 0, total |-> 0,
          p50_ns |-> 0, p95_ns |-> 0, p99_ns |-> 0]
    ELSE [count  |-> Len(values),
          min_ns |-> Min(ToSet(values)),
          max_ns |-> Max(ToSet(values)),
          total  |-> Total(values),
          p50_ns |-> percentile_value(values, 50),
          p95_ns |-> percentile_value(values, 95),
          p99_ns |-> percentile_value(values, 99)]
=============================================================================
