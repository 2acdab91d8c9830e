---------------------------- MODULE MCConnection ----------------------------
(***************************************************************************)
(* Scripts for TLC: requests of a few bytes, laid out one after the other.  *)
(***************************************************************************)
EXTENDS Connection, FiniteSetsExt

\* A script from the sizes, verdicts and reply sizes of its requests.
Layout(qs) ==
    LET before(n) == 1 .. n - 1
    IN [n \in 1..Len(qs) |->
          [at         |-> MapThenSumSet(LAMBDA m : HeaderSize + qs[m].size, before(n)),
           size       |-> qs[n].size,
           verdict    |-> qs[n].verdict,
           reply_at   |-> MapThenSumSet(LAMBDA m : HeaderSize + qs[m].reply_size, before(n)),
           reply_size |-> qs[n].reply_size]]

Ask(size, reply_size) == [size |-> size, verdict |-> "reply", reply_size |-> reply_size]
Bad(size) == [size |-> size, verdict |-> "drop", reply_size |-> 1]

\* Three requests a client may pipeline: the first two fit the buffer together, the
\* third fills it alone, and the second's reply makes the write buffer grow.
Pipelined == Layout(<<Ask(1, 1), Ask(1, 5), Ask(4, 1)>>)

\* A first request answered, then one that ends the connection: it does not
\* parse, its length is zero or over the limit, or its reply is too large.
Refused == {Layout(<<Ask(1, 1), q>>) : q \in {Bad(1), Ask(0, 1), Ask(6, 1), Ask(1, 6)}}

\* A request within the frame limit but larger than the read buffer.
TooLong == Layout(<<Ask(1, 1), Ask(5, 1)>>)

MCScripts == {Pipelined, TooLong} \cup Refused
MCTooLong == {TooLong}
MCOne == {Layout(<<Ask(1, 1)>>)}
=============================================================================
