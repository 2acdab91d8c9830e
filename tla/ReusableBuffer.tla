--------------------------- MODULE ReusableBuffer ---------------------------
(***************************************************************************)
(* rtb::engine::ReusableBuffer: a byte array with a read and a write       *)
(* offset, used for what a connection has read and for the reply it owes.  *)
(* Each member function is an operator from the buffer it is called on to  *)
(* the buffer it leaves.                                                   *)
(***************************************************************************)
EXTENDS Framing

NoByte == -1     \* what resize() fills the new bytes with

\* The struct; size is storage.size(), the domain of storage.
IsBuffer(b) ==
    /\ b.size \in Nat
    /\ b.storage \in [0 .. b.size - 1 -> Int]
    /\ b.read_offset \in Nat
    /\ b.write_offset \in Nat
    /\ b.read_offset <= b.write_offset
    /\ b.write_offset <= b.size

Buffer(size, storage, read_offset, write_offset) ==
    [size |-> size, storage |-> storage,
     read_offset |-> read_offset, write_offset |-> write_offset]

EmptyBuffer(capacity) == Buffer(capacity, [k \in 0 .. capacity - 1 |-> NoByte], 0, 0)

ReadableBytes(b) == b.write_offset - b.read_offset
WritableBytes(b) == b.size - b.write_offset

\* The k-th unread byte, k >= 0.
Unread(b, k) == b.storage[b.read_offset + k]

\* A slip: room for the payload and not for its length prefix.
ReservePayloadOnly(b, capacity) ==
    IF b.size < capacity - HeaderSize
    THEN Buffer(capacity, [k \in 0 .. capacity - 1 |-> NoByte], b.read_offset, b.write_offset)
    ELSE b

Reserve(b, capacity) ==
    IF b.size < capacity
    THEN Buffer(capacity,
                [k \in 0 .. capacity - 1 |-> IF k < b.size THEN b.storage[k] ELSE NoByte],
                b.read_offset, b.write_offset)
    ELSE b

\* The storage after a system call or a copy has put the n bytes of a stream from
\* position first on at the write offset.
Filled(b, first, n) ==
    [k \in 0 .. b.size - 1 |->
        IF b.write_offset <= k /\ k < b.write_offset + n
        THEN first + (k - b.write_offset) ELSE b.storage[k]]

\* read() into the writable region, and the commit_write(n) that follows it.
CommitWrite(b, first, n) ==
    Buffer(b.size, Filled(b, first, n), b.read_offset,
           IF b.write_offset + n < b.size THEN b.write_offset + n ELSE b.size)

\* try_extract_frame, given the payload length the first HeaderSize unread bytes
\* decode to.  The comparisons are in the code's order.
ExtractStatus(b, payload_length) ==
    IF ReadableBytes(b) < HeaderSize THEN "kNeedMoreData"
    ELSE IF ~LegalFrame(payload_length) THEN "kInvalidLength"
    ELSE IF ReadableBytes(b) < HeaderSize + payload_length THEN "kNeedMoreData"
    ELSE "kFrameReady"

\* A slip: the offsets are reset with bytes still unread.
ConsumeEverything(b, n) == Buffer(b.size, b.storage, 0, 0)

ConsumeFrame(b, n) ==
    LET r == IF b.read_offset + n < b.write_offset
             THEN b.read_offset + n ELSE b.write_offset
    IN IF r = b.write_offset THEN Buffer(b.size, b.storage, 0, 0)
                             ELSE Buffer(b.size, b.storage, r, b.write_offset)

Compact(b) ==
    IF b.read_offset = 0 THEN b
    ELSE Buffer(b.size,
                [k \in 0 .. b.size - 1 |->
                    IF k < ReadableBytes(b) THEN Unread(b, k) ELSE b.storage[k]],
                0, ReadableBytes(b))
=============================================================================
