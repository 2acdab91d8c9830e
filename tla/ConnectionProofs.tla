-------------------------- MODULE ConnectionProofs --------------------------
(***************************************************************************)
(* Proofs about Connection, for every script, buffer capacity and queue     *)
(* size.  First come the operations of the frame buffer.  Inv is the         *)
(* inductive invariant; then each action preserves it, and the rest of the  *)
(* module draws the consequences.                                          *)
(***************************************************************************)
EXTENDS Connection, TLAPS

-----------------------------------------------------------------------------
(***************************************************************************)
(* What the operations of a ReusableBuffer do to its unread bytes, for      *)
(* every size, content and position of the offsets.                        *)
(***************************************************************************)
\* consume_frame removes exactly the first n unread bytes, also when it empties
\* the buffer and moves both offsets back to 0.
LEMMA ConsumeFrameRemovesPrefix ==
    ASSUME NEW b, IsBuffer(b), NEW n \in Nat, n <= ReadableBytes(b)
    PROVE  LET c == ConsumeFrame(b, n)
           IN /\ IsBuffer(c)
              /\ c.size = b.size
              /\ ReadableBytes(c) = ReadableBytes(b) - n
              /\ \A k \in 0 .. ReadableBytes(c) - 1 : Unread(c, k) = Unread(b, k + n)
<1> DEFINE c == ConsumeFrame(b, n)
<1>1. CASE b.read_offset + n < b.write_offset
  <2>1. c = Buffer(b.size, b.storage, b.read_offset + n, b.write_offset)
    BY <1>1 DEF IsBuffer, ConsumeFrame
  <2>2. /\ c.size = b.size /\ c.storage = b.storage
        /\ c.read_offset = b.read_offset + n /\ c.write_offset = b.write_offset
    BY <2>1 DEF Buffer
  <2> HIDE DEF c
  <2>3. IsBuffer(c)
    BY <1>1, <2>2 DEF IsBuffer
  <2>4. ReadableBytes(c) = ReadableBytes(b) - n
    BY <2>2 DEF IsBuffer, ReadableBytes
  <2>5. ASSUME NEW k \in 0 .. ReadableBytes(c) - 1
        PROVE  Unread(c, k) = Unread(b, k + n)
    <3>1. (b.read_offset + n) + k = b.read_offset + (k + n)
      BY DEF IsBuffer
    <3> QED
      BY <2>2, <3>1 DEF Unread
  <2> QED
    BY <2>2, <2>3, <2>4, <2>5 DEF c
<1>2. CASE b.read_offset + n = b.write_offset
  <2>1. c = Buffer(b.size, b.storage, 0, 0)
    BY <1>2 DEF IsBuffer, ConsumeFrame
  <2>2. c.size = b.size /\ c.storage = b.storage /\ c.read_offset = 0 /\ c.write_offset = 0
    BY <2>1 DEF Buffer
  <2> HIDE DEF c
  <2>3. IsBuffer(c)
    BY <2>2 DEF IsBuffer
  <2>4. ReadableBytes(c) = 0 /\ ReadableBytes(b) - n = 0
    BY <1>2, <2>2 DEF IsBuffer, ReadableBytes
  <2>5. 0 .. ReadableBytes(c) - 1 = {}
    BY <2>4
  <2> QED
    BY <2>2, <2>3, <2>4, <2>5 DEF c
<1>3. b.read_offset + n < b.write_offset \/ b.read_offset + n = b.write_offset
  BY DEF IsBuffer, ReadableBytes
<1> QED
  BY <1>1, <1>2, <1>3

\* compact moves the unread bytes to the front and changes none of them: the move
\* of an overlapping range is right.
LEMMA CompactKeepsUnread ==
    ASSUME NEW b, IsBuffer(b)
    PROVE  /\ IsBuffer(Compact(b))
           /\ Compact(b).size = b.size
           /\ ReadableBytes(Compact(b)) = ReadableBytes(b)
           /\ Compact(b).write_offset = ReadableBytes(b)
           /\ \A k \in 0 .. ReadableBytes(b) - 1 : Unread(Compact(b), k) = Unread(b, k)
<1>1. CASE b.read_offset = 0
  BY <1>1 DEF IsBuffer, Compact, ReadableBytes, Unread
<1>2. CASE b.read_offset # 0
  <2> DEFINE moved == [k \in 0 .. b.size - 1 |->
                          IF k < ReadableBytes(b) THEN Unread(b, k) ELSE b.storage[k]]
  <2>1. /\ ReadableBytes(b) \in Nat
        /\ b.read_offset + ReadableBytes(b) = b.write_offset
        /\ ReadableBytes(b) <= b.size
    BY DEF Buffer, IsBuffer, ReadableBytes
  <2>2. moved \in [0 .. b.size - 1 -> Int]
    <3>1. ASSUME NEW k \in 0 .. b.size - 1, k < ReadableBytes(b)
          PROVE  Unread(b, k) \in Int
      <4>1. b.read_offset + k \in 0 .. b.size - 1
        BY <2>1, <3>1 DEF IsBuffer
      <4> QED
        BY <4>1 DEF IsBuffer, Unread
    <3>2. \A k \in 0 .. b.size - 1 : b.storage[k] \in Int
      BY DEF IsBuffer
    <3> QED
      BY <3>1, <3>2
  <2>3. Compact(b) = Buffer(b.size, moved, 0, ReadableBytes(b))
    BY <1>2 DEF Compact
  <2>4. \A k \in 0 .. ReadableBytes(b) - 1 : moved[k] = Unread(b, k)
    BY <2>1 DEF IsBuffer
  <2> HIDE DEF moved
  <2> QED
    BY <2>1, <2>2, <2>3, <2>4 DEF Buffer, IsBuffer, ReadableBytes, Unread
<1> QED
  BY <1>1, <1>2

\* A read of n bytes and commit_write(n) append n bytes of the stream to the
\* unread bytes.
LEMMA WriteAppends ==
    ASSUME NEW b, IsBuffer(b), NEW first \in Int, NEW n \in Nat, n <= WritableBytes(b)
    PROVE  LET c == CommitWrite(b, first, n)
           IN /\ IsBuffer(c)
              /\ c.size = b.size
              /\ ReadableBytes(c) = ReadableBytes(b) + n
              /\ \A k \in 0 .. ReadableBytes(b) - 1 : Unread(c, k) = Unread(b, k)
              /\ \A k \in ReadableBytes(b) .. ReadableBytes(c) - 1 :
                    Unread(c, k) = first + (k - ReadableBytes(b))
<1> DEFINE filled == Filled(b, first, n)
           c == CommitWrite(b, first, n)
<1>1. filled \in [0 .. b.size - 1 -> Int]
  BY DEF IsBuffer, Filled
<1>2. c = Buffer(b.size, filled, b.read_offset, b.write_offset + n)
  BY DEF IsBuffer, CommitWrite, WritableBytes
<1>3. \A k \in 0 .. b.write_offset - 1 : filled[k] = b.storage[k]
  BY DEF IsBuffer, Filled
<1>4. \A k \in b.write_offset .. b.write_offset + n - 1 :
         filled[k] = first + (k - b.write_offset)
  <2> SUFFICES ASSUME NEW k \in b.write_offset .. b.write_offset + n - 1
               PROVE  filled[k] = first + (k - b.write_offset)
    OBVIOUS
  <2>1. k \in 0 .. b.size - 1 /\ b.write_offset <= k /\ k < b.write_offset + n
    BY DEF IsBuffer, WritableBytes
  <2> QED
    BY <2>1 DEF Filled
<1> HIDE DEF filled, c
<1>5. IsBuffer(c) /\ c.size = b.size /\ ReadableBytes(c) = ReadableBytes(b) + n
  <2>1. /\ c.size = b.size /\ c.storage = filled
        /\ c.read_offset = b.read_offset /\ c.write_offset = b.write_offset + n
    BY <1>2 DEF Buffer
  <2>2. IsBuffer(c)
    BY <1>1, <2>1 DEF IsBuffer, WritableBytes
  <2>3. ReadableBytes(c) = ReadableBytes(b) + n
    BY <2>1 DEF IsBuffer, ReadableBytes
  <2> QED
    BY <2>1, <2>2, <2>3
<1>6. \A k \in 0 .. ReadableBytes(b) - 1 : Unread(c, k) = Unread(b, k)
  BY <1>2, <1>3 DEF Buffer, IsBuffer, ReadableBytes, Unread
<1>7. ASSUME NEW k \in ReadableBytes(b) .. ReadableBytes(c) - 1
      PROVE  Unread(c, k) = first + (k - ReadableBytes(b))
  <2>1. /\ ReadableBytes(b) \in Nat
        /\ b.read_offset \in Nat
        /\ b.write_offset = b.read_offset + ReadableBytes(b)
    BY DEF IsBuffer, ReadableBytes
  <2>2. /\ b.read_offset + k \in b.write_offset .. b.write_offset + n - 1
        /\ (b.read_offset + k) - b.write_offset = k - ReadableBytes(b)
    BY <1>5, <2>1
  <2>3. Unread(c, k) = filled[b.read_offset + k]
    BY <1>2 DEF Buffer, Unread
  <2>4. filled[b.read_offset + k] = first + ((b.read_offset + k) - b.write_offset)
    BY <1>4, <2>2
  <2> QED
    BY <2>2, <2>3, <2>4
<1> QED
  BY <1>5, <1>6, <1>7 DEF c

\* reserve keeps the unread bytes and leaves room for the capacity asked for.
LEMMA ReserveKeepsUnread ==
    ASSUME NEW b, IsBuffer(b), NEW capacity \in Nat
    PROVE  LET c == Reserve(b, capacity)
           IN /\ IsBuffer(c)
              /\ c.size >= capacity
              /\ ReadableBytes(c) = ReadableBytes(b)
              /\ \A k \in 0 .. ReadableBytes(b) - 1 : Unread(c, k) = Unread(b, k)
<1>1. CASE b.size < capacity
  <2> DEFINE grown == [k \in 0 .. capacity - 1 |->
                          IF k < b.size THEN b.storage[k] ELSE NoByte]
  <2>1. grown \in [0 .. capacity - 1 -> Int]
    BY <1>1 DEF IsBuffer, NoByte
  <2>2. \A k \in 0 .. b.size - 1 : grown[k] = b.storage[k]
    BY <1>1 DEF IsBuffer
  <2>3. Reserve(b, capacity) = Buffer(capacity, grown, b.read_offset, b.write_offset)
    BY <1>1 DEF IsBuffer, Reserve
  <2> HIDE DEF grown
  <2> DEFINE c == Reserve(b, capacity)
  <2>4. /\ c.size = capacity /\ c.storage = grown
        /\ c.read_offset = b.read_offset /\ c.write_offset = b.write_offset
    BY <2>3 DEF Buffer
  <2> HIDE DEF c
  <2>5. IsBuffer(c)
    BY <1>1, <2>1, <2>4 DEF IsBuffer
  <2>6. c.size >= capacity /\ ReadableBytes(c) = ReadableBytes(b)
    BY <2>4 DEF ReadableBytes
  <2>7. ASSUME NEW k \in 0 .. ReadableBytes(b) - 1
        PROVE  Unread(c, k) = Unread(b, k)
    <3>1. b.read_offset + k \in 0 .. b.size - 1
      BY DEF IsBuffer, ReadableBytes
    <3> QED
      BY <2>2, <2>4, <3>1 DEF Unread
  <2> QED
    BY <2>5, <2>6, <2>7 DEF c
<1>2. CASE b.size >= capacity
  BY <1>2 DEF IsBuffer, Reserve, ReadableBytes, Unread
<1> QED
  BY <1>1, <1>2 DEF IsBuffer

\* A buffer never has a negative number of unread bytes: the subtraction in
\* readable_bytes does not wrap around.
LEMMA ReadableIsNat ==
    ASSUME NEW b, IsBuffer(b)
    PROVE  ReadableBytes(b) \in Nat
BY DEF IsBuffer, ReadableBytes

\* A new buffer has nothing to read.
LEMMA EmptyBufferIsEmpty ==
    ASSUME NEW capacity \in Nat
    PROVE  /\ IsBuffer(EmptyBuffer(capacity))
           /\ ReadableBytes(EmptyBuffer(capacity)) = 0
           /\ EmptyBuffer(capacity).size = capacity
BY DEF Buffer, IsBuffer, EmptyBuffer, ReadableBytes, NoByte

-----------------------------------------------------------------------------
Inv == /\ TypeOK
       /\ RequestBytesExact
       /\ ReplyBytesExact
       /\ PendingWriteSync
       /\ NoStrandedFrame
       /\ WorkerStateInv

-----------------------------------------------------------------------------
(***************************************************************************)
(* Scripts.                                                                *)
(***************************************************************************)
\* Arithmetic on three numbers, for leaves whose numbers are fields of records.
LEMMA SumIsNat ==
    ASSUME NEW x \in Nat, NEW y \in Nat, NEW z \in Nat
    PROVE  x + y + z \in Nat
OBVIOUS

\* A frame is not before its own start.
LEMMA EndIsAfterStart ==
    ASSUME NEW x \in Nat, NEW y \in Nat \ {0}, NEW z \in Nat
    PROVE  ~(x + y + z <= x) /\ x + y + z # x
OBVIOUS

\* Two frames cannot each start at or after the other's end.
LEMMA FramesOrdered ==
    ASSUME NEW x \in Nat, NEW z \in Nat, NEW u \in Nat, NEW w \in Nat,
           NEW y \in Nat \ {0}, x = u + y + w
    PROVE  ~(x + y + z <= u)
OBVIOUS

\* The boundaries of a script are numbers, and each request starts at the end of
\* the one before it.
LEMMA ScriptShape ==
    ASSUME NEW s, IsScript(s), NEW n \in 0 .. Len(s)
    PROVE  /\ Len(s) \in Nat
           /\ RequestEnd(s, n) \in Nat
           /\ ReplyEnd(s, n) \in Nat
           /\ n < Len(s) => /\ s[n + 1] \in Requests
                            /\ s[n + 1].at = RequestEnd(s, n)
                            /\ s[n + 1].reply_at = ReplyEnd(s, n)
                            /\ RequestEnd(s, n + 1) =
                                 RequestEnd(s, n) + HeaderSize + s[n + 1].size
                            /\ ReplyEnd(s, n + 1) =
                                 ReplyEnd(s, n) + HeaderSize + s[n + 1].reply_size
<1>1. Len(s) \in Nat /\ \A m \in 1 .. Len(s) : s[m] \in Requests
  BY DEF IsScript
<1>2. \A m \in 1 .. Len(s) : /\ s[m].at \in Nat /\ s[m].size \in Nat
                             /\ s[m].reply_at \in Nat /\ s[m].reply_size \in Nat
  BY <1>1 DEF Requests
<1>3. HeaderSize \in Nat
  BY FramingAssumption
<1>4. RequestEnd(s, n) \in Nat /\ ReplyEnd(s, n) \in Nat
  <2>1. CASE n = 0
    BY <2>1 DEF RequestEnd, ReplyEnd
  <2>2. CASE n \in 1 .. Len(s)
    <3>1. /\ s[n].at \in Nat /\ s[n].size \in Nat
          /\ s[n].reply_at \in Nat /\ s[n].reply_size \in Nat
      BY <1>2, <2>2
    <3>2. n # 0
      BY <1>1, <2>2
    <3>3. /\ RequestEnd(s, n) = s[n].at + HeaderSize + s[n].size
          /\ ReplyEnd(s, n) = s[n].reply_at + HeaderSize + s[n].reply_size
      BY <3>2 DEF RequestEnd, ReplyEnd
    <3>4. s[n].at + HeaderSize + s[n].size \in Nat
      BY <1>3, <3>1, SumIsNat, Zenon
    <3>5. s[n].reply_at + HeaderSize + s[n].reply_size \in Nat
      BY <1>3, <3>1, SumIsNat, Zenon
    <3> QED
      BY <3>3, <3>4, <3>5
  <2> QED
    BY <1>1, <2>1, <2>2
<1>5. ASSUME n < Len(s)
      PROVE  /\ s[n + 1].at = RequestEnd(s, n)
             /\ s[n + 1].reply_at = ReplyEnd(s, n)
             /\ RequestEnd(s, n + 1) = RequestEnd(s, n) + HeaderSize + s[n + 1].size
             /\ ReplyEnd(s, n + 1) = ReplyEnd(s, n) + HeaderSize + s[n + 1].reply_size
  <2>1. n + 1 \in 1 .. Len(s) /\ (n + 1) - 1 = n /\ n + 1 # 0
    BY <1>1, <1>5
  <2>2. s[n + 1].at = RequestEnd(s, n) /\ s[n + 1].reply_at = ReplyEnd(s, n)
    BY <2>1 DEF IsScript
  <2> QED
    BY <2>1, <2>2 DEF RequestEnd, ReplyEnd
<1>6. n < Len(s) => s[n + 1] \in Requests
  BY <1>1
<1> QED
  BY <1>1, <1>4, <1>5, <1>6

\* The stream after any number of requests is no longer than the whole stream.
LEMMA RequestEndBounded ==
    ASSUME NEW s, IsScript(s), NEW n \in 0 .. Len(s)
    PROVE  RequestEnd(s, n) <= RequestEnd(s, Len(s))
<1>1. Len(s) \in Nat /\ \A m \in 1 .. Len(s) : s[m] \in Requests
  BY DEF IsScript
<1>2. HeaderSize \in Nat
  BY FramingAssumption
<1>3. CASE n = 0
  BY <1>1, <1>3, ScriptShape DEF RequestEnd
<1>4. CASE n = Len(s)
  BY <1>4, ScriptShape
<1>5. CASE 0 < n /\ n < Len(s)
  <2>1. RequestEnd(s, n) <= s[Len(s)].at
    BY <1>1, <1>5 DEF IsScript
  <2>2. RequestEnd(s, Len(s)) = s[Len(s)].at + HeaderSize + s[Len(s)].size
    BY <1>1, <1>5 DEF RequestEnd
  <2>3. s[Len(s)].at \in Nat /\ s[Len(s)].size \in Nat
    BY <1>1, <1>5 DEF Requests
  <2>4. RequestEnd(s, n) \in Nat
    BY ScriptShape
  <2> QED
    BY <1>2, <2>1, <2>2, <2>3, <2>4
<1> QED
  BY <1>1, <1>3, <1>4, <1>5

\* Only one request starts at the end of the first n.
LEMMA StartIsUnique ==
    ASSUME NEW s, IsScript(s), NEW n \in 0 .. Len(s), NEW i \in 1 .. Len(s),
           s[i].at = RequestEnd(s, n)
    PROVE  i = n + 1
<1>1. Len(s) \in Nat /\ \A m \in 1 .. Len(s) : s[m] \in Requests
  BY DEF IsScript
<1>2. HeaderSize \in Nat \ {0}
  BY FramingAssumption
<1>3. \A m \in 1 .. Len(s) : /\ s[m].at \in Nat
                             /\ s[m].size \in Nat
                             /\ RequestEnd(s, m) = s[m].at + HeaderSize + s[m].size
  BY <1>1 DEF Requests, RequestEnd
<1>4. CASE i = n
  BY <1>2, <1>3, <1>4
<1>5. CASE i < n
  <2>1. n \in 1 .. Len(s) /\ RequestEnd(s, i) <= s[n].at
    BY <1>1, <1>5 DEF IsScript
  <2>2. /\ s[i].at \in Nat /\ s[i].size \in Nat
        /\ s[n].at \in Nat /\ s[n].size \in Nat
    BY <1>3, <2>1
  <2>3. s[i].at = s[n].at + HeaderSize + s[n].size
    BY <1>3, <2>1
  <2>4. s[i].at + HeaderSize + s[i].size <= s[n].at
    BY <1>3, <2>1
  <2> QED
    BY <1>2, <2>2, <2>3, <2>4, FramesOrdered, Zenon
<1>6. CASE i > n + 1
  <2>1. n + 1 \in 1 .. Len(s) /\ s[n + 1].at = RequestEnd(s, n)
    BY <1>1, <1>6, ScriptShape
  <2>2. RequestEnd(s, n + 1) <= s[i].at
    BY <1>1, <1>6, <2>1 DEF IsScript
  <2>3. /\ s[n + 1].at \in Nat /\ s[n + 1].size \in Nat
        /\ RequestEnd(s, n + 1) = s[n + 1].at + HeaderSize + s[n + 1].size
    BY <1>3, <2>1
  <2>4. s[n + 1].at + HeaderSize + s[n + 1].size <= s[n + 1].at
    BY <2>1, <2>2, <2>3
  <2> QED
    BY <1>2, <2>3, <2>4, EndIsAfterStart, Zenon
<1> QED
  BY <1>1, <1>4, <1>5, <1>6

-----------------------------------------------------------------------------
(***************************************************************************)
(* The frame at the head of the read buffer.                               *)
(***************************************************************************)
\* When a length prefix is there, it is the next request's: the bytes read are
\* those after the last request answered, and no other request starts there.
LEMMA HeadIsNextRequest ==
    ASSUME TypeOK, RequestBytesExact, pc \in Served,
           ReadableBytes(read_buffer) >= HeaderSize
    PROVE  /\ handled < Len(script)
           /\ FramedRequests = {handled + 1}
           /\ FramedRequest = handled + 1
           /\ PayloadLength = script[handled + 1].size
<1>1. IsScript(script) /\ HeaderSize \in Nat \ {0}
  BY FramingAssumption DEF TypeOK
<1>2. /\ Len(script) \in Nat
      /\ handled \in 0 .. Len(script)
      /\ RequestEnd(script, handled) \in Nat
      /\ RequestEnd(script, Len(script)) \in Nat
  <2>1. Len(script) \in Nat /\ handled \in 0 .. Len(script)
    BY <1>1 DEF IsScript, TypeOK
  <2>2. Len(script) \in 0 .. Len(script)
    BY <2>1
  <2>3. RequestEnd(script, handled) \in Nat
    BY <1>1, <2>1, ScriptShape
  <2>4. RequestEnd(script, Len(script)) \in Nat
    BY <1>1, <2>2, ScriptShape
  <2> QED
    BY <2>1, <2>3, <2>4
<1>3. ReadableBytes(read_buffer) \in Nat
  BY ReadableIsNat DEF TypeOK
<1>4. handled < Len(script)
  <2>1. /\ RequestEnd(script, handled) + ReadableBytes(read_buffer) = taken
        /\ taken \in 0 .. arrived
        /\ arrived \in 0 .. RequestEnd(script, Len(script))
    BY DEF TypeOK, RequestBytesExact
  <2> QED
    BY <1>1, <1>2, <1>3, <2>1
<1>5. script[handled + 1].at = RequestEnd(script, handled)
  BY <1>1, <1>2, <1>4, ScriptShape
<1>6. \A k \in 0 .. HeaderSize - 1 :
         Unread(read_buffer, k) = RequestEnd(script, handled) + k
  BY <1>1, <1>3 DEF RequestBytesExact
<1>7. handled + 1 \in FramedRequests
  BY <1>1, <1>2, <1>3, <1>4, <1>5, <1>6 DEF FramedRequests
<1>8. ASSUME NEW i \in FramedRequests
      PROVE  i = handled + 1
  <2>1. i \in 1 .. Len(script) /\ Unread(read_buffer, 0) = script[i].at + 0
    BY <1>1, <1>3 DEF FramedRequests
  <2>2. script[i].at \in Nat
    <3>1. script[i] \in Requests
      BY <1>1, <2>1 DEF IsScript
    <3> QED
      BY <3>1 DEF Requests
  <2>3. script[i].at = RequestEnd(script, handled)
    BY <1>1, <1>2, <1>6, <2>1, <2>2
  <2> QED
    BY <1>1, <1>2, <2>1, <2>3, StartIsUnique
<1>9. FramedRequests = {handled + 1}
  BY <1>7, <1>8
<1>10. FramedRequest = handled + 1
  BY <1>9 DEF FramedRequest
<1> QED
  BY <1>4, <1>9, <1>10 DEF PayloadLength

\* The status of the head frame depends only on the unread bytes.
LEMMA FrameStatusKept ==
    ASSUME ReadableBytes(read_buffer) \in Nat,
           ReadableBytes(read_buffer)' = ReadableBytes(read_buffer),
           \A k \in 0 .. ReadableBytes(read_buffer) - 1 :
              Unread(read_buffer', k) = Unread(read_buffer, k),
           script' = script
    PROVE  FrameStatus' = FrameStatus
<1>1. HeaderSize \in Nat
  BY FramingAssumption
<1>2. FramedRequests' = FramedRequests
  <2>1. CASE ReadableBytes(read_buffer) < HeaderSize
    BY <2>1 DEF FramedRequests
  <2>2. CASE ~(ReadableBytes(read_buffer) < HeaderSize)
    <3>1. \A k \in 0 .. HeaderSize - 1 : Unread(read_buffer', k) = Unread(read_buffer, k)
      BY <1>1, <2>2
    <3> QED
      BY <2>2, <3>1 DEF FramedRequests
  <2> QED
    BY <2>1, <2>2
<1>3. FramedRequest' = FramedRequest
  BY <1>2 DEF FramedRequest
<1>4. PayloadLength' = PayloadLength
  BY <1>2, <1>3 DEF PayloadLength
<1> QED
  BY <1>4 DEF FrameStatus, ExtractStatus, ReadableBytes

\* What try_extract_frame says changes only with the read buffer.
LEMMA FrameStatusUnchanged ==
    ASSUME read_buffer' = read_buffer, script' = script
    PROVE  FrameStatus' = FrameStatus
<1>1. FramedRequests' = FramedRequests
  BY DEF FramedRequests, ReadableBytes, Unread
<1>2. PayloadLength' = PayloadLength
  BY <1>1 DEF PayloadLength, FramedRequest
<1> QED
  BY <1>2 DEF FrameStatus, ExtractStatus, ReadableBytes

\* Appending to a sequence of bytes.
LEMMA AppendBytes ==
    ASSUME NEW w \in Seq(Int), NEW n \in Nat, NEW f \in [1 .. n -> Int]
    PROVE  /\ w \o f \in Seq(Int)
           /\ Len(w) \in Nat
           /\ Len(w \o f) = Len(w) + n
           /\ \A j \in 1 .. Len(w) : (w \o f)[j] = w[j]
           /\ \A j \in 1 .. n : (w \o f)[Len(w) + j] = f[j]
<1>1. f \in Seq(Int) /\ Len(f) = n
  OBVIOUS
<1>2. w \o f \in Seq(Int) /\ Len(w) \in Nat /\ Len(w \o f) = Len(w) + n
  BY <1>1
<1>3. \A j \in 1 .. Len(w) : (w \o f)[j] = w[j]
  BY <1>1
<1>4. ASSUME NEW j \in 1 .. n
      PROVE  (w \o f)[Len(w) + j] = f[j]
  BY <1>1, <1>2
<1> QED
  BY <1>2, <1>3, <1>4

-----------------------------------------------------------------------------
(***************************************************************************)
(* Steps that leave the buffers and the streams alone.                     *)
(***************************************************************************)
\* What the parts of the invariant about bytes depend on.
LEMMA BytesUnchanged ==
    ASSUME Inv,
           UNCHANGED <<script, handled, taken, wire, read_buffer, write_buffer>>,
           pc' \in Served => pc \in Served
    PROVE  RequestBytesExact' /\ ReplyBytesExact'
BY DEF Inv, RequestBytesExact, ReplyBytesExact, ReadableBytes, Unread

\* The client, the network and a shutdown request.
LEMMA EnvironmentStep ==
    ASSUME Inv, Environment
    PROVE  Inv'
<1>1. /\ UNCHANGED <<script, kernel, pc, revents, buffers>>
      /\ peer # "open" => peer' # "open"
  BY DEF Environment, ClientSend, ClientReceive, ClientFin, ClientReset,
         RequestShutdown, client, kernel, buffers
<1>2. UNCHANGED <<taken, wire, interest, read_buffer, write_buffer,
                  has_pending_write, handled>>
  BY <1>1 DEF kernel, buffers
<1>3. TypeOK'
  <2>1. /\ peer' \in {"open", "fin", "reset", "fin_reset"}
        /\ shutdown' \in BOOLEAN
    BY DEF Inv, TypeOK, Environment, ClientSend, ClientReceive, ClientFin, ClientReset,
           RequestShutdown, client
  <2>2. Len(wire) \in Nat /\ RequestEnd(script, Len(script)) \in Nat
    <3>1. IsScript(script) /\ wire \in Seq(Int)
      BY FramingAssumption DEF Inv, TypeOK
    <3>2. Len(script) \in 0 .. Len(script)
      BY <3>1 DEF IsScript
    <3>3. Len(wire) \in Nat
      BY <3>1
    <3> QED
      BY <3>1, <3>2, <3>3, ScriptShape
  <2>3. /\ arrived' \in 0 .. RequestEnd(script, Len(script))
        /\ taken \in 0 .. arrived'
        /\ received' \in 0 .. Len(wire)
    <3>1. /\ arrived \in 0 .. RequestEnd(script, Len(script))
          /\ taken \in 0 .. arrived /\ received \in 0 .. Len(wire)
      BY DEF Inv, TypeOK
    <3>2. /\ \/ arrived' = arrived
             \/ arrived < RequestEnd(script, Len(script)) /\ arrived' = arrived + 1
          /\ \/ received' = received
             \/ received < Len(wire) /\ received' = received + 1
      <4>1. CASE ClientSend
        BY <4>1 DEF ClientSend
      <4>2. CASE ClientReceive
        BY <4>2 DEF ClientReceive
      <4>3. CASE ClientFin \/ ClientReset \/ RequestShutdown
        BY <4>3 DEF ClientFin, ClientReset, RequestShutdown, client
      <4> QED
        BY <4>1, <4>2, <4>3 DEF Environment
    <3> QED
      BY <2>2, <3>1, <3>2
  <2> QED
    BY <1>1, <1>2, <2>1, <2>3 DEF Inv, TypeOK, IsBuffer
<1>4. RequestBytesExact' /\ ReplyBytesExact'
  BY <1>1, <1>2, BytesUnchanged
<1>5. FrameStatus' = FrameStatus
  BY <1>1, <1>2, FrameStatusUnchanged
<1>6. PendingWriteSync' /\ NoStrandedFrame'
  BY <1>1, <1>2, <1>5 DEF Inv, PendingWriteSync, NoStrandedFrame, ReadableBytes
<1>7. WorkerStateInv'
  BY <1>1, <1>2, <1>5 DEF Inv, WorkerStateInv, ReadableBytes
<1> QED
  BY <1>3, <1>4, <1>6, <1>7 DEF Inv

\* The end of a connection, for whatever reason.
LEMMA ForgetStep ==
    ASSUME Inv, NEW end \in Stopped, Forget(end), shutdown' = shutdown
    PROVE  Inv'
<1>1. /\ IsBuffer(NoBuffer) /\ pc' = end /\ end \notin Served
      /\ UNCHANGED <<script, peer, arrived, received, taken, wire, handled>>
  BY EmptyBufferIsEmpty DEF NoBuffer, Stopped, Served, Forget, client
<1>2. TypeOK'
  BY <1>1 DEF Inv, TypeOK, Forget
<1>3. RequestBytesExact' /\ ReplyBytesExact'
  BY <1>1 DEF Inv, RequestBytesExact, ReplyBytesExact
<1>4. PendingWriteSync' /\ NoStrandedFrame' /\ WorkerStateInv'
  BY <1>1 DEF PendingWriteSync, NoStrandedFrame, WorkerStateInv, Served, Forget
<1> QED
  BY <1>2, <1>3, <1>4 DEF Inv

\* epoll_wait returns with events for the connection.
LEMMA EpollWaitStep ==
    ASSUME Inv, EpollWait
    PROVE  Inv'
<1>1. /\ UNCHANGED <<script, peer, arrived, received, taken, wire, interest, read_buffer,
                     write_buffer, has_pending_write, handled, shutdown>>
      /\ pc = "epoll_wait" /\ pc' = "dispatch" /\ revents' = Reported
  BY DEF EpollWait, client, kernel, buffers
<1>2. TypeOK'
  BY <1>1 DEF Inv, TypeOK, Reported, Ready, Served, IsBuffer
<1>3. RequestBytesExact' /\ ReplyBytesExact'
  BY <1>1, BytesUnchanged DEF Served
<1>4. PendingWriteSync' /\ NoStrandedFrame'
  BY <1>1 DEF Inv, PendingWriteSync, NoStrandedFrame, ReadableBytes
<1>5. WorkerStateInv'
  BY <1>1 DEF Inv, WorkerStateInv, Served, Reported, Ready
<1> QED
  BY <1>2, <1>3, <1>4, <1>5 DEF Inv

\* A reported event leads to the flush, to the buffered frames or back to sleep.
LEMMA DispatchStep ==
    ASSUME Inv, Dispatch
    PROVE  Inv'
<1>1. /\ UNCHANGED <<script, peer, arrived, received, taken, wire, interest, read_buffer,
                     write_buffer, has_pending_write, handled, shutdown>>
      /\ pc = "dispatch" /\ pc' \in {"process", "flush", "epoll_wait"} /\ revents' = {}
      /\ pc' = "process" <=> ~has_pending_write
  BY DEF Dispatch, client, kernel, buffers
<1>2. TypeOK'
  BY <1>1 DEF Inv, TypeOK, Served, IsBuffer
<1>3. RequestBytesExact' /\ ReplyBytesExact'
  BY <1>1, BytesUnchanged DEF Served
<1>4. PendingWriteSync' /\ NoStrandedFrame'
  BY <1>1 DEF Inv, PendingWriteSync, NoStrandedFrame, ReadableBytes
<1>5. ReadableBytes(write_buffer) \in Nat
  BY ReadableIsNat DEF Inv, TypeOK
<1>6. WorkerStateInv'
  BY <1>1, <1>5 DEF Inv, WorkerStateInv, PendingWriteSync, Served, ReadableBytes
<1> QED
  BY <1>2, <1>3, <1>4, <1>6 DEF Inv

\* No whole frame is buffered: the worker goes on to read().
LEMMA NeedMoreDataStep ==
    ASSUME Inv, NeedMoreData
    PROVE  Inv'
<1>1. /\ UNCHANGED <<script, peer, arrived, received, taken, wire, interest, revents,
                     read_buffer, write_buffer, has_pending_write, handled, shutdown>>
      /\ pc = "process" /\ pc' = "read" /\ FrameStatus = "kNeedMoreData"
  BY DEF NeedMoreData, client, kernel, buffers
<1>2. TypeOK'
  BY <1>1 DEF Inv, TypeOK, Served, IsBuffer
<1>3. RequestBytesExact' /\ ReplyBytesExact'
  BY <1>1, BytesUnchanged DEF Served
<1>4. FrameStatus' = "kNeedMoreData"
  BY <1>1, FrameStatusUnchanged
<1>5. PendingWriteSync' /\ NoStrandedFrame'
  BY <1>1 DEF PendingWriteSync, NoStrandedFrame
<1>6. WorkerStateInv'
  BY <1>1, <1>4 DEF Inv, WorkerStateInv, Served, ReadableBytes
<1> QED
  BY <1>2, <1>3, <1>5, <1>6 DEF Inv

\* A staged reply is registered for EPOLLOUT before the worker sleeps.
LEMMA ArmWriteStep ==
    ASSUME Inv, ArmWrite
    PROVE  Inv'
<1>1. /\ UNCHANGED <<script, peer, arrived, received, taken, wire, revents, read_buffer,
                     write_buffer, has_pending_write, handled, shutdown>>
      /\ pc = "arm" /\ pc' = "epoll_wait"
      /\ interest' = {"EPOLLIN", "EPOLLRDHUP", "EPOLLOUT"}
  BY DEF ArmWrite, UpdateClientEvents, client, buffers
<1>2. TypeOK'
  BY <1>1 DEF Inv, TypeOK, Served, IsBuffer
<1>3. RequestBytesExact' /\ ReplyBytesExact'
  BY <1>1, BytesUnchanged DEF Served
<1>4. PendingWriteSync' /\ NoStrandedFrame'
  BY <1>1 DEF Inv, WorkerStateInv, PendingWriteSync, NoStrandedFrame, ReadableBytes
<1>5. WorkerStateInv'
  BY <1>1 DEF Inv, WorkerStateInv, Served
<1> QED
  BY <1>2, <1>3, <1>4, <1>5 DEF Inv

-----------------------------------------------------------------------------
(***************************************************************************)
(* Writing a reply out.                                                    *)
(***************************************************************************)
\* write() takes n bytes: they leave the write buffer and extend the wire.
LEMMA FlushWriteStep ==
    ASSUME Inv, FlushWrite
    PROVE  Inv'
<1>1. PICK n \in 1 .. ReadableBytes(write_buffer) :
         /\ wire' = wire \o [k \in 1..n |-> Unread(write_buffer, k - 1)]
         /\ write_buffer' = ConsumeFrame(write_buffer, n)
  BY DEF FlushWrite
<1>2. /\ UNCHANGED <<script, peer, arrived, received, taken, interest, pc, revents,
                     read_buffer, has_pending_write, handled, shutdown>>
      /\ pc = "flush" /\ pc \in Served
  BY DEF FlushWrite, client, Served
<1>3. /\ IsBuffer(write_buffer) /\ ReadableBytes(write_buffer) \in Nat
      /\ n \in Nat /\ n <= ReadableBytes(write_buffer)
      /\ wire \in Seq(Int) /\ Len(wire) \in Nat /\ received \in 0 .. Len(wire)
  <2>1. IsBuffer(write_buffer) /\ wire \in Seq(Int) /\ received \in 0 .. Len(wire)
    BY DEF Inv, TypeOK
  <2>2. ReadableBytes(write_buffer) \in Nat
    BY <2>1, ReadableIsNat
  <2> QED
    BY <2>1, <2>2
<1>4. /\ Len(wire) + ReadableBytes(write_buffer) = ReplyEnd(script, handled)
      /\ \A k \in 0 .. ReadableBytes(write_buffer) - 1 :
            Unread(write_buffer, k) = Len(wire) + k
      /\ \A j \in 1 .. Len(wire) : wire[j] = j - 1
  BY <1>2 DEF Inv, ReplyBytesExact
<1>5. /\ wire' \in Seq(Int)
      /\ Len(wire') = Len(wire) + n
      /\ \A j \in 1 .. Len(wire') : wire'[j] = j - 1
  <2> DEFINE f == [k \in 1..n |-> Unread(write_buffer, k - 1)]
  <2>1. \A k \in 1 .. n : f[k] = Len(wire) + (k - 1)
    BY <1>3, <1>4
  <2>2. f \in [1 .. n -> Int]
    BY <1>3, <2>1
  <2>3. wire' = wire \o f
    BY <1>1
  <2> HIDE DEF f
  <2>4. /\ wire' \in Seq(Int)
        /\ Len(wire') = Len(wire) + n
        /\ \A j \in 1 .. Len(wire) : wire'[j] = wire[j]
        /\ \A j \in 1 .. n : wire'[Len(wire) + j] = f[j]
    BY <1>3, <2>2, <2>3, AppendBytes
  <2>5. ASSUME NEW j \in 1 .. Len(wire')
        PROVE  wire'[j] = j - 1
    <3>1. CASE j \in 1 .. Len(wire)
      BY <1>4, <2>4, <3>1
    <3>2. CASE j \in Len(wire) + 1 .. Len(wire) + n
      <4>1. j - Len(wire) \in 1 .. n /\ Len(wire) + (j - Len(wire)) = j
        BY <1>3, <3>2
      <4>2. wire'[j] = Len(wire) + ((j - Len(wire)) - 1)
        BY <2>1, <2>4, <4>1
      <4> QED
        BY <1>3, <3>2, <4>2
    <3> QED
      BY <1>3, <2>4, <3>1, <3>2
  <2> QED
    BY <2>4, <2>5
<1>6. /\ IsBuffer(write_buffer')
      /\ ReadableBytes(write_buffer') = ReadableBytes(write_buffer) - n
      /\ \A k \in 0 .. ReadableBytes(write_buffer') - 1 :
            Unread(write_buffer', k) = Unread(write_buffer, k + n)
  BY <1>1, <1>3, ConsumeFrameRemovesPrefix
<1>7. TypeOK'
  <2>1. IsBuffer(read_buffer)' /\ IsBuffer(write_buffer)'
    BY <1>2, <1>6 DEF Inv, TypeOK, IsBuffer
  <2>2. received' \in 0 .. Len(wire')
    BY <1>2, <1>3, <1>5
  <2> QED
    BY <1>2, <1>5, <2>1, <2>2 DEF Inv, TypeOK
<1>8. RequestBytesExact'
  BY <1>2 DEF Inv, RequestBytesExact, ReadableBytes, Unread
<1>9. ReplyBytesExact'
  <2>1. Len(wire') + ReadableBytes(write_buffer') = ReplyEnd(script, handled)
    BY <1>3, <1>4, <1>5, <1>6
  <2>2. Len(wire') <= ReplyEnd(script, handled)
    BY <1>3, <1>4, <1>5
  <2>3. ASSUME NEW k \in 0 .. ReadableBytes(write_buffer') - 1
        PROVE  Unread(write_buffer', k) = Len(wire') + k
    <3>1. k + n \in 0 .. ReadableBytes(write_buffer) - 1
      BY <1>3, <1>6
    <3>2. Unread(write_buffer', k) = Len(wire) + (k + n)
      BY <1>4, <1>6, <3>1
    <3> QED
      BY <1>3, <1>5, <3>2
  <2> QED
    BY <1>2, <1>5, <2>1, <2>2, <2>3 DEF ReplyBytesExact, ReadableBytes, Unread
<1>10. PendingWriteSync' /\ NoStrandedFrame'
  BY <1>2 DEF PendingWriteSync, NoStrandedFrame
<1>11. WorkerStateInv'
  BY <1>2 DEF Inv, WorkerStateInv
<1> QED
  BY <1>7, <1>8, <1>9, <1>10, <1>11 DEF Inv

\* The rest of a reply waits: the registration follows has_pending_write.
LEMMA FlushBlockedStep ==
    ASSUME Inv, FlushBlocked
    PROVE  Inv'
<1>1. /\ UNCHANGED <<script, peer, arrived, received, taken, wire, revents, read_buffer,
                     write_buffer, handled, shutdown>>
      /\ pc = "flush" /\ pc' = "epoll_wait" /\ has_pending_write' = TRUE
      /\ interest' = {"EPOLLIN", "EPOLLRDHUP", "EPOLLOUT"}
      /\ ReadableBytes(write_buffer) > 0
  BY DEF FlushBlocked, WriteBlocked, UpdateClientEvents, client
<1>2. TypeOK'
  BY <1>1 DEF Inv, TypeOK, Served, IsBuffer
<1>3. RequestBytesExact' /\ ReplyBytesExact'
  BY <1>1, BytesUnchanged DEF Served
<1>4. PendingWriteSync' /\ NoStrandedFrame'
  BY <1>1 DEF PendingWriteSync, NoStrandedFrame, ReadableBytes
<1>5. WorkerStateInv'
  BY <1>1 DEF Inv, WorkerStateInv, Served
<1> QED
  BY <1>2, <1>3, <1>4, <1>5 DEF Inv

\* The reply is out: the connection goes on with nothing pending.
LEMMA FlushDoneStep ==
    ASSUME Inv, FlushDone
    PROVE  Inv'
<1>1. /\ UNCHANGED <<script, peer, arrived, received, taken, wire, revents, read_buffer,
                     write_buffer, handled>>
      /\ pc = "flush" /\ pc' = "process" /\ has_pending_write' = FALSE
      /\ interest' = {"EPOLLIN", "EPOLLRDHUP"}
      /\ ReadableBytes(write_buffer) = 0
      /\ shutdown' \in BOOLEAN
  BY DEF FlushDone, UpdateClientEvents, client
<1>2. TypeOK'
  BY <1>1 DEF Inv, TypeOK, Served, IsBuffer
<1>3. RequestBytesExact' /\ ReplyBytesExact'
  BY <1>1, BytesUnchanged DEF Served
<1>4. PendingWriteSync' /\ NoStrandedFrame'
  BY <1>1 DEF PendingWriteSync, NoStrandedFrame
<1>5. WorkerStateInv'
  BY <1>1 DEF Inv, WorkerStateInv, Served, ReadableBytes
<1> QED
  BY <1>2, <1>3, <1>4, <1>5 DEF Inv

-----------------------------------------------------------------------------
(***************************************************************************)
(* Answering a request.                                                    *)
(***************************************************************************)
\* A staged buffer holds the reply's frame and nothing else.
LEMMA StagedHoldsReply ==
    ASSUME NEW b, IsBuffer(b), NEW first \in Nat, NEW size \in Nat
    PROVE  LET c == Staged(b, first, size)
           IN /\ IsBuffer(c)
              /\ ReadableBytes(c) = HeaderSize + size
              /\ \A k \in 0 .. (HeaderSize + size) - 1 : Unread(c, k) = first + k
<1> DEFINE total == HeaderSize + size
           roomy == Reserve(b, total)
           empty == Buffer(roomy.size, roomy.storage, 0, 0)
           filled == Filled(empty, first, total)
<1>1. total \in Nat
  BY FramingAssumption
<1>2. IsBuffer(roomy) /\ roomy.size >= total
  BY <1>1, ReserveKeepsUnread
<1>3. Staged(b, first, size) = Buffer(roomy.size, filled, 0, total)
  BY DEF Staged, Buffer
<1> HIDE DEF total, roomy
<1>4. filled = [k \in 0 .. roomy.size - 1 |->
                  IF 0 <= k /\ k < 0 + total THEN first + (k - 0) ELSE roomy.storage[k]]
  BY DEF Filled, Buffer
<1>5. filled \in [0 .. roomy.size - 1 -> Int]
  BY <1>1, <1>2, <1>4 DEF IsBuffer
<1>6. \A k \in 0 .. total - 1 : filled[k] = first + k
  BY <1>1, <1>2, <1>4 DEF IsBuffer
<1> HIDE DEF filled
<1>7. IsBuffer(Buffer(roomy.size, filled, 0, total))
  BY <1>1, <1>2, <1>5 DEF IsBuffer, Buffer
<1>8. ReadableBytes(Buffer(roomy.size, filled, 0, total)) = total
  BY <1>1 DEF ReadableBytes, Buffer
<1>9. \A k \in 0 .. total - 1 :
         Unread(Buffer(roomy.size, filled, 0, total), k) = first + k
  BY <1>1, <1>6 DEF Unread, Buffer
<1>10. /\ IsBuffer(Staged(b, first, size))
       /\ ReadableBytes(Staged(b, first, size)) = total
       /\ \A k \in 0 .. total - 1 : Unread(Staged(b, first, size), k) = first + k
  BY <1>3, <1>7, <1>8, <1>9
<1> QED
  BY <1>10 DEF total

\* What is known when a reply is staged: the request answered is the next one, it
\* is answerable, it has arrived whole, and every reply before it is on the wire.
LEMMA StageReplyFacts ==
    ASSUME Inv, StageReply
    PROVE  /\ handled < Len(script)
           /\ FramedRequest = handled + 1
           /\ PayloadLength = script[handled + 1].size
           /\ Answerable(script[handled + 1])
           /\ ReadableBytes(read_buffer) >= HeaderSize + script[handled + 1].size
           /\ RequestEnd(script, handled + 1) <= arrived
           /\ Len(wire) = ReplyEnd(script, handled)
<1>1. pc = "process" /\ pc \in Served /\ FrameStatus = "kFrameReady"
  BY DEF StageReply, Served
<1>2. ReadableBytes(read_buffer) \in Nat /\ HeaderSize \in Nat
  BY FramingAssumption, ReadableIsNat DEF Inv, TypeOK
<1>3. /\ ReadableBytes(read_buffer) >= HeaderSize
      /\ LegalFrame(PayloadLength)
      /\ ~(ReadableBytes(read_buffer) < HeaderSize + PayloadLength)
  BY <1>1, <1>2 DEF FrameStatus, ExtractStatus
<1>4. /\ handled < Len(script)
      /\ FramedRequest = handled + 1
      /\ PayloadLength = script[handled + 1].size
  BY <1>1, <1>3, HeadIsNextRequest DEF Inv
<1>5. Answerable(script[handled + 1])
  BY <1>3, <1>4 DEF StageReply, Accepted, CanStage, Answerable
<1>6. /\ IsScript(script) /\ handled \in 0 .. Len(script)
      /\ taken \in 0 .. arrived /\ arrived \in 0 .. RequestEnd(script, Len(script))
      /\ RequestEnd(script, handled) + ReadableBytes(read_buffer) = taken
  BY <1>1, FramingAssumption DEF Inv, TypeOK, RequestBytesExact
<1>7. /\ Len(script) \in Nat
      /\ RequestEnd(script, handled) \in Nat
      /\ RequestEnd(script, handled + 1) =
           RequestEnd(script, handled) + HeaderSize + script[handled + 1].size
      /\ script[handled + 1].size \in Nat
  BY <1>4, <1>6, ScriptShape DEF Requests
<1>8. /\ ReadableBytes(read_buffer) >= HeaderSize + script[handled + 1].size
      /\ RequestEnd(script, handled + 1) <= taken
  BY <1>2, <1>3, <1>4, <1>6, <1>7
<1>9. arrived \in Nat
  <2>1. Len(script) \in 0 .. Len(script)
    BY <1>7
  <2> QED
    BY <1>6, <2>1, ScriptShape
<1>10. RequestEnd(script, handled + 1) <= arrived
  BY <1>2, <1>6, <1>7, <1>8, <1>9
<1>11. Len(wire) = ReplyEnd(script, handled)
  <2>1. ReadableBytes(write_buffer) = 0
    BY DEF StageReply, CanStage
  <2>2. Len(wire) + 0 = ReplyEnd(script, handled) /\ Len(wire) \in Nat
    BY <1>1, <2>1 DEF Inv, TypeOK, ReplyBytesExact
  <2> QED
    BY <2>2
<1> QED
  BY <1>4, <1>5, <1>8, <1>10, <1>11

\* The reply to the next request fills the write buffer as its request leaves the
\* read buffer.
LEMMA StageReplyStep ==
    ASSUME Inv, StageReply
    PROVE  Inv'
<1> DEFINE q == script[handled + 1]
<1>1. /\ UNCHANGED <<script, peer, arrived, received, taken, wire, interest, revents,
                     shutdown>>
      /\ pc = "process" /\ pc \in Served /\ pc' = "arm"
      /\ has_pending_write' = TRUE /\ handled' = handled + 1
      /\ write_buffer' = Staged(write_buffer, q.reply_at, q.reply_size)
      /\ read_buffer' = ConsumeFrame(read_buffer, HeaderSize + q.size)
  BY StageReplyFacts DEF StageReply, client, kernel, Served
<1>2. /\ IsScript(script) /\ handled \in 0 .. Len(script) /\ handled < Len(script)
      /\ IsBuffer(read_buffer) /\ IsBuffer(write_buffer)
      /\ HeaderSize \in Nat \ {0}
      /\ Len(wire) = ReplyEnd(script, handled)
      /\ HeaderSize + q.size <= ReadableBytes(read_buffer)
  BY StageReplyFacts, FramingAssumption DEF Inv, TypeOK
<1>3. /\ Len(script) \in Nat /\ q \in Requests
      /\ q.reply_at = ReplyEnd(script, handled)
      /\ RequestEnd(script, handled) \in Nat
      /\ ReplyEnd(script, handled) \in Nat
      /\ RequestEnd(script, handled + 1) = RequestEnd(script, handled) + HeaderSize + q.size
      /\ ReplyEnd(script, handled + 1) = ReplyEnd(script, handled) + HeaderSize + q.reply_size
  BY <1>2, ScriptShape
<1>4. q.size \in Nat /\ q.reply_at \in Nat /\ q.reply_size \in Nat
  BY <1>3 DEF Requests
<1> HIDE DEF q
<1>5. /\ IsBuffer(read_buffer')
      /\ read_buffer'.size = read_buffer.size
      /\ ReadableBytes(read_buffer') = ReadableBytes(read_buffer) - (HeaderSize + q.size)
      /\ \A k \in 0 .. ReadableBytes(read_buffer') - 1 :
            Unread(read_buffer', k) = Unread(read_buffer, k + (HeaderSize + q.size))
  <2>1. HeaderSize + q.size \in Nat
    BY <1>2, <1>4
  <2> QED
    BY <1>1, <1>2, <2>1, ConsumeFrameRemovesPrefix
<1>6. /\ IsBuffer(write_buffer')
      /\ ReadableBytes(write_buffer') = HeaderSize + q.reply_size
      /\ \A k \in 0 .. (HeaderSize + q.reply_size) - 1 :
            Unread(write_buffer', k) = q.reply_at + k
  <2> DEFINE first == q.reply_at
             size  == q.reply_size
             c     == Staged(write_buffer, first, size)
  <2> HIDE DEF first, size
  <2>1. /\ IsBuffer(c)
        /\ ReadableBytes(c) = HeaderSize + size
        /\ \A k \in 0 .. (HeaderSize + size) - 1 : Unread(c, k) = first + k
    <3>1. IsBuffer(write_buffer) /\ first \in Nat /\ size \in Nat
      BY <1>2, <1>4 DEF first, size
    <3> QED
      BY <3>1, StagedHoldsReply
  <2> USE DEF first, size
  <2> QED
    BY <1>1, <2>1
<1>7. TypeOK'
  <2>1. IsBuffer(read_buffer)' /\ IsBuffer(write_buffer)'
    BY <1>5, <1>6 DEF IsBuffer
  <2>2. handled' \in 0 .. Len(script)
    BY <1>1, <1>2, <1>3
  <2> QED
    BY <1>1, <2>1, <2>2 DEF Inv, TypeOK, Served
<1>8. RequestBytesExact'
  <2>1. /\ RequestEnd(script, handled) + ReadableBytes(read_buffer) = taken
        /\ \A k \in 0 .. ReadableBytes(read_buffer) - 1 :
              Unread(read_buffer, k) = RequestEnd(script, handled) + k
    BY <1>1 DEF Inv, RequestBytesExact
  <2>2. ReadableBytes(read_buffer) \in Nat
    BY <1>2, ReadableIsNat
  <2>3. RequestEnd(script, handled + 1) + ReadableBytes(read_buffer') = taken
    BY <1>2, <1>3, <1>4, <1>5, <2>1, <2>2
  <2>4. ASSUME NEW k \in 0 .. ReadableBytes(read_buffer') - 1
        PROVE  Unread(read_buffer', k) = RequestEnd(script, handled + 1) + k
    <3>1. k + (HeaderSize + q.size) \in 0 .. ReadableBytes(read_buffer) - 1
      <4>1. k \in 0 .. (ReadableBytes(read_buffer) - (HeaderSize + q.size)) - 1
        BY <1>5
      <4>2. HeaderSize + q.size \in Nat
        BY <1>2, <1>4
      <4> QED
        BY <2>2, <4>1, <4>2
    <3>2. Unread(read_buffer', k) = RequestEnd(script, handled) + (k + (HeaderSize + q.size))
      BY <1>5, <2>1, <3>1
    <3> QED
      BY <1>2, <1>3, <1>4, <3>2
  <2> QED
    BY <1>1, <2>3, <2>4 DEF RequestBytesExact, ReadableBytes, Unread
<1>9. ReplyBytesExact'
  <2>1. \A j \in 1 .. Len(wire) : wire[j] = j - 1
    BY DEF Inv, ReplyBytesExact
  <2>2. /\ Len(wire) + ReadableBytes(write_buffer') = ReplyEnd(script, handled + 1)
        /\ Len(wire) <= ReplyEnd(script, handled + 1)
    BY <1>2, <1>3, <1>4, <1>6
  <2>3. \A k \in 0 .. ReadableBytes(write_buffer') - 1 :
           Unread(write_buffer', k) = Len(wire) + k
    BY <1>2, <1>3, <1>6
  <2> QED
    BY <1>1, <2>1, <2>2, <2>3 DEF ReplyBytesExact, ReadableBytes, Unread
<1>10. PendingWriteSync' /\ NoStrandedFrame'
  BY <1>1 DEF PendingWriteSync, NoStrandedFrame
<1>11. WorkerStateInv'
  <2>1. ReadableBytes(write_buffer)' > 0
    BY <1>2, <1>4, <1>6 DEF ReadableBytes
  <2>2. read_buffer'.size = BufferCapacity
    BY <1>1, <1>5 DEF Inv, WorkerStateInv
  <2> QED
    BY <1>1, <2>1, <2>2 DEF Inv, WorkerStateInv
<1> QED
  BY <1>7, <1>8, <1>9, <1>10, <1>11 DEF Inv

-----------------------------------------------------------------------------
(***************************************************************************)
(* Reading.                                                                *)
(***************************************************************************)
\* The buffer given to read() holds what the read buffer held.
LEMMA RoomKeepsUnread ==
    ASSUME IsBuffer(read_buffer)
    PROVE  /\ IsBuffer(Room)
           /\ Room.size = read_buffer.size
           /\ ReadableBytes(Room) = ReadableBytes(read_buffer)
           /\ \A k \in 0 .. ReadableBytes(read_buffer) - 1 :
                 Unread(Room, k) = Unread(read_buffer, k)
           /\ WritableBytes(Room) = 0 => ReadableBytes(read_buffer) = Room.size
<1>1. CASE WritableBytes(read_buffer) = 0
  <2>1. Room = Compact(read_buffer)
    BY <1>1 DEF Room
  <2>2. WritableBytes(Room) = 0 => ReadableBytes(read_buffer) = Room.size
    BY <2>1, CompactKeepsUnread DEF IsBuffer, WritableBytes
  <2> QED
    BY <2>1, <2>2, CompactKeepsUnread
<1>2. CASE WritableBytes(read_buffer) # 0
  BY <1>2 DEF Room
<1> QED
  BY <1>1, <1>2

\* read() returns n bytes: they follow those already there.
LEMMA ReadDataStep ==
    ASSUME Inv, ReadData
    PROVE  Inv'
<1>1. PICK n \in 1 .. WritableBytes(Room) :
         /\ n <= arrived - taken
         /\ read_buffer' = CommitWrite(Room, taken, n)
         /\ taken' = taken + n
  BY DEF ReadData
<1>2. /\ UNCHANGED <<script, peer, arrived, received, wire, interest, revents,
                     write_buffer, has_pending_write, handled, shutdown>>
      /\ pc = "read" /\ pc \in Served /\ pc' = "process"
  BY DEF ReadData, client, Served
<1>3. IsBuffer(read_buffer) /\ taken \in 0 .. arrived
  BY DEF Inv, TypeOK
<1>4. arrived \in Nat /\ RequestEnd(script, handled) \in Nat
  <2>1. /\ IsScript(script) /\ handled \in 0 .. Len(script)
        /\ arrived \in 0 .. RequestEnd(script, Len(script))
    BY FramingAssumption DEF Inv, TypeOK
  <2>2. Len(script) \in Nat /\ RequestEnd(script, handled) \in Nat
    BY <2>1, ScriptShape
  <2>3. Len(script) \in 0 .. Len(script)
    BY <2>2
  <2>4. RequestEnd(script, Len(script)) \in Nat
    BY <2>1, <2>3, ScriptShape
  <2> QED
    BY <2>1, <2>2, <2>4
<1>5. /\ IsBuffer(Room)
      /\ Room.size = read_buffer.size
      /\ ReadableBytes(Room) = ReadableBytes(read_buffer)
      /\ \A k \in 0 .. ReadableBytes(read_buffer) - 1 :
            Unread(Room, k) = Unread(read_buffer, k)
  BY <1>3, RoomKeepsUnread
<1>6. /\ n \in Nat /\ n <= WritableBytes(Room) /\ taken \in Nat /\ taken + n <= arrived
      /\ ReadableBytes(read_buffer) \in Nat
  <2>1. WritableBytes(Room) \in Nat /\ ReadableBytes(read_buffer) \in Nat
    BY <1>3, <1>5 DEF IsBuffer, WritableBytes, ReadableBytes
  <2> QED
    BY <1>1, <1>3, <1>4, <2>1
<1>7. /\ IsBuffer(read_buffer')
      /\ read_buffer'.size = Room.size
      /\ ReadableBytes(read_buffer') = ReadableBytes(Room) + n
      /\ \A k \in 0 .. ReadableBytes(Room) - 1 : Unread(read_buffer', k) = Unread(Room, k)
      /\ \A k \in ReadableBytes(Room) .. ReadableBytes(read_buffer') - 1 :
            Unread(read_buffer', k) = taken + (k - ReadableBytes(Room))
  BY <1>1, <1>5, <1>6, WriteAppends
<1>8. TypeOK'
  <2>1. IsBuffer(read_buffer)' /\ IsBuffer(write_buffer)'
    BY <1>2, <1>7 DEF Inv, TypeOK, IsBuffer
  <2>2. taken' \in 0 .. arrived
    BY <1>1, <1>4, <1>6
  <2> QED
    BY <1>2, <2>1, <2>2 DEF Inv, TypeOK, Served
<1>9. RequestBytesExact'
  <2>1. /\ RequestEnd(script, handled) + ReadableBytes(read_buffer) = taken
        /\ \A k \in 0 .. ReadableBytes(read_buffer) - 1 :
              Unread(read_buffer, k) = RequestEnd(script, handled) + k
    BY <1>2 DEF Inv, RequestBytesExact
  <2>2. RequestEnd(script, handled) + ReadableBytes(read_buffer') = taken'
    BY <1>1, <1>4, <1>5, <1>6, <1>7, <2>1
  <2>3. ASSUME NEW k \in 0 .. ReadableBytes(read_buffer') - 1
        PROVE  Unread(read_buffer', k) = RequestEnd(script, handled) + k
    <3>1. CASE k \in 0 .. ReadableBytes(read_buffer) - 1
      BY <1>5, <1>7, <2>1, <3>1
    <3>2. CASE k \in ReadableBytes(read_buffer) .. ReadableBytes(read_buffer') - 1
      <4>1. Unread(read_buffer', k) = taken + (k - ReadableBytes(read_buffer))
        BY <1>5, <1>7, <3>2
      <4> QED
        BY <1>4, <1>6, <2>1, <4>1
    <3> QED
      BY <1>5, <1>6, <1>7, <3>1, <3>2
  <2> QED
    BY <1>2, <2>2, <2>3 DEF RequestBytesExact, ReadableBytes, Unread
<1>10. ReplyBytesExact'
  BY <1>2 DEF Inv, ReplyBytesExact, ReadableBytes, Unread
<1>11. PendingWriteSync' /\ NoStrandedFrame'
  BY <1>2 DEF PendingWriteSync, NoStrandedFrame
<1>12. WorkerStateInv'
  <2>1. read_buffer'.size = BufferCapacity
    BY <1>2, <1>5, <1>7 DEF Inv, WorkerStateInv
  <2> QED
    BY <1>2, <2>1 DEF Inv, WorkerStateInv, ReadableBytes
<1> QED
  BY <1>8, <1>9, <1>10, <1>11, <1>12 DEF Inv

\* Nothing to read: the worker sleeps with no frame to act on.
LEMMA ReadWouldBlockStep ==
    ASSUME Inv, ReadWouldBlock
    PROVE  Inv'
<1>1. /\ UNCHANGED <<script, peer, arrived, received, taken, wire, interest, revents,
                     write_buffer, has_pending_write, handled, shutdown>>
      /\ pc = "read" /\ pc \in Served /\ pc' = "epoll_wait" /\ read_buffer' = Room
  BY DEF ReadWouldBlock, client, kernel, Served
<1>2. IsBuffer(read_buffer) /\ ReadableBytes(read_buffer) \in Nat
  <2>1. IsBuffer(read_buffer)
    BY DEF Inv, TypeOK
  <2> QED
    BY <2>1, ReadableIsNat
<1>3. /\ IsBuffer(read_buffer')
      /\ read_buffer'.size = read_buffer.size
      /\ ReadableBytes(read_buffer') = ReadableBytes(read_buffer)
      /\ \A k \in 0 .. ReadableBytes(read_buffer) - 1 :
            Unread(read_buffer', k) = Unread(read_buffer, k)
  BY <1>1, <1>2, RoomKeepsUnread
<1>4. TypeOK'
  <2>1. IsBuffer(read_buffer)' /\ IsBuffer(write_buffer)'
    BY <1>1, <1>3 DEF Inv, TypeOK, IsBuffer
  <2> QED
    BY <1>1, <2>1 DEF Inv, TypeOK, Served
<1>5. RequestBytesExact' /\ ReplyBytesExact'
  <2>1. RequestBytesExact'
    BY <1>1, <1>3 DEF Inv, RequestBytesExact, ReadableBytes, Unread
  <2>2. ReplyBytesExact'
    BY <1>1 DEF Inv, ReplyBytesExact, ReadableBytes, Unread
  <2> QED
    BY <2>1, <2>2
<1>6. FrameStatus' = "kNeedMoreData"
  <2>1. FrameStatus' = FrameStatus
    BY <1>1, <1>2, <1>3, FrameStatusKept DEF ReadableBytes
  <2> QED
    BY <1>1, <2>1 DEF Inv, WorkerStateInv
<1>7. PendingWriteSync' /\ NoStrandedFrame'
  <2>1. ~has_pending_write /\ ReadableBytes(write_buffer) = 0 /\ "EPOLLOUT" \notin interest
    BY <1>1 DEF Inv, WorkerStateInv
  <2> QED
    BY <1>1, <1>6, <2>1 DEF PendingWriteSync, NoStrandedFrame, ReadableBytes
<1>8. WorkerStateInv'
  BY <1>1, <1>3 DEF Inv, WorkerStateInv
<1> QED
  BY <1>4, <1>5, <1>7, <1>8 DEF Inv

-----------------------------------------------------------------------------
(***************************************************************************)
(* The invariant.                                                          *)
(***************************************************************************)
\* A connection accept4 has just returned satisfies the invariant.
LEMMA InitInv ==
    ASSUME Init
    PROVE  Inv
<1>1. BufferCapacity \in Nat
  BY ConnectionAssumption
<1>2. /\ IsBuffer(read_buffer) /\ ReadableBytes(read_buffer) = 0
      /\ IsBuffer(write_buffer) /\ ReadableBytes(write_buffer) = 0
      /\ read_buffer.size = BufferCapacity
  BY <1>1, EmptyBufferIsEmpty DEF Init
<1>3. /\ RequestEnd(script, 0) = 0 /\ ReplyEnd(script, 0) = 0
      /\ Len(wire) = 0 /\ wire \in Seq(Int)
  BY DEF Init, RequestEnd, ReplyEnd
<1>4. Len(script) \in Nat /\ RequestEnd(script, Len(script)) \in Nat
  <2>1. IsScript(script)
    BY FramingAssumption DEF Init
  <2>2. Len(script) \in 0 .. Len(script)
    BY <2>1 DEF IsScript
  <2> QED
    BY <2>1, <2>2, ScriptShape
<1>5. TypeOK
  <2>1. /\ script \in Scripts /\ arrived = 0 /\ taken = 0 /\ received = 0 /\ handled = 0
        /\ peer = "open" /\ pc = "epoll_wait" /\ revents = {} /\ shutdown = FALSE
        /\ interest = {"EPOLLIN", "EPOLLRDHUP"} /\ has_pending_write = FALSE
    BY DEF Init
  <2>2. /\ arrived \in 0 .. RequestEnd(script, Len(script))
        /\ taken \in 0 .. arrived
        /\ handled \in 0 .. Len(script)
    BY <1>4, <2>1
  <2>3. received \in 0 .. Len(wire)
    BY <1>3, <2>1
  <2>4. pc \in Served \cup Stopped
    BY <2>1 DEF Served
  <2> QED
    BY <1>2, <1>3, <2>1, <2>2, <2>3, <2>4 DEF TypeOK
<1>6. RequestBytesExact /\ ReplyBytesExact
  BY <1>2, <1>3 DEF Init, RequestBytesExact, ReplyBytesExact
<1>7. FrameStatus = "kNeedMoreData"
  BY <1>2, FramingAssumption DEF FrameStatus, ExtractStatus
<1>8. PendingWriteSync /\ NoStrandedFrame /\ WorkerStateInv
  BY <1>2, <1>7 DEF Init, PendingWriteSync, NoStrandedFrame, WorkerStateInv
<1> QED
  BY <1>5, <1>6, <1>8 DEF Inv

\* The worker's steps that end the connection.
Ending == ShutdownSeen \/ DispatchHangup \/ FlushFails \/ UpdateFails \/ RejectFrame
          \/ ReadEnds \/ BufferFull

\* Each of them closes the fd and forgets the connection and its buffers.
LEMMA EndingForgets ==
    ASSUME Ending
    PROVE  \E end \in Stopped : Forget(end) /\ shutdown' = shutdown
BY DEF Ending, ShutdownSeen, DispatchHangup, FlushFails, UpdateFails, RejectFrame,
       ReadEnds, BufferFull, CloseConnection, Stopped

\* Every step of the client, the network or the worker keeps the invariant.
LEMMA NextInv ==
    ASSUME Inv, [Next]_vars
    PROVE  Inv'
<1>1. CASE Environment
  BY <1>1, EnvironmentStep
<1>2. CASE Ending
  BY <1>2, EndingForgets, ForgetStep
<1>3. CASE EpollWait
  BY <1>3, EpollWaitStep
<1>4. CASE Dispatch
  BY <1>4, DispatchStep
<1>5. CASE FlushWrite
  BY <1>5, FlushWriteStep
<1>6. CASE FlushBlocked
  BY <1>6, FlushBlockedStep
<1>7. CASE FlushDone
  BY <1>7, FlushDoneStep
<1>8. CASE NeedMoreData
  BY <1>8, NeedMoreDataStep
<1>9. CASE StageReply
  BY <1>9, StageReplyStep
<1>10. CASE ArmWrite
  BY <1>10, ArmWriteStep
<1>11. CASE ReadData
  BY <1>11, ReadDataStep
<1>12. CASE ReadWouldBlock
  BY <1>12, ReadWouldBlockStep
<1>13. CASE UNCHANGED vars
  <2>1. UNCHANGED <<script, peer, arrived, received, taken, wire, interest, pc, revents,
                    read_buffer, write_buffer, has_pending_write, handled, shutdown>>
    BY <1>13 DEF vars, client, kernel, buffers
  <2>2. FrameStatus' = FrameStatus
    BY <2>1, FrameStatusUnchanged
  <2>3. TypeOK'
    BY <2>1 DEF Inv, TypeOK, IsBuffer
  <2>4. RequestBytesExact' /\ ReplyBytesExact'
    BY <2>1, BytesUnchanged
  <2>5. PendingWriteSync' /\ NoStrandedFrame' /\ WorkerStateInv'
    BY <2>1, <2>2 DEF Inv, PendingWriteSync, NoStrandedFrame, WorkerStateInv, ReadableBytes
  <2> QED
    BY <2>3, <2>4, <2>5 DEF Inv
<1> QED
  BY <1>1, <1>2, <1>3, <1>4, <1>5, <1>6, <1>7, <1>8, <1>9, <1>10, <1>11, <1>12, <1>13
     DEF Next, Worker, Ending

\* Inv is an inductive invariant of Connection.
THEOREM ConnectionInvariant == Spec => []Inv
<1>1. Init => Inv
  BY InitInv
<1>2. Inv /\ [Next]_vars => Inv'
  BY NextInv
<1> QED
  BY <1>1, <1>2, PTL DEF Spec

\* The types of the connection's state (ConnectionState and its buffers).
THEOREM TypeCorrect == Spec => []TypeOK
<1>1. Inv => TypeOK
  BY DEF Inv
<1> QED
  BY <1>1, ConnectionInvariant, PTL

\* The read side of worker_runtime.cc and frame.cc: no byte of the request stream is
\* lost, repeated or moved between read() and the parser.
THEOREM RequestsReadExactly == Spec => []RequestBytesExact
<1>1. Inv => RequestBytesExact
  BY DEF Inv
<1> QED
  BY <1>1, ConnectionInvariant, PTL

\* The write side of worker_runtime.cc and response_framing.cc: the wire carries the
\* replies to the requests handled and nothing else, byte for byte.
THEOREM RepliesWrittenExactly == Spec => []ReplyBytesExact
<1>1. Inv => ReplyBytesExact
  BY DEF Inv
<1> QED
  BY <1>1, ConnectionInvariant, PTL

\* has_pending_write, the write buffer and the epoll registration agree whenever the
\* worker turns to another event (flush_pending_write, process_ready_frames).
THEOREM PendingWriteAgrees == Spec => []PendingWriteSync
<1>1. Inv => PendingWriteSync
  BY DEF Inv
<1> QED
  BY <1>1, ConnectionInvariant, PTL

\* run_worker_loop processes buffered frames before it reads: it never sleeps on one.
THEOREM FramesAreNotStranded == Spec => []NoStrandedFrame
<1>1. Inv => NoStrandedFrame
  BY DEF Inv
<1> QED
  BY <1>1, ConnectionInvariant, PTL

\* At each point of run_worker_loop's handler, what the code there relies on holds:
\* read() is reached only with no reply pending and no frame left to act on.
THEOREM WorkerStatesConsistent == Spec => []WorkerStateInv
<1>1. Inv => WorkerStateInv
  BY DEF Inv
<1> QED
  BY <1>1, ConnectionInvariant, PTL

-----------------------------------------------------------------------------
(***************************************************************************)
(* Why a connection ends.                                                  *)
(***************************************************************************)
\* A frame is refused only when the next request is not answerable.
LEMMA RejectedIsUnanswerable ==
    ASSUME Inv, RejectFrame
    PROVE  ~NextAnswerable
<1>1. pc \in Served /\ ReadableBytes(write_buffer) = 0
  BY DEF Inv, RejectFrame, WorkerStateInv, Served
<1>2. ReadableBytes(read_buffer) \in Nat /\ HeaderSize \in Nat
  BY FramingAssumption, ReadableIsNat DEF Inv, TypeOK
<1>3. ReadableBytes(read_buffer) >= HeaderSize
  BY <1>2 DEF RejectFrame, FrameStatus, ExtractStatus
<1>4. /\ handled < Len(script)
      /\ FramedRequest = handled + 1
      /\ PayloadLength = script[handled + 1].size
  BY <1>1, <1>3, HeadIsNextRequest DEF Inv
<1>5. CASE FrameStatus = "kInvalidLength"
  <2>1. ~LegalFrame(PayloadLength)
    BY <1>5 DEF FrameStatus, ExtractStatus
  <2> QED
    BY <1>4, <2>1 DEF NextAnswerable, Answerable
<1>6. CASE /\ FrameStatus = "kFrameReady"
           /\ ~(Accepted /\ CanStage(script[FramedRequest].reply_size, write_buffer))
  <2>1. ReadableBytes(read_buffer) >= HeaderSize + PayloadLength
    <3>1. /\ script[handled + 1] \in Requests
          /\ ~(ReadableBytes(read_buffer) < HeaderSize + PayloadLength)
      BY <1>4, <1>6, ScriptShape, FramingAssumption
         DEF Inv, TypeOK, FrameStatus, ExtractStatus
    <3>2. PayloadLength \in Nat
      BY <1>4, <3>1 DEF Requests
    <3> QED
      BY <1>2, <3>1, <3>2
  <2>2. script[FramedRequest].at = RequestEnd(script, handled)
    BY <1>4, ScriptShape, FramingAssumption DEF Inv, TypeOK
  <2>3. PayloadLength \in Nat /\ RequestEnd(script, handled) \in Nat
    BY <1>4, ScriptShape, FramingAssumption DEF Inv, TypeOK, Requests
  <2>4. ASSUME NEW k \in 0 .. PayloadLength - 1
        PROVE  Unread(read_buffer, HeaderSize + k) = script[FramedRequest].at + HeaderSize + k
    <3>1. HeaderSize + k \in 0 .. ReadableBytes(read_buffer) - 1
      BY <1>2, <2>1, <2>3
    <3>2. Unread(read_buffer, HeaderSize + k) = RequestEnd(script, handled) + (HeaderSize + k)
      BY <1>1, <3>1 DEF Inv, RequestBytesExact
    <3> QED
      BY <1>2, <2>2, <2>3, <3>2
  <2>5. \/ script[FramedRequest].verdict # "reply"
        \/ ~LegalReply(script[FramedRequest].reply_size)
    BY <1>1, <1>6, <2>4 DEF Accepted, CanStage
  <2> QED
    BY <1>4, <2>5 DEF NextAnswerable, Answerable
<1> QED
  BY <1>5, <1>6 DEF RejectFrame

\* The read buffer fills up only with the start of a request that cannot fit it.
LEMMA FullBufferCannotFit ==
    ASSUME Inv, BufferFull
    PROVE  ~NextFits
<1>1. /\ pc = "read" /\ pc \in Served /\ FrameStatus = "kNeedMoreData"
      /\ read_buffer.size = BufferCapacity
  BY DEF Inv, BufferFull, WorkerStateInv, Served
<1>2. IsBuffer(read_buffer) /\ IsScript(script) /\ handled \in 0 .. Len(script)
  BY FramingAssumption DEF Inv, TypeOK
<1>3. ReadableBytes(read_buffer) = BufferCapacity
  BY <1>1, <1>2, RoomKeepsUnread DEF BufferFull
<1>4. HeaderSize \in Nat \ {0} /\ BufferCapacity \in Nat \ {0}
  BY FramingAssumption, ConnectionAssumption
<1>5. handled < Len(script)
  <2>1. /\ RequestEnd(script, handled) + BufferCapacity = taken
        /\ taken \in 0 .. arrived
        /\ arrived \in 0 .. RequestEnd(script, Len(script))
    BY <1>1, <1>3 DEF Inv, TypeOK, RequestBytesExact
  <2>2. Len(script) \in Nat /\ RequestEnd(script, handled) \in Nat
    BY <1>2, ScriptShape
  <2>3. Len(script) \in 0 .. Len(script)
    BY <2>2
  <2>4. RequestEnd(script, Len(script)) \in Nat
    BY <1>2, <2>3, ScriptShape
  <2> QED
    BY <1>2, <1>4, <2>1, <2>2, <2>4
<1>6. script[handled + 1].size \in Nat
  BY <1>2, <1>5, ScriptShape DEF Requests
<1>7. CASE BufferCapacity < HeaderSize
  BY <1>4, <1>5, <1>6, <1>7 DEF NextFits
<1>8. CASE BufferCapacity >= HeaderSize
  <2>1. PayloadLength = script[handled + 1].size
    BY <1>1, <1>3, <1>8, HeadIsNextRequest DEF Inv
  <2>2. BufferCapacity < HeaderSize + script[handled + 1].size
    BY <1>1, <1>3, <1>4, <1>8, <2>1 DEF FrameStatus, ExtractStatus
  <2> QED
    BY <1>4, <1>5, <1>6, <2>2 DEF NextFits
<1> QED
  BY <1>4, <1>7, <1>8

\* A connection is never closed for the way its requests were cut into reads or
\* pipelined, nor one whose requests fit the buffer for a full buffer.
THEOREM ClosedOnlyForCause == Spec => ClosesOnlyForCause
<1> DEFINE Cause == pc' = "closed" /\ pc # "closed" =>
                      peer # "open" \/ ~NextAnswerable \/ ~NextFits \/ UpdateFails
<1>1. ASSUME Inv, [Next]_vars
      PROVE  [Cause]_vars
  <2> SUFFICES ASSUME pc' = "closed", pc # "closed"
               PROVE  peer # "open" \/ ~NextAnswerable \/ ~NextFits \/ UpdateFails
    OBVIOUS
  <2>1. CASE Environment \/ UNCHANGED vars
    BY <2>1 DEF Environment, ClientSend, ClientReceive, ClientFin, ClientReset,
                RequestShutdown, vars
  <2>2. CASE DispatchHangup
    BY <1>1, <2>2 DEF Inv, WorkerStateInv, DispatchHangup
  <2>3. CASE FlushFails \/ ReadEnds
    BY <2>3 DEF FlushFails, ReadEnds, Forget
  <2>4. CASE RejectFrame
    BY <1>1, <2>4, RejectedIsUnanswerable
  <2>5. CASE BufferFull
    BY <1>1, <2>5, FullBufferCannotFit
  <2>6. CASE UpdateFails
    BY <2>6
  <2>7. CASE \/ EpollWait \/ ShutdownSeen \/ Dispatch \/ FlushWrite \/ FlushBlocked
             \/ FlushDone \/ NeedMoreData \/ StageReply \/ ArmWrite \/ ReadData
             \/ ReadWouldBlock
    BY <2>7 DEF EpollWait, ShutdownSeen, Forget, Dispatch, FlushWrite, FlushBlocked,
                FlushDone, NeedMoreData, StageReply, ArmWrite, ReadData, ReadWouldBlock
  <2> QED
    BY <1>1, <2>1, <2>2, <2>3, <2>4, <2>5, <2>6, <2>7 DEF Next, Worker
<1> QED
  BY <1>1, ConnectionInvariant, PTL DEF Spec, ClosesOnlyForCause

-----------------------------------------------------------------------------
(***************************************************************************)
(* The connection implements ReplyStream.                                  *)
(***************************************************************************)
\* ReplyStream's operators on scripts are those of Framing.
LEMMA SameFraming ==
    /\ \A s, n : Replies!RequestEnd(s, n) = RequestEnd(s, n)
    /\ \A s, n : Replies!ReplyEnd(s, n) = ReplyEnd(s, n)
    /\ \A q : Replies!Answerable(q) <=> Answerable(q)
BY DEF Replies!RequestEnd, RequestEnd, Replies!ReplyEnd, ReplyEnd,
       Replies!Answerable, Answerable, Replies!LegalFrame, LegalFrame,
       Replies!LegalReply, LegalReply

\* A write extends the wire with the next bytes owed.
LEMMA FlushWriteTransmits ==
    ASSUME Inv, FlushWrite
    PROVE  Replies!Transmit
<1>1. PICK n \in 1 .. ReadableBytes(write_buffer) :
         wire' = wire \o [k \in 1..n |-> Unread(write_buffer, k - 1)]
  BY DEF FlushWrite
<1>2. /\ UNCHANGED <<script, arrived, handled, pc>>
      /\ pc \in Served
  BY DEF FlushWrite, client, Served
<1>3. /\ Len(wire) + ReadableBytes(write_buffer) = ReplyEnd(script, handled)
      /\ \A k \in 0 .. ReadableBytes(write_buffer) - 1 :
            Unread(write_buffer, k) = Len(wire) + k
  BY <1>2 DEF Inv, ReplyBytesExact
<1>4. Len(wire) \in Nat /\ ReadableBytes(write_buffer) \in Nat
  <2>1. IsBuffer(write_buffer) /\ wire \in Seq(Int)
    BY DEF Inv, TypeOK
  <2> QED
    BY <2>1, ReadableIsNat
<1>5. n \in 1 .. ReplyEnd(script, handled) - Len(wire)
  BY <1>3, <1>4
<1>6. ASSUME NEW k \in 1 .. n
      PROVE  Unread(write_buffer, k - 1) = Len(wire) + k - 1
  <2>1. k - 1 \in 0 .. ReadableBytes(write_buffer) - 1
    BY <1>4
  <2>2. Unread(write_buffer, k - 1) = Len(wire) + (k - 1)
    BY <1>3, <2>1
  <2> QED
    BY <1>4, <2>2
<1>7. wire' = wire \o [k \in 1..n |-> Len(wire) + k - 1]
  BY <1>1, <1>6
<1>8. n \in 1 .. Replies!ReplyEnd(script, handled) - Len(wire)
  BY <1>5, SameFraming
<1>9. UNCHANGED <<script, arrived, handled, pc \in Served>>
  BY <1>2
<1> QED
  BY <1>2, <1>7, <1>8, <1>9 DEF Replies!Transmit

\* Each step of the connection is a step of ReplyStream or changes nothing of it.
LEMMA StepRefines ==
    ASSUME Inv, [Next]_vars
    PROVE  [Replies!Next]_(Replies!vars)
<1>1. CASE ClientSend
  BY <1>1, SameFraming DEF ClientSend, kernel, buffers, Replies!Next, Replies!Arrive
<1>2. CASE StageReply
  <2>1. /\ UNCHANGED <<script, arrived, wire>>
        /\ pc \in Served /\ pc' \in Served /\ handled' = handled + 1
    BY <1>2 DEF StageReply, client, kernel, Served
  <2>2. handled < Len(script) /\ Len(script) \in Nat /\ handled \in Nat
        /\ RequestEnd(script, handled + 1) <= arrived
        /\ RequestEnd(script, handled + 1) \in Nat /\ arrived \in Nat
    <3>1. /\ IsScript(script) /\ handled \in 0 .. Len(script)
          /\ arrived \in 0 .. RequestEnd(script, Len(script))
      BY FramingAssumption DEF Inv, TypeOK
    <3>2. handled < Len(script) /\ Len(script) \in Nat
      BY <1>2, <3>1, StageReplyFacts, ScriptShape
    <3>3. handled + 1 \in 0 .. Len(script) /\ Len(script) \in 0 .. Len(script)
      BY <3>1, <3>2
    <3>4. RequestEnd(script, handled + 1) \in Nat /\ RequestEnd(script, Len(script)) \in Nat
      BY <3>1, <3>3, ScriptShape
    <3> QED
      BY <1>2, <3>1, <3>2, <3>4, StageReplyFacts
  <2>3. Answerable(script[handled + 1]) /\ Len(wire) = ReplyEnd(script, handled)
    BY <1>2, StageReplyFacts
  <2>4. /\ Replies!Answerable(script[handled + 1])
        /\ Len(wire) = Replies!ReplyEnd(script, handled)
        /\ arrived >= Replies!RequestEnd(script, handled + 1)
    BY <2>2, <2>3, SameFraming
  <2>5. Replies!Answer
    BY <2>1, <2>2, <2>4 DEF Replies!Answer
  <2> QED
    BY <2>5 DEF Replies!Next
<1>3. CASE FlushWrite
  BY <1>3, FlushWriteTransmits DEF Replies!Next
<1>4. CASE Ending
  <2>1. /\ UNCHANGED <<script, arrived, handled, wire>> /\ pc' \notin Served
    BY <1>4, EndingForgets DEF Forget, client, Served, Stopped
  <2>2. pc \in Served
    BY <1>4 DEF Ending, ShutdownSeen, DispatchHangup, FlushFails, UpdateFails, RejectFrame,
                ReadEnds, BufferFull, Served
  <2> QED
    BY <2>1, <2>2 DEF Replies!Next, Replies!Stop
<1>5. CASE \/ ClientReceive \/ ClientFin \/ ClientReset \/ RequestShutdown
           \/ EpollWait \/ Dispatch \/ FlushBlocked \/ FlushDone
           \/ NeedMoreData \/ ArmWrite \/ ReadData \/ ReadWouldBlock \/ UNCHANGED vars
  <2>1. /\ UNCHANGED <<script, arrived, handled, wire>>
        /\ pc' \in Served <=> pc \in Served
    BY <1>5 DEF ClientReceive, ClientFin, ClientReset, RequestShutdown, EpollWait, Dispatch,
                FlushBlocked, FlushDone, NeedMoreData, ArmWrite, ReadData, ReadWouldBlock,
                vars, client, kernel, buffers, Served
  <2> QED
    BY <2>1 DEF Replies!vars
<1> QED
  BY <1>1, <1>2, <1>3, <1>4, <1>5 DEF Next, Environment, Worker, Ending

\* The engine's side of a connection implements the abstract reply stream, for every
\* script and every size of buffer and queue.
THEOREM RepliesImplemented == Spec => ImplementsReplyStream
<1>1. Init => Replies!Init
  BY DEF Init, Replies!Init, Served
<1>2. Inv /\ [Next]_vars => [Replies!Next]_(Replies!vars)
  BY StepRefines
<1> QED
  BY <1>1, <1>2, ConnectionInvariant, PTL DEF Spec, ImplementsReplyStream, Replies!Spec
=============================================================================
