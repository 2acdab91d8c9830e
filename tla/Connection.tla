----------------------------- MODULE Connection -----------------------------
(***************************************************************************)
(* One client connection and the worker thread that serves it: the part of  *)
(* run_worker_loop that follows accept4 (process_ready_frames,              *)
(* flush_pending_write, the read loop, close_connection), the kernel's      *)
(* socket under it and the client at the other end.                        *)
(*                                                                         *)
(* A step of the worker is the code between two system calls, the first of *)
(* them included: the client, the network and a shutdown request come      *)
(* between any two.  The kernel is modelled as the code relies on it: a     *)
(* level-triggered epoll, a read or a write that moves some of the bytes it *)
(* could, a bounded queue each way.  EINTR retries the call and is a        *)
(* stuttering step.                                                        *)
(***************************************************************************)
EXTENDS ReusableBuffer

CONSTANTS BufferCapacity, \* WorkerConfig::connection_buffer_capacity
          RecvQueueSize,  \* bytes the kernel keeps for the worker to read
          SendQueueSize,  \* bytes it takes from the worker before the client reads
          RequestLimit,   \* --benchmark-requests, 0 when there is no limit
          CtlMayFail      \* whether epoll_ctl(EPOLL_CTL_MOD) may fail

ASSUME ConnectionAssumption ==
    /\ BufferCapacity \in Nat \ {0}
    /\ RecvQueueSize \in Nat \ {0}
    /\ SendQueueSize \in Nat \ {0}
    /\ RequestLimit \in Nat
    /\ CtlMayFail \in BOOLEAN

VARIABLES
    script,            \* what this connection carries (Framing)
    peer,              \* "open", "fin", "reset", "fin_reset": what the client's end did
    arrived,           \* bytes of the request stream in the kernel or past it
    taken,             \* bytes of it read() has returned
    wire,              \* bytes write() has accepted, in order
    received,          \* bytes of the wire the client has read
    interest,          \* the events the fd is registered for
    pc,                \* where the worker is with this connection
    revents,           \* what epoll_wait returned for it
    read_buffer,
    write_buffer,
    has_pending_write,
    handled,           \* replies staged, BenchmarkRecorder's completed_requests()
    shutdown           \* the shutdown eventfd is readable

client  == <<script, peer, arrived, received>>
kernel  == <<taken, wire, interest>>
buffers == <<read_buffer, write_buffer, has_pending_write, handled>>
vars    == <<client, kernel, pc, revents, buffers, shutdown>>

Served  == {"epoll_wait", "dispatch", "flush", "process", "arm", "read"}
Stopped == {"closed", "exited", "killed"}

-----------------------------------------------------------------------------
(***************************************************************************)
(* The client and the network.                                             *)
(***************************************************************************)
ClientSend ==
    /\ peer = "open"
    /\ arrived < RequestEnd(script, Len(script))
    /\ arrived - taken < RecvQueueSize
    /\ arrived' = arrived + 1
    /\ UNCHANGED <<script, peer, received, kernel, pc, revents, buffers, shutdown>>

ClientReceive ==
    /\ peer \in {"open", "fin"}
    /\ received < Len(wire)
    /\ received' = received + 1
    /\ UNCHANGED <<script, peer, arrived, kernel, pc, revents, buffers, shutdown>>

\* The client shuts its sending side down, or closes having read everything.
ClientFin ==
    /\ peer = "open"
    /\ peer' = "fin"
    /\ UNCHANGED <<script, arrived, received, kernel, pc, revents, buffers, shutdown>>

\* A reset arrives: the client is gone, or closed with a reply it had not read.
ClientReset ==
    /\ peer \in {"open", "fin"}
    /\ peer' = IF peer = "open" THEN "reset" ELSE "fin_reset"
    /\ UNCHANGED <<script, arrived, received, kernel, pc, revents, buffers, shutdown>>

\* A signal, the benchmark timer or another worker's end writes the eventfd.
RequestShutdown ==
    /\ ~shutdown
    /\ shutdown' = TRUE
    /\ UNCHANGED <<client, kernel, pc, revents, buffers>>

\* What the socket is ready for, and the part of it epoll reports.
Ready ==
    (IF taken < arrived \/ peer # "open" THEN {"EPOLLIN"} ELSE {})
    \cup (IF Len(wire) - received < SendQueueSize \/ peer \in {"reset", "fin_reset"}
          THEN {"EPOLLOUT"} ELSE {})
    \cup (IF peer # "open" THEN {"EPOLLRDHUP"} ELSE {})
    \cup (IF peer \in {"reset", "fin_reset"} THEN {"EPOLLERR", "EPOLLHUP"} ELSE {})

Reported == Ready \cap (interest \cup {"EPOLLERR", "EPOLLHUP"})

-----------------------------------------------------------------------------
(***************************************************************************)
(* The worker.                                                             *)
(***************************************************************************)
NoBuffer == EmptyBuffer(0)

\* The fd is closed and the ConnectionState erased with both its buffers.
Forget(end) ==
    /\ pc' = end
    /\ revents' = {}
    /\ interest' = {}
    /\ read_buffer' = NoBuffer
    /\ write_buffer' = NoBuffer
    /\ has_pending_write' = FALSE
    /\ UNCHANGED <<client, taken, wire, handled>>

CloseConnection == Forget("closed") /\ UNCHANGED shutdown

\* A slip: EPOLLOUT is never asked for.
NeverArmed(enable_write) == interest' = {"EPOLLIN", "EPOLLRDHUP"}

\* update_client_events, when epoll_ctl succeeds.
UpdateClientEvents(enable_write) ==
    interest' = {"EPOLLIN", "EPOLLRDHUP"} \cup (IF enable_write THEN {"EPOLLOUT"} ELSE {})

EpollWait ==
    /\ pc = "epoll_wait"
    /\ Reported # {}
    /\ revents' = Reported
    /\ pc' = "dispatch"
    /\ UNCHANGED <<client, kernel, buffers, shutdown>>

\* A slip: the shutdown request is looked at only when the connection has an event.
ShutdownSeenIfBusy ==
    /\ pc = "epoll_wait"
    /\ shutdown
    /\ Reported # {}
    /\ Forget("exited")
    /\ UNCHANGED shutdown

\* The shutdown fd is among the events: the loop returns, and
\* shutdown_worker_runtime closes what is open.
ShutdownSeen ==
    /\ pc = "epoll_wait"
    /\ shutdown
    /\ Forget("exited")
    /\ UNCHANGED shutdown

DispatchHangup ==
    /\ pc = "dispatch"
    /\ revents \cap {"EPOLLERR", "EPOLLHUP", "EPOLLRDHUP"} # {}
    /\ CloseConnection

Dispatch ==
    /\ pc = "dispatch"
    /\ revents \cap {"EPOLLERR", "EPOLLHUP", "EPOLLRDHUP"} = {}
    /\ pc' = IF ~has_pending_write THEN "process"
             ELSE IF "EPOLLOUT" \in revents THEN "flush"
             ELSE "epoll_wait"
    /\ revents' = {}
    /\ UNCHANGED <<client, kernel, buffers, shutdown>>

\* flush_pending_write: one write() that takes n bytes of the pending reply.
FlushWrite ==
    /\ pc = "flush"
    /\ ReadableBytes(write_buffer) > 0
    /\ peer \in {"open", "fin"}
    /\ \E n \in 1 .. ReadableBytes(write_buffer) :
         /\ Len(wire) + n - received <= SendQueueSize
         /\ wire' = wire \o [k \in 1..n |-> Unread(write_buffer, k - 1)]
         /\ write_buffer' = ConsumeFrame(write_buffer, n)
    /\ UNCHANGED <<client, taken, interest, pc, revents, read_buffer,
                   has_pending_write, handled, shutdown>>

\* A write() to a reset connection: an error closes it; after a FIN it raises
\* SIGPIPE, which the process neither handles nor ignores.
FlushFails ==
    /\ pc = "flush"
    /\ ReadableBytes(write_buffer) > 0
    /\ \/ peer = "reset" /\ CloseConnection
       \/ peer = "fin_reset" /\ Forget("killed") /\ UNCHANGED shutdown

\* write() would block: the send queue is full.
WriteBlocked == /\ ReadableBytes(write_buffer) > 0
                /\ peer \in {"open", "fin"}
                /\ Len(wire) - received = SendQueueSize

\* The rest of the reply waits for EPOLLOUT.
FlushBlocked ==
    /\ pc = "flush"
    /\ WriteBlocked
    /\ has_pending_write' = TRUE
    /\ UpdateClientEvents(TRUE)
    /\ pc' = "epoll_wait"
    /\ UNCHANGED <<client, taken, wire, revents, read_buffer, write_buffer, handled, shutdown>>

\* A slip: after a flush the worker reads without a look at what it has buffered.
FlushDoneThenRead ==
    /\ pc = "flush"
    /\ ReadableBytes(write_buffer) = 0
    /\ has_pending_write' = FALSE
    /\ UpdateClientEvents(FALSE)
    /\ shutdown' = (shutdown \/ (RequestLimit # 0 /\ handled >= RequestLimit))
    /\ pc' = "read"
    /\ UNCHANGED <<client, taken, wire, revents, read_buffer, write_buffer, handled>>

\* The reply is out: the connection goes on to its buffered frames, and a
\* benchmark that has reached its limit shuts the engine down.
FlushDone ==
    /\ pc = "flush"
    /\ ReadableBytes(write_buffer) = 0
    /\ has_pending_write' = FALSE
    /\ UpdateClientEvents(FALSE)
    /\ shutdown' = (shutdown \/ (RequestLimit # 0 /\ handled >= RequestLimit))
    /\ pc' = "process"
    /\ UNCHANGED <<client, taken, wire, revents, read_buffer, write_buffer, handled>>

\* epoll_ctl fails after a flush or after a reply is staged.
UpdateFails ==
    /\ CtlMayFail
    /\ \/ pc = "flush" /\ (ReadableBytes(write_buffer) = 0 \/ WriteBlocked)
       \/ pc = "arm"
    /\ CloseConnection

-----------------------------------------------------------------------------
(***************************************************************************)
(* process_ready_frames.                                                   *)
(***************************************************************************)
\* The request whose length prefix the first unread bytes are, if they are one.
FramedRequests ==
    IF ReadableBytes(read_buffer) < HeaderSize THEN {}
    ELSE {i \in 1..Len(script) :
            \A k \in 0 .. HeaderSize - 1 : Unread(read_buffer, k) = script[i].at + k}

FramedRequest == CHOOSE i \in FramedRequests : TRUE

PayloadLength == IF FramedRequests = {} THEN 0 ELSE script[FramedRequest].size

FrameStatus == ExtractStatus(read_buffer, PayloadLength)

\* A slip: handle_request's kDropConnection is ignored.
AcceptedWhateverVerdict ==
    \A k \in 0 .. PayloadLength - 1 :
       Unread(read_buffer, HeaderSize + k) = script[FramedRequest].at + HeaderSize + k

\* parse_bid_request and handle_request on the payload of a ready frame.  A
\* payload that is not the request's own bytes does not parse.
Accepted ==
    /\ \A k \in 0 .. PayloadLength - 1 :
          Unread(read_buffer, HeaderSize + k) = script[FramedRequest].at + HeaderSize + k
    /\ script[FramedRequest].verdict = "reply"

\* stage_response_frame: its refusals, and the buffer it leaves.
CanStage(size, b) == LegalReply(size) /\ ReadableBytes(b) = 0

\* A slip: the write offset is set to the payload size, without the prefix.
StagedWithoutPrefix(b, first, size) ==
    LET roomy == Reserve(b, HeaderSize + size)
        empty == Buffer(roomy.size, roomy.storage, 0, 0)
    IN Buffer(empty.size, Filled(empty, first, HeaderSize + size), 0, size)

Staged(b, first, size) ==
    LET total == HeaderSize + size
        roomy == Reserve(b, total)
        empty == Buffer(roomy.size, roomy.storage, 0, 0)
    IN Buffer(empty.size, Filled(empty, first, total), 0, total)

NeedMoreData ==
    /\ pc = "process"
    /\ FrameStatus = "kNeedMoreData"
    /\ pc' = "read"
    /\ UNCHANGED <<client, kernel, revents, buffers, shutdown>>

RejectFrame ==
    /\ pc = "process"
    /\ \/ FrameStatus = "kInvalidLength"
       \/ /\ FrameStatus = "kFrameReady"
          /\ ~(Accepted /\ CanStage(script[FramedRequest].reply_size, write_buffer))
    /\ CloseConnection

\* A reply is staged, recorded, and its request consumed.
StageReply ==
    /\ pc = "process"
    /\ FrameStatus = "kFrameReady"
    /\ Accepted
    /\ CanStage(script[FramedRequest].reply_size, write_buffer)
    /\ write_buffer' = Staged(write_buffer, script[FramedRequest].reply_at, script[FramedRequest].reply_size)
    /\ read_buffer' = ConsumeFrame(read_buffer, HeaderSize + PayloadLength)
    /\ has_pending_write' = TRUE
    /\ handled' = handled + 1
    /\ pc' = "arm"
    /\ UNCHANGED <<client, kernel, revents, shutdown>>

\* Nothing is written now: the event loop comes back when EPOLLOUT is reported.
ArmWrite ==
    /\ pc = "arm"
    /\ UpdateClientEvents(TRUE)
    /\ pc' = "epoll_wait"
    /\ UNCHANGED <<client, taken, wire, revents, buffers, shutdown>>

-----------------------------------------------------------------------------
(***************************************************************************)
(* The read loop.                                                          *)
(***************************************************************************)
\* A slip: the buffer is never compacted.
RoomAsItIs == read_buffer

\* The buffer read() is given: compacted first when its end is full.
Room == IF WritableBytes(read_buffer) = 0 THEN Compact(read_buffer) ELSE read_buffer

ReadData ==
    /\ pc = "read"
    /\ \E n \in 1 .. WritableBytes(Room) :
         /\ n <= arrived - taken
         /\ read_buffer' = CommitWrite(Room, taken, n)
         /\ taken' = taken + n
    /\ pc' = "process"
    /\ UNCHANGED <<client, wire, interest, revents, write_buffer,
                   has_pending_write, handled, shutdown>>

ReadWouldBlock ==
    /\ pc = "read"
    /\ WritableBytes(Room) > 0
    /\ taken = arrived
    /\ peer = "open"
    /\ read_buffer' = Room
    /\ pc' = "epoll_wait"
    /\ UNCHANGED <<client, kernel, revents, write_buffer, has_pending_write,
                   handled, shutdown>>

\* End of stream, or an error after a reset.
ReadEnds ==
    /\ pc = "read"
    /\ WritableBytes(Room) > 0
    /\ taken = arrived
    /\ peer # "open"
    /\ CloseConnection

\* The frame does not fit the buffer.
BufferFull ==
    /\ pc = "read"
    /\ WritableBytes(Room) = 0
    /\ CloseConnection

-----------------------------------------------------------------------------
\* A connection accept4 has just returned, its buffers reserved and its fd
\* registered without EPOLLOUT.
Init ==
    /\ script \in Scripts
    /\ peer = "open"
    /\ arrived = 0
    /\ taken = 0
    /\ wire = <<>>
    /\ received = 0
    /\ interest = {"EPOLLIN", "EPOLLRDHUP"}
    /\ pc = "epoll_wait"
    /\ revents = {}
    /\ read_buffer = EmptyBuffer(BufferCapacity)
    /\ write_buffer = EmptyBuffer(BufferCapacity)
    /\ has_pending_write = FALSE
    /\ handled = 0
    /\ shutdown = FALSE

Environment ==
    ClientSend \/ ClientReceive \/ ClientFin \/ ClientReset \/ RequestShutdown

Worker ==
    \/ EpollWait \/ ShutdownSeen
    \/ DispatchHangup \/ Dispatch
    \/ FlushWrite \/ FlushFails \/ FlushBlocked \/ FlushDone \/ UpdateFails
    \/ NeedMoreData \/ RejectFrame \/ StageReply \/ ArmWrite
    \/ ReadData \/ ReadWouldBlock \/ ReadEnds \/ BufferFull

Next == Environment \/ Worker

Spec == Init /\ [][Next]_vars

\* The worker thread is scheduled, and a client that waits for a reply reads it.
\* epoll returns every ready fd, or takes turns when they are more than
\* epoll_max_events: the shutdown fd is not passed over for ever.
Fairness == WF_vars(Worker) /\ WF_vars(ClientReceive) /\ SF_vars(ShutdownSeen)

FairSpec == Spec /\ Fairness

-----------------------------------------------------------------------------
(***************************************************************************)
(* What must hold.                                                         *)
(***************************************************************************)
\* The type of every variable; a connection that is not served has no events.
TypeOK ==
    /\ script \in Scripts
    /\ peer \in {"open", "fin", "reset", "fin_reset"}
    /\ arrived \in 0 .. RequestEnd(script, Len(script))
    /\ taken \in 0 .. arrived
    /\ wire \in Seq(Int)
    /\ received \in 0 .. Len(wire)
    /\ interest \subseteq {"EPOLLIN", "EPOLLOUT", "EPOLLRDHUP"}
    /\ pc \in Served \cup Stopped
    /\ revents \subseteq {"EPOLLIN", "EPOLLOUT", "EPOLLRDHUP", "EPOLLERR", "EPOLLHUP"}
    /\ IsBuffer(read_buffer)
    /\ IsBuffer(write_buffer)
    /\ has_pending_write \in BOOLEAN
    /\ handled \in 0 .. Len(script)
    /\ shutdown \in BOOLEAN

\* Through short reads, pipelined frames and compaction (read loop,
\* consume_frame, compact), the unread bytes are exactly those of the request
\* stream from the end of the last request answered to the last byte read.
RequestBytesExact ==
    pc \in Served =>
        /\ RequestEnd(script, handled) + ReadableBytes(read_buffer) = taken
        /\ \A k \in 0 .. ReadableBytes(read_buffer) - 1 :
              Unread(read_buffer, k) = RequestEnd(script, handled) + k

\* Through short writes, EAGAIN and re-staging (flush_pending_write,
\* stage_response_frame), the wire carries a prefix of the replies to the
\* requests handled, and the write buffer exactly the rest of them.
ReplyBytesExact ==
    /\ \A j \in 1 .. Len(wire) : wire[j] = j - 1
    /\ Len(wire) <= ReplyEnd(script, handled)
    /\ pc \in Served =>
         /\ Len(wire) + ReadableBytes(write_buffer) = ReplyEnd(script, handled)
         /\ \A k \in 0 .. ReadableBytes(write_buffer) - 1 :
               Unread(write_buffer, k) = Len(wire) + k

\* When the worker goes to sleep on a connection, three records of the same
\* fact agree: has_pending_write, the bytes in the write buffer and the
\* registration for EPOLLOUT.  Were the last to lag, the reply would never leave.
PendingWriteSync ==
    pc \in {"epoll_wait", "dispatch"} =>
        /\ has_pending_write <=> ReadableBytes(write_buffer) > 0
        /\ has_pending_write <=> "EPOLLOUT" \in interest

\* The worker never sleeps on a whole frame it has read, or on one to refuse,
\* with no reply to send: no EPOLLIN would ever come for bytes already read.
NoStrandedFrame ==
    pc = "epoll_wait" /\ ~has_pending_write => FrameStatus = "kNeedMoreData"

\* What each point of the handler relies on: a connection is looked at for frames,
\* or read from, only with no reply pending; it is read from only when its buffer
\* holds no frame to act on; and a hangup is reported only by a client that hung up.
WorkerStateInv ==
    /\ pc = "flush" => has_pending_write
    /\ pc = "arm" => has_pending_write /\ ReadableBytes(write_buffer) > 0
    /\ pc \in {"process", "read"} => /\ ~has_pending_write
                                     /\ ReadableBytes(write_buffer) = 0
                                     /\ "EPOLLOUT" \notin interest
    /\ pc = "read" => FrameStatus = "kNeedMoreData"
    /\ pc \in Served => read_buffer.size = BufferCapacity
    /\ revents \cap {"EPOLLERR", "EPOLLHUP", "EPOLLRDHUP"} # {} => peer # "open"

\* The request at the head of the stream, whether it has arrived or not.
NextAnswerable == handled < Len(script) => Answerable(script[handled + 1])
NextFits == handled < Len(script) => HeaderSize + script[handled + 1].size <= BufferCapacity

\* The engine ends a connection only when the client has ended its side, when the
\* next request is one it does not answer or that cannot fit the read buffer, or
\* when epoll_ctl fails: never for how its bytes were cut up or pipelined.
ClosesOnlyForCause ==
    [][pc' = "closed" /\ pc # "closed" =>
         peer # "open" \/ ~NextAnswerable \/ ~NextFits \/ UpdateFails]_vars

\* Every request that arrives whole is answered and its reply received, unless
\* the client hangs up or the connection ends (ClosesOnlyForCause says why).
EveryRequestAnswered ==
    \A n \in UNION {DOMAIN s : s \in Scripts} :
        (n \in DOMAIN script /\ arrived >= RequestEnd(script, n))
            ~> \/ n \in DOMAIN script /\ received >= ReplyEnd(script, n)
               \/ peer # "open"
               \/ pc \in Stopped

\* A shutdown request reaches the worker whatever the connection is doing.
ShutdownStopsWorker == shutdown ~> pc \in Stopped

\* The connection is a ReplyStream: one reply at a time, in order, each for a
\* request that has arrived whole.
Replies == INSTANCE ReplyStream WITH answered <- handled, open <- pc \in Served
ImplementsReplyStream == Replies!Spec

-----------------------------------------------------------------------------
(***************************************************************************)
(* What the documentation says and the code does not do.                   *)
(***************************************************************************)
\* "we should probably just design buffers such that they never actually fill
\* up" (worker_runtime.cc:387): a request the frame limit allows and the engine
\* answers never ends the connection of a client that is still there.
LegalRequestsFit ==
    [][pc' = "closed" /\ pc # "closed" /\ peer = "open" =>
         ~NextAnswerable \/ UpdateFails]_vars

\* "When the request limit is reached, the engine exits" (README.md:133).
LimitReachedExits ==
    (RequestLimit # 0 /\ handled >= RequestLimit) ~> (shutdown \/ pc = "killed")
=============================================================================
