------------------------------ MODULE Framing ------------------------------
(***************************************************************************)
(* What the two byte streams of one client connection carry.               *)
(*                                                                         *)
(* A client sends length-prefixed request frames and is owed one           *)
(* length-prefixed reply frame for each request the engine accepts.  A byte *)
(* is identified by its position in its stream, so that a byte lost,       *)
(* duplicated or moved shows.  What a connection carries is fixed by its   *)
(* script: the requests in the order they are sent, with the verdict of    *)
(* parse_bid_request and handle_request on each and the size of its reply. *)
(***************************************************************************)
EXTENDS Integers, Sequences

CONSTANTS HeaderSize,           \* bytes of a length prefix: sizeof(uint32_t)
          MaxFrameSize,         \* WorkerConfig::max_frame_size
          MaxOutboundFrameSize, \* rtb::config::kMaxOutboundFrameSize
          Scripts               \* the scripts a connection may follow

\* What parse_bid_request and handle_request make of a request: a reply, or the
\* end of the connection.
Verdicts == {"reply", "drop"}

\* One request: where its frame starts in the request stream, its payload size,
\* its verdict, and the start and payload size of its reply.
Requests == [at : Nat, size : Nat, verdict : Verdicts, reply_at : Nat, reply_size : Nat]

\* The positions just after the first n requests, and after their replies.
RequestEnd(s, n) == IF n = 0 THEN 0 ELSE s[n].at + HeaderSize + s[n].size
ReplyEnd(s, n) == IF n = 0 THEN 0 ELSE s[n].reply_at + HeaderSize + s[n].reply_size

\* Frames follow each other in either stream, without a gap and in order.
IsScript(s) ==
    /\ s \in Seq(Requests)
    /\ \A n \in 1..Len(s) : /\ s[n].at = RequestEnd(s, n - 1)
                            /\ s[n].reply_at = ReplyEnd(s, n - 1)
    /\ \A m, n \in 1..Len(s) : m < n => RequestEnd(s, m) <= s[n].at

ASSUME FramingAssumption ==
    /\ HeaderSize \in Nat \ {0}
    /\ MaxFrameSize \in Nat \ {0}
    /\ MaxOutboundFrameSize \in Nat \ {0}
    /\ \A s \in Scripts : IsScript(s)

\* A frame try_extract_frame may return, and a reply stage_response_frame takes.
LegalFrame(size) == 0 < size /\ size <= MaxFrameSize
LegalReply(size) == 0 < size /\ size <= MaxOutboundFrameSize

\* A request the engine answers: anything else ends the connection.
Answerable(q) == LegalFrame(q.size) /\ q.verdict = "reply" /\ LegalReply(q.reply_size)
=============================================================================
