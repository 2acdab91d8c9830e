------------------------------ MODULE Benchmark ------------------------------
(***************************************************************************)
(* The benchmark: the workers time the phases of each request and record     *)
(* them in one list under a mutex; a worker that has flushed a reply looks   *)
(* whether the limit of requests is reached, and if so asks for the shutdown; *)
(* when the workers have ended, the list is summarised.                     *)
(***************************************************************************)
EXTENDS Percentiles, FiniteSets

CONSTANTS Workers,
          RequestLimit,    \* request_limit_, 0 for none
          MaxTime,         \* bound: how long a request may take
          MaxRequests,     \* bound: the requests the clients send
          MaxPending       \* the connections of a worker

ASSUME BenchmarkAssumption ==
    {RequestLimit, MaxTime, MaxRequests, MaxPending} \subseteq Nat

VARIABLES
    pc,            \* worker -> "wait" (in epoll_wait), or what it does with a request or a reply
    elapsed,       \* worker -> the time since total_start: the steady clock never goes back
    timing,        \* worker -> the phases of its request, once they were timed
    pending,       \* worker -> how many connections have a reply pending
    received,      \* how many requests there have been
    requests,      \* requests_ of the recorder
    shutdown,      \* whether the eventfd was written
    summary,       \* the summary of each phase, when it was printed
    lost           \* auxiliary: whether a connection ended with its reply pending

vars == <<pc, elapsed, timing, pending, received, requests, shutdown, summary, lost>>

Phases == {"parse", "normalize_validate", "retrieve", "decide", "response_build", "response_stage"}
Untimed == [phase \in Phases |-> 0]
NoSummary == [phase \in {} |-> 0]

\* What follows each step of a request.  "no_bid" is the response_build of a request that
\* is not eligible; "wait" the end of the connection, with its times.
Following ==
    [parse              |-> {"normalize_validate", "wait"},
     normalize_validate |-> {"retrieve", "no_bid"},
     retrieve           |-> {"decide"},
     decide             |-> {"response_build"},
     response_build     |-> {"response_stage"},
     no_bid             |-> {"response_stage", "wait"},
     response_stage     |-> {"record", "wait"}]

PhaseOf(step) == IF step = "no_bid" THEN "response_build" ELSE step

-----------------------------------------------------------------------------
(***************************************************************************)
(* process_ready_frames                                                    *)
(***************************************************************************)
\* A slip: the times of the last request are not set to 0.
BeginWithOldTimes(w) ==
    /\ pc[w] = "wait"
    /\ received < MaxRequests /\ pending[w] < MaxPending
    /\ received' = received + 1
    /\ pc' = [pc EXCEPT ![w] = "parse"]
    /\ elapsed' = [elapsed EXCEPT ![w] = 0]
    /\ UNCHANGED <<timing, pending, requests, shutdown, summary, lost>>

Begin(w) ==
    /\ pc[w] = "wait"
    /\ received < MaxRequests /\ pending[w] < MaxPending
    /\ received' = received + 1
    /\ pc' = [pc EXCEPT ![w] = "parse"]
    /\ elapsed' = [elapsed EXCEPT ![w] = 0]
    /\ timing' = [timing EXCEPT ![w] = Untimed]
    /\ UNCHANGED <<pending, requests, shutdown, summary, lost>>

\* One phase, between two looks at the clock, and what came before the first.
TimePhase(w, gap, length, next) ==
    /\ pc[w] \in DOMAIN Following
    /\ next \in Following[pc[w]]
    /\ elapsed[w] + gap + length <= MaxTime
    /\ elapsed' = [elapsed EXCEPT ![w] = elapsed[w] + gap + length]
    /\ timing' = [timing EXCEPT ![w][PhaseOf(pc[w])] = length]
    /\ pc' = [pc EXCEPT ![w] = next]
    /\ UNCHANGED <<pending, received, requests, shutdown, summary, lost>>

\* total_internal_ns was taken when the last phase ended.  The reply is pending from now.
Record(w) ==
    /\ pc[w] = "record"
    /\ requests' = Append(requests, [timing |-> timing[w], total |-> elapsed[w]])
    /\ pending' = [pending EXCEPT ![w] = pending[w] + 1]
    /\ pc' = [pc EXCEPT ![w] = "wait"]
    /\ UNCHANGED <<elapsed, timing, received, shutdown, summary, lost>>

-----------------------------------------------------------------------------
(***************************************************************************)
(* flush_pending_write, and the end of a connection.                        *)
(***************************************************************************)
Flush(w) ==
    /\ pc[w] = "wait"
    /\ pending[w] > 0
    /\ pending' = [pending EXCEPT ![w] = pending[w] - 1]
    /\ pc' = [pc EXCEPT ![w] = "check"]
    /\ UNCHANGED <<elapsed, timing, received, requests, shutdown, summary, lost>>

Lose(w) ==
    /\ pc[w] = "wait"
    /\ pending[w] > 0
    /\ pending' = [pending EXCEPT ![w] = pending[w] - 1]
    /\ lost' = TRUE
    /\ UNCHANGED <<pc, elapsed, timing, received, requests, shutdown, summary>>

\* A slip: only the request that makes the limit full is looked for.
LimitJustReached == RequestLimit # 0 /\ Len(requests) = RequestLimit

request_limit_reached == RequestLimit # 0 /\ Len(requests) >= RequestLimit

\* The list is locked again, after other workers may have added to it.
Check(w) ==
    /\ pc[w] = "check"
    /\ pc' = [pc EXCEPT ![w] = IF request_limit_reached THEN "signal" ELSE "wait"]
    /\ UNCHANGED <<elapsed, timing, pending, received, requests, shutdown, summary, lost>>

Signal(w) ==
    /\ pc[w] = "signal"
    /\ shutdown' = TRUE
    /\ pc' = [pc EXCEPT ![w] = "wait"]
    /\ UNCHANGED <<elapsed, timing, pending, received, requests, summary, lost>>

-----------------------------------------------------------------------------
\* A signal or the timer.
RequestShutdown ==
    /\ ~shutdown
    /\ shutdown' = TRUE
    /\ UNCHANGED <<pc, elapsed, timing, pending, received, requests, summary, lost>>

End(w) ==
    /\ pc[w] = "wait"
    /\ shutdown
    /\ pc' = [pc EXCEPT ![w] = "ended"]
    /\ UNCHANGED <<elapsed, timing, pending, received, requests, shutdown, summary, lost>>

\* The values of one phase, or of total_internal, in the order of the list.
ValuesOf(phase) ==
    [n \in 1 .. Len(requests) |->
       IF phase = "total_internal" THEN requests[n].total ELSE requests[n].timing[phase]]

summarize == [phase \in Phases \cup {"total_internal"} |-> summarize_phase(ValuesOf(phase))]

\* A slip: one worker has ended, the others are not waited for.
PrintWithoutJoin ==
    /\ shutdown
    /\ summary = NoSummary
    /\ summary' = summarize
    /\ UNCHANGED <<pc, elapsed, timing, pending, received, requests, shutdown, lost>>

PrintSummary ==
    /\ \A w \in Workers : pc[w] = "ended"
    /\ summary = NoSummary
    /\ summary' = summarize
    /\ UNCHANGED <<pc, elapsed, timing, pending, received, requests, shutdown, lost>>

Init ==
    /\ pc = [w \in Workers |-> "wait"]
    /\ elapsed = [w \in Workers |-> 0]
    /\ timing = [w \in Workers |-> Untimed]
    /\ pending = [w \in Workers |-> 0]
    /\ received = 0
    /\ requests = <<>>
    /\ shutdown = FALSE
    /\ summary = NoSummary
    /\ lost = FALSE

Steps == DOMAIN Following \cup {"wait", "record", "check", "signal", "ended"}

HandleStep(w) ==
    \E gap, length \in 0 .. MaxTime, next \in Steps : TimePhase(w, gap, length, next)

Worker(w) ==
    \/ Begin(w) \/ HandleStep(w) \/ Record(w)
    \/ Flush(w) \/ Lose(w) \/ Check(w) \/ Signal(w) \/ End(w)

Next == (\E w \in Workers : Worker(w)) \/ RequestShutdown \/ PrintSummary

\* A worker goes on with what it has begun.  A client that reads its replies makes the
\* connection writable, and epoll reports it and the eventfd however busy the others are.
Fairness ==
    /\ \A w \in Workers :
          /\ WF_vars(HandleStep(w) \/ Record(w) \/ Check(w) \/ Signal(w))
          /\ SF_vars(Flush(w))
          /\ SF_vars(End(w))
    /\ WF_vars(PrintSummary)

Spec == Init /\ [][Next]_vars
FairSpec == Spec /\ Fairness

-----------------------------------------------------------------------------
(***************************************************************************)
(* What must hold.                                                         *)
(***************************************************************************)
Records == [timing : [Phases -> 0 .. MaxTime], total : 0 .. MaxTime]

\* The type of every variable.
TypeOK ==
    /\ pc \in [Workers -> Steps]
    /\ elapsed \in [Workers -> 0 .. MaxTime]
    /\ timing \in [Workers -> [Phases -> 0 .. MaxTime]]
    /\ pending \in [Workers -> 0 .. MaxPending]
    /\ received \in 0 .. MaxRequests
    /\ requests \in Seq(Records)
    /\ {shutdown, lost} \subseteq BOOLEAN

Sum(times) ==
    times["parse"] + times["normalize_validate"] + times["retrieve"] + times["decide"]
      + times["response_build"] + times["response_stage"]

\* The phases of a recorded request are its own, do not overlap, and are all within its
\* total: a request that went round retrieve and decide has 0 for them.
PhasesWithinTotal ==
    \A n \in 1 .. Len(requests) : Sum(requests[n].timing) <= requests[n].total

LimitPassed == RequestLimit # 0 /\ Len(requests) >= RequestLimit

\* The limit is not overlooked, however the workers' records come between one another's
\* looks at it: once no reply is pending that a look would follow, the shutdown was asked
\* for.  A reply whose connection ended has no such look.
LimitIsSeen ==
    LimitPassed /\ ~lost =>
        \/ shutdown
        \/ \E w \in Workers : pending[w] > 0 \/ pc[w] \in {"check", "signal"}

\* No figure of a phase is above the same figure of the total.
SummariesAgree ==
    summary # NoSummary =>
        /\ \A phase \in Phases, figure \in DOMAIN summary["total_internal"] :
              summary[phase][figure] <= summary["total_internal"][figure]
        /\ \A phase \in Phases : summary[phase].count = Len(requests)

\* A benchmark with a limit ends with its summary, if no client leaves without its reply.
LimitEndsBenchmark == (LimitPassed /\ ~lost) ~> (summary # NoSummary \/ lost)
=============================================================================
