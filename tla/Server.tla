------------------------------- MODULE Server -------------------------------
(***************************************************************************)
(* run_server: the main thread that starts the workers and waits for them,  *)
(* the worker threads, the benchmark's timer thread, and the signal handler *)
(* that may interrupt any of them.  They share the shutdown eventfd, which  *)
(* everyone writes, every worker polls and nobody reads: once readable, it  *)
(* stays readable.                                                         *)
(*                                                                         *)
(* What a worker does with its connections is in Connection; here it counts *)
(* the requests it records, may find the benchmark's limit reached, and may *)
(* write to a connection that is gone.                                     *)
(* Threads and memory are taken to be there when asked for.                *)
(***************************************************************************)
EXTENDS Integers, FiniteSets

CONSTANTS WorkerCount,  \* --workers
          Benchmark,    \* --benchmark: requests are recorded and reported
          HasDuration,  \* --benchmark-duration-ms is given
          RequestLimit, \* --benchmark-requests, 0 when there is no limit
          StepsMayFail, \* whether eventfd, sigaction and a worker's setup may fail
          MaxSignals,   \* bound: signals sent to the process
          MaxRequests   \* bound: requests recorded

ASSUME ServerAssumption ==
    /\ WorkerCount \in Nat \ {0}
    /\ Benchmark \in BOOLEAN
    /\ HasDuration \in BOOLEAN
    /\ RequestLimit \in Nat
    /\ StepsMayFail \in BOOLEAN
    /\ MaxSignals \in Nat
    /\ MaxRequests \in Nat

Workers == 0 .. WorkerCount - 1
MainThread == -1
TimerThread == -2
Threads == Workers \cup {MainThread, TimerThread}
Signals == {"SIGINT", "SIGTERM"}
NotPrinted == -1

VARIABLES
    main,                \* where the main thread is in run_server
    next,                \* the worker its current loop is at
    disposition,         \* what each signal does: "default" or "handler"
    g_shutdown_event_fd, \* the fd the handler writes to: "none" or "eventfd"
    eventfd,             \* "none", "open", "closed"
    readable,            \* the eventfd's counter is not 0
    fds,                 \* the fds each WorkerRuntime has open
    worker,              \* each worker thread: "none", "loop", "returned", "exited"
    timer,               \* the timer thread
    cancelled,           \* benchmark_timer_cancelled
    handler,             \* the signal handler on each thread
    signals,             \* signals sent so far
    recorded,            \* BenchmarkRecorder's completed_requests()
    printed,             \* the request count print_summary wrote
    written,             \* the one write_json wrote
    exit_code

setup   == <<disposition, g_shutdown_event_fd>>
threads == <<worker, timer, cancelled>>
interrupts == <<handler, signals>>
report  == <<recorded, printed, written>>
vars == <<main, next, setup, eventfd, readable, fds, threads, interrupts, report, exit_code>>

\* A signal's default action ended the process: SIGINT's or SIGTERM's, or SIGPIPE's.
Dead == {"killed", "broken_pipe"}
Ended == {"done"} \cup Dead

\* A thread goes on when no handler has interrupted it.
Running(t) == handler[t] = "idle" /\ main \notin Dead

Alive(t) == CASE t = MainThread -> main \notin Ended
              [] t = TimerThread -> timer \notin {"none", "exited"}
              [] OTHER -> worker[t] \in {"loop", "returned"}

At(place) == main = place /\ Running(MainThread)

-----------------------------------------------------------------------------
(***************************************************************************)
(* Signals.                                                                *)
(***************************************************************************)
\* The kernel delivers a signal to a thread of its choice; one without a handler
\* ends the process.
Deliver(t) ==
    /\ main \notin Ended
    /\ Alive(t) /\ Running(t)
    /\ signals < MaxSignals
    /\ signals' = signals + 1
    /\ \E s \in Signals :
         IF disposition[s] = "handler"
         THEN handler' = [handler EXCEPT ![t] = "entered"] /\ UNCHANGED main
         ELSE main' = "killed" /\ UNCHANGED handler
    /\ UNCHANGED <<next, setup, eventfd, readable, fds, threads, report, exit_code>>

\* handle_shutdown_signal: the fd is looked at ...
HandlerChecks(t) ==
    /\ main \notin Dead
    /\ handler[t] = "entered"
    /\ handler' = [handler EXCEPT ![t] =
                     IF g_shutdown_event_fd = "none" THEN "idle" ELSE "writing"]
    /\ UNCHANGED <<main, next, setup, eventfd, readable, fds, threads, signals, report, exit_code>>

\* ... and then written; on a closed fd the write is lost, or goes elsewhere.
HandlerWrites(t) ==
    /\ main \notin Dead
    /\ handler[t] = "writing"
    /\ handler' = [handler EXCEPT ![t] = "idle"]
    /\ readable' = (readable \/ eventfd = "open")
    /\ UNCHANGED <<main, next, setup, eventfd, fds, threads, signals, report, exit_code>>

-----------------------------------------------------------------------------
(***************************************************************************)
(* The main thread, until the workers run.                                 *)
(***************************************************************************)
CreateEventFd ==
    /\ At("eventfd")
    /\ \/ eventfd' = "open" /\ main' = "install" /\ UNCHANGED exit_code
       \/ StepsMayFail /\ main' = "done" /\ exit_code' = 1 /\ UNCHANGED eventfd
    /\ UNCHANGED <<next, setup, readable, fds, threads, interrupts, report>>

\* A slip: the handler's fd is never set.
PublishNothing ==
    /\ At("install")
    /\ main' = "sigint"
    /\ UNCHANGED <<next, setup, eventfd, readable, fds, threads, interrupts, report, exit_code>>

\* install_signal_handlers: the fd first, so that a handler always finds it.
PublishEventFd ==
    /\ At("install")
    /\ g_shutdown_event_fd' = "eventfd"
    /\ main' = "sigint"
    /\ UNCHANGED <<next, disposition, eventfd, readable, fds, threads, interrupts, report, exit_code>>

\* One sigaction(); a failure undoes what was installed and run_server fails.
Install(signal, here, after) ==
    /\ At(here)
    /\ \/ /\ disposition' = [disposition EXCEPT ![signal] = "handler"]
          /\ main' = after
          /\ UNCHANGED <<g_shutdown_event_fd, exit_code>>
       \/ /\ StepsMayFail
          /\ disposition' = [s \in Signals |-> "default"]
          /\ g_shutdown_event_fd' = "none"
          /\ main' = "close"
          /\ exit_code' = 1
    /\ UNCHANGED <<next, eventfd, readable, fds, threads, interrupts, report>>

\* A slip: one of the two signals is forgotten.
InstallSigintOnly == Install("SIGINT", "sigint", "listen")

InstallHandlers == \/ Install("SIGINT", "sigint", "sigterm")
                   \/ Install("SIGTERM", "sigterm", "listen")

\* The next worker of a loop over all of them, or what follows the loop.
Advance(here, after) ==
    IF next + 1 < WorkerCount THEN next' = next + 1 /\ main' = here
                              ELSE next' = 0 /\ main' = after

\* initialize_worker_runtime: socket to listen().  A failure closes what this
\* worker had open.
OpenListener ==
    /\ At("listen")
    /\ \/ fds' = [fds EXCEPT ![next] = {"listen"}] /\ main' = "epoll"
       \/ StepsMayFail /\ main' = "abort" /\ UNCHANGED fds
    /\ UNCHANGED <<next, setup, eventfd, readable, threads, interrupts, report, exit_code>>

\* epoll_create1, and the listener and the eventfd registered.
OpenEpoll ==
    /\ At("epoll")
    /\ \/ /\ fds' = [fds EXCEPT ![next] = {"listen", "epoll"}]
          /\ Advance("listen", "timer")
       \/ /\ StepsMayFail
          /\ fds' = [fds EXCEPT ![next] = {}]
          /\ main' = "abort"
          /\ UNCHANGED next
    /\ UNCHANGED <<setup, eventfd, readable, threads, interrupts, report, exit_code>>

\* A slip: the workers already initialised are left as they are.
AbandonStart ==
    /\ At("abort")
    /\ main' = "disarm"
    /\ exit_code' = 1
    /\ UNCHANGED <<next, setup, eventfd, readable, fds, threads, interrupts, report>>

\* A worker cannot start: those before it are shut down, and run_server fails.
AbortStart ==
    /\ At("abort")
    /\ fds' = [w \in Workers |-> IF w < next THEN {} ELSE fds[w]]
    /\ main' = "disarm"
    /\ exit_code' = 1
    /\ UNCHANGED <<next, setup, eventfd, readable, threads, interrupts, report>>

StartTimer ==
    /\ At("timer")
    /\ timer' = IF Benchmark /\ HasDuration THEN "started" ELSE "none"
    /\ main' = "spawn"
    /\ UNCHANGED <<next, setup, eventfd, readable, fds, worker, cancelled, interrupts, report, exit_code>>

SpawnWorker ==
    /\ At("spawn")
    /\ worker' = [worker EXCEPT ![next] = "loop"]
    /\ Advance("spawn", "join")
    /\ UNCHANGED <<setup, eventfd, readable, fds, timer, cancelled, interrupts, report, exit_code>>

-----------------------------------------------------------------------------
(***************************************************************************)
(* The worker threads.                                                     *)
(***************************************************************************)
\* process_ready_frames records a request.
RecordRequest(w) ==
    /\ worker[w] = "loop" /\ Running(w)
    /\ Benchmark
    /\ recorded < MaxRequests
    /\ recorded' = recorded + 1
    /\ UNCHANGED <<main, next, setup, eventfd, readable, fds, threads, interrupts,
                   printed, written, exit_code>>

\* flush_pending_write finds the limit reached.
ReachLimit(w) ==
    /\ worker[w] = "loop" /\ Running(w)
    /\ Benchmark /\ RequestLimit # 0 /\ recorded >= RequestLimit
    /\ readable' = (readable \/ eventfd = "open")
    /\ UNCHANGED <<main, next, setup, eventfd, fds, threads, interrupts, report, exit_code>>

\* flush_pending_write writes to a client that has hung up and reset (Connection has when):
\* SIGPIPE is neither handled nor ignored, and ends the process with all its threads.
BreakPipe(w) ==
    /\ worker[w] = "loop" /\ Running(w)
    /\ main' = "broken_pipe"
    /\ UNCHANGED <<next, setup, eventfd, readable, fds, threads, interrupts, report, exit_code>>

\* A slip: the eventfd is given to the epoll instance of the first worker only.
FirstSeesShutdown(w) ==
    /\ w = 0
    /\ worker[w] = "loop" /\ Running(w)
    /\ readable
    /\ worker' = [worker EXCEPT ![w] = "returned"]
    /\ UNCHANGED <<main, next, setup, eventfd, readable, fds, timer, cancelled, interrupts, report, exit_code>>

\* epoll_wait reports the shutdown fd: run_worker_loop returns 0.
SeeShutdown(w) ==
    /\ worker[w] = "loop" /\ Running(w)
    /\ readable
    /\ worker' = [worker EXCEPT ![w] = "returned"]
    /\ UNCHANGED <<main, next, setup, eventfd, readable, fds, timer, cancelled, interrupts, report, exit_code>>

\* The thread asks for a shutdown in its turn, and ends.
EndWorker(w) ==
    /\ worker[w] = "returned" /\ Running(w)
    /\ worker' = [worker EXCEPT ![w] = "exited"]
    /\ readable' = (readable \/ eventfd = "open")
    /\ UNCHANGED <<main, next, setup, eventfd, fds, timer, cancelled, interrupts, report, exit_code>>

-----------------------------------------------------------------------------
(***************************************************************************)
(* The timer thread: wait_for with its predicate.  The mutex is held from   *)
(* the look at benchmark_timer_cancelled to the wait, so each is one step;  *)
(* a spurious wakeup looks again and waits again.                          *)
(***************************************************************************)
TimerLooks ==
    /\ timer \in {"started", "notified"} /\ Running(TimerThread)
    /\ timer' = IF cancelled THEN "exited" ELSE "waiting"
    /\ UNCHANGED <<main, next, setup, eventfd, readable, fds, worker, cancelled,
                   interrupts, report, exit_code>>

\* A slip: what wait_for returns is read the wrong way round.
ExpiresAsCancelled ==
    /\ timer = "waiting" /\ Running(TimerThread)
    /\ timer' = IF cancelled THEN "expired" ELSE "exited"
    /\ UNCHANGED <<main, next, setup, eventfd, readable, fds, worker, cancelled,
                   interrupts, report, exit_code>>

TimerExpires ==
    /\ timer = "waiting" /\ Running(TimerThread)
    /\ timer' = IF cancelled THEN "exited" ELSE "expired"
    /\ UNCHANGED <<main, next, setup, eventfd, readable, fds, worker, cancelled,
                   interrupts, report, exit_code>>

TimerRequestsShutdown ==
    /\ timer = "expired" /\ Running(TimerThread)
    /\ timer' = "exited"
    /\ readable' = (readable \/ eventfd = "open")
    /\ UNCHANGED <<main, next, setup, eventfd, fds, worker, cancelled, interrupts, report, exit_code>>

-----------------------------------------------------------------------------
(***************************************************************************)
(* The main thread, from the joins to the end.                             *)
(***************************************************************************)
\* A slip: one worker's end is taken for the end of all.
JoinFirst ==
    /\ At("join")
    /\ worker[next] = "exited"
    /\ next' = 0
    /\ main' = "cancel"
    /\ UNCHANGED <<setup, eventfd, readable, fds, threads, interrupts, report, exit_code>>

JoinWorker ==
    /\ At("join")
    /\ worker[next] = "exited"
    /\ Advance("join", "cancel")
    /\ UNCHANGED <<setup, eventfd, readable, fds, threads, interrupts, report, exit_code>>

CancelTimer ==
    /\ At("cancel")
    /\ IF timer = "none" THEN main' = "shutdown" /\ UNCHANGED cancelled
                         ELSE main' = "notify" /\ cancelled' = TRUE
    /\ UNCHANGED <<next, setup, eventfd, readable, fds, worker, timer, interrupts, report, exit_code>>

\* A slip: the timer is told of the cancellation only if it looks by itself.
NotifyNobody ==
    /\ At("notify")
    /\ main' = "join_timer"
    /\ UNCHANGED <<next, setup, eventfd, readable, fds, threads, interrupts, report, exit_code>>

NotifyTimer ==
    /\ At("notify")
    /\ timer' = IF timer = "waiting" THEN "notified" ELSE timer
    /\ main' = "join_timer"
    /\ UNCHANGED <<next, setup, eventfd, readable, fds, worker, cancelled, interrupts, report, exit_code>>

JoinTimer ==
    /\ At("join_timer")
    /\ timer = "exited"
    /\ main' = "shutdown"
    /\ UNCHANGED <<next, setup, eventfd, readable, fds, threads, interrupts, report, exit_code>>

ShutdownRuntimes ==
    /\ At("shutdown")
    /\ fds' = [w \in Workers |-> {}]
    /\ main' = IF Benchmark THEN "print" ELSE "disarm"
    /\ UNCHANGED <<next, setup, eventfd, readable, threads, interrupts, report, exit_code>>

\* The summary is made twice, once for the console and once for the JSON file.
PrintSummary ==
    /\ At("print")
    /\ printed' = recorded
    /\ main' = "write"
    /\ UNCHANGED <<next, setup, eventfd, readable, fds, threads, interrupts, recorded, written, exit_code>>

WriteJson ==
    /\ At("write")
    /\ \/ written' = recorded
       \/ UNCHANGED written      \* no --benchmark-json, or the file cannot be opened
    /\ main' = "disarm"
    /\ UNCHANGED <<next, setup, eventfd, readable, fds, threads, interrupts, recorded, printed, exit_code>>

\* A slip: the eventfd is closed with the handler still pointed at it.
LeaveArmed ==
    /\ At("disarm")
    /\ main' = "close"
    /\ UNCHANGED <<next, setup, eventfd, readable, fds, threads, interrupts, report, exit_code>>

DisarmHandler ==
    /\ At("disarm")
    /\ g_shutdown_event_fd' = "none"
    /\ main' = "close"
    /\ UNCHANGED <<next, disposition, eventfd, readable, fds, threads, interrupts, report, exit_code>>

CloseEventFd ==
    /\ At("close")
    /\ eventfd' = "closed"
    /\ main' = "restore"
    /\ UNCHANGED <<next, setup, readable, fds, threads, interrupts, report, exit_code>>

\* ~SignalHandlerScope, one sigaction() at a time; it does nothing when the
\* handlers were not installed.  The fd it restores is the "none" already there.
RestoreHandlers ==
    /\ At("restore")
    /\ IF \E s \in Signals : disposition[s] = "handler"
       THEN /\ main' = "restore"
            /\ disposition' = IF disposition["SIGINT"] = "handler"
                              THEN [disposition EXCEPT !["SIGINT"] = "default"]
                              ELSE [disposition EXCEPT !["SIGTERM"] = "default"]
       ELSE main' = "done" /\ UNCHANGED disposition
    /\ UNCHANGED <<next, g_shutdown_event_fd, eventfd, readable, fds, threads,
                   interrupts, report, exit_code>>

-----------------------------------------------------------------------------
Init ==
    /\ main = "eventfd"
    /\ next = 0
    /\ disposition = [s \in Signals |-> "default"]
    /\ g_shutdown_event_fd = "none"
    /\ eventfd = "none"
    /\ readable = FALSE
    /\ fds = [w \in Workers |-> {}]
    /\ worker = [w \in Workers |-> "none"]
    /\ timer = "none"
    /\ cancelled = FALSE
    /\ handler = [t \in Threads |-> "idle"]
    /\ signals = 0
    /\ recorded = 0
    /\ printed = NotPrinted
    /\ written = NotPrinted
    /\ exit_code = 0

Main ==
    \/ CreateEventFd \/ PublishEventFd \/ InstallHandlers
    \/ OpenListener \/ OpenEpoll \/ AbortStart
    \/ StartTimer \/ SpawnWorker \/ JoinWorker
    \/ CancelTimer \/ NotifyTimer \/ JoinTimer
    \/ ShutdownRuntimes \/ PrintSummary \/ WriteJson
    \/ DisarmHandler \/ CloseEventFd \/ RestoreHandlers

Handle(t) == HandlerChecks(t) \/ HandlerWrites(t)
Stop(w) == SeeShutdown(w) \/ EndWorker(w)
TimerStep == TimerLooks \/ TimerRequestsShutdown

Next ==
    \/ Main
    \/ \E t \in Threads : Deliver(t) \/ Handle(t)
    \/ \E w \in Workers : RecordRequest(w) \/ ReachLimit(w) \/ BreakPipe(w) \/ Stop(w)
    \/ TimerStep \/ TimerExpires

Spec == Init /\ [][Next]_vars

\* Every thread is scheduled.  Requests, signals, broken pipes and the end of the
\* benchmark's duration come or do not come.
Fairness ==
    /\ WF_vars(Main)
    /\ \A t \in Threads : WF_vars(Handle(t))
    /\ \A w \in Workers : WF_vars(Stop(w))
    /\ WF_vars(TimerStep)

FairSpec == Spec /\ Fairness

-----------------------------------------------------------------------------
(***************************************************************************)
(* What must hold.                                                         *)
(***************************************************************************)
\* The type of every variable.
TypeOK ==
    /\ main \in {"eventfd", "install", "sigint", "sigterm", "listen", "epoll", "abort",
                 "timer", "spawn", "join", "cancel", "notify", "join_timer", "shutdown",
                 "print", "write", "disarm", "close", "restore"} \cup Ended
    /\ next \in Workers
    /\ disposition \in [Signals -> {"default", "handler"}]
    /\ g_shutdown_event_fd \in {"none", "eventfd"}
    /\ eventfd \in {"none", "open", "closed"}
    /\ readable \in BOOLEAN
    /\ fds \in [Workers -> SUBSET {"listen", "epoll"}]
    /\ worker \in [Workers -> {"none", "loop", "returned", "exited"}]
    /\ timer \in {"none", "started", "waiting", "notified", "expired", "exited"}
    /\ cancelled \in BOOLEAN
    /\ handler \in [Threads -> {"idle", "entered", "writing"}]
    /\ signals \in 0 .. MaxSignals
    /\ recorded \in 0 .. MaxRequests
    /\ printed \in {NotPrinted} \cup 0 .. MaxRequests
    /\ written \in {NotPrinted} \cup 0 .. MaxRequests
    /\ exit_code \in {0, 1}

\* Whoever may write the shutdown eventfd (a worker, the timer, the handler on
\* any thread) does so while it is open: closed, its number may be another file's.
EventFdOutlivesWriters ==
    \/ eventfd = "open"
    \/ /\ \A w \in Workers : worker[w] \notin {"loop", "returned"}
       /\ timer \in {"none", "exited"}
       /\ \A t \in Threads : handler[t] # "writing"

\* A worker in its loop has its listener and its epoll instance, and a signal
\* finds the handler in place and pointed at the eventfd.
WorkersServeSafely ==
    \A w \in Workers : worker[w] = "loop" =>
        /\ fds[w] = {"listen", "epoll"}
        /\ g_shutdown_event_fd = "eventfd"
        /\ \A s \in Signals : disposition[s] = "handler"

\* However run_server ends, after any failure of its start too, it leaves no fd
\* open, no thread running and no handler behind.
NothingLeftBehind ==
    main = "done" =>
        /\ eventfd # "open"
        /\ g_shutdown_event_fd = "none"
        /\ \A w \in Workers : fds[w] = {} /\ worker[w] \in {"none", "exited"}
        /\ timer \in {"none", "exited"}
        /\ \A s \in Signals : disposition[s] = "default"

\* The benchmark's two reports are of the same requests, all that were recorded.
ReportIsFinal ==
    /\ printed # NotPrinted => printed = recorded
    /\ written # NotPrinted => written = printed

\* run_server has the Lifecycle: it starts whole or fails, serves until it is asked not to,
\* and reports when all have ended.  SIGINT and SIGTERM never cut the service short; a
\* broken pipe may.
Life == INSTANCE Lifecycle WITH
    Reports <- Benchmark,
    work <- [w \in Workers |-> CASE worker[w] = "none" -> "idle"
                                [] worker[w] = "loop" -> "serving"
                                [] OTHER -> "ended"],
    asked <- readable,
    report <- printed,
    outcome <- CASE main \in Dead -> main
                 [] main = "done" -> IF exit_code = 0 THEN "success" ELSE "failure"
                 [] OTHER -> "none"
ImplementsLifecycle == Life!Spec

\* A signal the handler takes, on any thread and at any time from the first
\* sigaction() on, ends the engine; the timer thread does not hold it up.
SignalEndsServer == \A t \in Threads : handler[t] = "entered" ~> main \in Ended

\* Once one worker has returned, or found the limit reached, every worker
\* returns and run_server ends.
ShutdownReachesAll == readable ~> main \in Ended

\* A benchmark with a duration ends by itself, when the duration does come to its end.
DurationEndsServer == WF_vars(TimerExpires) => (timer = "waiting" ~> main \in Ended)
=============================================================================
