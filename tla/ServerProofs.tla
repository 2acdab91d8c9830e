---------------------------- MODULE ServerProofs ----------------------------
(***************************************************************************)
(* Proofs about Server, for any number of workers.  Where the main thread   *)
(* is in run_server determines what is open, installed and running; Places  *)
(* says how, and is inductive.  The checked invariants follow from it, and   *)
(* with ExitPlaces the refinement of Lifecycle.                             *)
(***************************************************************************)
EXTENDS Server, TLAPS

\* Stretches of run_server.
Starting == {"eventfd", "install", "sigint", "sigterm", "listen", "epoll", "abort", "timer"}
Joined   == {"cancel", "notify", "join_timer", "shutdown", "print", "write"}
Leaving  == {"disarm", "close", "restore", "done"}
Opened   == {"install", "sigint", "sigterm", "listen", "epoll", "abort", "timer",
             "spawn", "join", "disarm", "close"} \cup Joined
Armed    == Opened \ {"install", "close"}

\* The eventfd is open from its creation to its close.
EventFdPlaces ==
    /\ main = "eventfd" => eventfd = "none"
    /\ main \in Opened => eventfd = "open"
    /\ main \in {"restore", "done"} => eventfd # "open"

\* The handler's fd is set before the first handler is installed, and cleared
\* before the eventfd is closed; the handlers go last.
SetupPlaces ==
    /\ main \in Armed => g_shutdown_event_fd = "eventfd"
    /\ main \notin Armed \cup Dead => g_shutdown_event_fd = "none"
    /\ main \in {"eventfd", "install", "sigint", "done"} =>
          \A s \in Signals : disposition[s] = "default"
    /\ main = "sigterm" => disposition["SIGINT"] = "handler"
    /\ main \in Armed \ {"sigint", "sigterm"} =>
          \A s \in Signals : disposition[s] = "handler"

\* No worker runs before it is spawned or after it is joined, nor does the timer.
ThreadPlaces ==
    /\ main \in Starting => timer = "none" /\ \A w \in Workers : worker[w] = "none"
    /\ main = "spawn" => \A w \in Workers : w >= next => worker[w] = "none"
    /\ main = "join" => \A w \in Workers : w < next => worker[w] = "exited"
    /\ main \in Joined => \A w \in Workers : worker[w] = "exited"
    /\ main \in {"shutdown", "print", "write"} => timer \in {"none", "exited"}
    /\ main \in Leaving => /\ timer \in {"none", "exited"}
                           /\ \A w \in Workers : worker[w] \in {"none", "exited"}

\* The loop that opens the workers' fds has done those before next.
FdPlaces ==
    /\ main \in {"eventfd", "install", "sigint", "sigterm"} => next = 0
    /\ main \in {"eventfd", "install", "sigint", "sigterm", "print", "write"} \cup Leaving =>
          \A w \in Workers : fds[w] = {}
    /\ main \in {"listen", "epoll"} =>
          \A w \in Workers : w < next => fds[w] = {"listen", "epoll"}
    /\ main \in {"listen", "abort"} => \A w \in Workers : w >= next => fds[w] = {}
    /\ main = "epoll" => \A w \in Workers : w > next => fds[w] = {}
    /\ main \in {"timer", "spawn", "join"} =>
          \A w \in Workers : fds[w] = {"listen", "epoll"}

\* The reports are made after the joins, the console's first.
ReportPlaces ==
    /\ main \in Starting \cup {"spawn", "join"} \cup (Joined \ {"write"}) =>
          printed = NotPrinted /\ written = NotPrinted
    /\ main = "write" => printed # NotPrinted /\ written = NotPrinted
    /\ printed # NotPrinted => \A w \in Workers : worker[w] # "loop"
    /\ written # NotPrinted => printed # NotPrinted

\* A handler runs on a thread that exists.
HandlerOwners ==
    /\ \A w \in Workers : handler[w] # "idle" => worker[w] \in {"loop", "returned"}
    /\ handler[TimerThread] # "idle" => timer \notin {"none", "exited"}
    /\ handler[MainThread] = "writing" => eventfd = "open"

\* What holds at each place of run_server.
Places == /\ TypeOK
          /\ EventFdPlaces
          /\ SetupPlaces
          /\ ThreadPlaces
          /\ FdPlaces
          /\ ReportPlaces
          /\ HandlerOwners

\* The inductive invariant.
IInv == Places /\ EventFdOutlivesWriters /\ WorkersServeSafely /\ ReportIsFinal

-----------------------------------------------------------------------------
\* The indices of workers and the ids of the other threads are different numbers.
LEMMA ThreadIds ==
    /\ MainThread \in Threads /\ TimerThread \in Threads /\ Workers \subseteq Threads
    /\ MainThread \notin Workers /\ TimerThread \notin Workers /\ MainThread # TimerThread
    /\ \A w \in Workers : w \in Int /\ 0 <= w /\ w < WorkerCount
    /\ 0 \in Workers /\ WorkerCount \in Nat
    /\ \A t \in Threads : t \in Workers \/ t = MainThread \/ t = TimerThread
BY ServerAssumption DEF MainThread, TimerThread, Threads, Workers

\* The initial state: nothing is open, installed or running.
LEMMA InitIInv == Init => IInv
<1> SUFFICES ASSUME Init PROVE IInv
  OBVIOUS
<1>1. TypeOK
  <2>1. handler \in [Threads -> {"idle", "entered", "writing"}]
    BY DEF Init
  <2>2. recorded \in 0 .. MaxRequests /\ signals \in 0 .. MaxSignals
    BY ServerAssumption DEF Init
  <2>3. next \in Workers
    BY ThreadIds DEF Init
  <2> QED
    BY <2>1, <2>2, <2>3 DEF Init, TypeOK, Ended
<1>2. EventFdPlaces /\ SetupPlaces
  BY DEF Init, EventFdPlaces, SetupPlaces, Joined, Opened, Armed, Dead
<1>3. ThreadPlaces
  BY DEF Init, ThreadPlaces, Starting, Joined, Leaving
<1>4. FdPlaces
  BY DEF Init, FdPlaces
<1>5. ReportPlaces /\ HandlerOwners
  BY ThreadIds DEF Init, ReportPlaces, HandlerOwners
<1>6. EventFdOutlivesWriters /\ WorkersServeSafely /\ ReportIsFinal
  BY DEF Init, EventFdOutlivesWriters, WorkersServeSafely, ReportIsFinal
<1> QED
  BY <1>1, <1>2, <1>3, <1>4, <1>5, <1>6 DEF IInv, Places

\* Advance leaves the loop's index a worker's, and says which worker it was.
LEMMA AdvanceSteps ==
  ASSUME NEW here, NEW after, next \in Workers, Advance(here, after)
  PROVE  /\ next' \in Workers
         /\ \/ main' = here /\ next' = next + 1
            \/ main' = after /\ next' = 0 /\ next = WorkerCount - 1
BY ServerAssumption DEF Advance, Workers

\* Every step keeps the types.
LEMMA TypeStep == TypeOK /\ [Next]_vars => TypeOK'
<1> SUFFICES ASSUME TypeOK, [Next]_vars PROVE TypeOK'
  OBVIOUS
<1> USE DEF TypeOK
<1>1. CASE CreateEventFd
  BY <1>1 DEF CreateEventFd, At, Ended, setup, threads, interrupts, report
<1>2. CASE PublishEventFd
  BY <1>2 DEF PublishEventFd, At, threads, interrupts, report
<1>3. CASE InstallHandlers
  BY <1>3 DEF InstallHandlers, Install, At, Signals, threads, interrupts, report
<1>4. CASE OpenListener
  BY <1>4 DEF OpenListener, At, setup, threads, interrupts, report
<1>5. CASE OpenEpoll
  BY <1>5, AdvanceSteps DEF OpenEpoll, At, setup, threads, interrupts, report
<1>6. CASE AbortStart
  BY <1>6 DEF AbortStart, At, setup, threads, interrupts, report
<1>7. CASE StartTimer
  BY <1>7 DEF StartTimer, At, setup, interrupts, report
<1>8. CASE SpawnWorker
  BY <1>8, AdvanceSteps DEF SpawnWorker, At, setup, interrupts, report
<1>9. CASE JoinWorker
  BY <1>9, AdvanceSteps DEF JoinWorker, At, setup, threads, interrupts, report
<1>10. CASE CancelTimer
  <2>1. /\ main' \in {"shutdown", "notify"}
        /\ cancelled' \in BOOLEAN
    BY <1>10 DEF CancelTimer
  <2> QED
    BY <1>10, <2>1 DEF CancelTimer, setup, interrupts, report
<1>11. CASE NotifyTimer
  BY <1>11 DEF NotifyTimer, At, setup, interrupts, report
<1>12. CASE JoinTimer
  BY <1>12 DEF JoinTimer, At, setup, threads, interrupts, report
<1>13. CASE ShutdownRuntimes
  BY <1>13 DEF ShutdownRuntimes, At, setup, threads, interrupts, report
<1>14. CASE PrintSummary
  BY <1>14 DEF PrintSummary, At, setup, threads, interrupts
<1>15. CASE WriteJson
  BY <1>15 DEF WriteJson, At, setup, threads, interrupts
<1>16. CASE DisarmHandler
  BY <1>16 DEF DisarmHandler, At, threads, interrupts, report
<1>17. CASE CloseEventFd
  BY <1>17 DEF CloseEventFd, At, setup, threads, interrupts, report
<1>18. CASE RestoreHandlers
  BY <1>18 DEF RestoreHandlers, At, Ended, Signals, threads, interrupts, report
<1>19. ASSUME NEW t \in Threads, Deliver(t) PROVE TypeOK'
  BY <1>19, ServerAssumption DEF Deliver, Ended, Dead, setup, threads, report
<1>20. ASSUME NEW t \in Threads, Handle(t) PROVE TypeOK'
  <2>1. handler' \in [Threads -> {"idle", "entered", "writing"}]
    BY <1>20 DEF Handle, HandlerChecks, HandlerWrites
  <2>2. readable' \in BOOLEAN
    BY <1>20, Zenon DEF Handle, HandlerChecks, HandlerWrites
  <2> QED
    BY <1>20, <2>1, <2>2 DEF Handle, HandlerChecks, HandlerWrites, setup, threads, report
<1>21. ASSUME NEW w \in Workers, RecordRequest(w) PROVE TypeOK'
  BY <1>21, ServerAssumption DEF RecordRequest, setup, threads, interrupts
<1>22. ASSUME NEW w \in Workers, ReachLimit(w) \/ Stop(w) PROVE TypeOK'
  <2>1. worker' \in [Workers -> {"none", "loop", "returned", "exited"}]
    BY <1>22 DEF ReachLimit, Stop, SeeShutdown, EndWorker, threads
  <2>2. readable' \in BOOLEAN
    BY <1>22, Zenon DEF ReachLimit, Stop, SeeShutdown, EndWorker
  <2> QED
    BY <1>22, <2>1, <2>2 DEF ReachLimit, Stop, SeeShutdown, EndWorker, setup, threads,
                             interrupts, report
<1>23. CASE TimerStep \/ TimerExpires
  BY <1>23 DEF TimerStep, TimerLooks, TimerRequestsShutdown, TimerExpires, setup,
               interrupts, report
<1>24. ASSUME NEW w \in Workers, BreakPipe(w) PROVE TypeOK'
  BY <1>24 DEF BreakPipe, Ended, Dead, setup, threads, interrupts, report
<1>25. CASE UNCHANGED vars
  BY <1>25 DEF vars, setup, threads, interrupts, report
<1> QED
  BY <1>1, <1>2, <1>3, <1>4, <1>5, <1>6, <1>7, <1>8, <1>9, <1>10, <1>11, <1>12, <1>13,
     <1>14, <1>15, <1>16, <1>17, <1>18, <1>19, <1>20, <1>21, <1>22, <1>23, <1>24, <1>25
     DEF Next, Main

-----------------------------------------------------------------------------
\* The steps of the other threads and of the handler: they open, install and report
\* nothing, no thread starts by them, and none of one that has ended takes any.
OtherStep == \/ \E t \in Threads : Deliver(t) \/ Handle(t)
             \/ \E w \in Workers : RecordRequest(w) \/ ReachLimit(w) \/ BreakPipe(w) \/ Stop(w)
             \/ TimerStep \/ TimerExpires
             \/ UNCHANGED vars

\* What they leave alone: all of what the main thread sets up, and threads that
\* have not started or have ended.
LEMMA OtherStepFrame ==
  ASSUME TypeOK, OtherStep
  PROVE  /\ UNCHANGED <<next, setup, eventfd, fds, printed, written>>
         /\ main' = main \/ main' \in Dead
         /\ \A w \in Workers : worker[w] \in {"none", "exited"} => worker'[w] = worker[w]
         /\ \A w \in Workers : worker'[w] = "loop" => worker[w] = "loop"
         /\ timer \in {"none", "exited"} => timer' = timer
<1> USE DEF TypeOK, setup, threads, interrupts, report
<1>1. ASSUME NEW t \in Threads, Deliver(t) \/ Handle(t)
      PROVE  /\ UNCHANGED <<next, setup, eventfd, fds, printed, written, worker, timer>>
             /\ main' = main \/ main' \in Dead
  BY <1>1 DEF Deliver, Handle, HandlerChecks, HandlerWrites, Dead
<1>2. ASSUME NEW w \in Workers, RecordRequest(w) \/ ReachLimit(w)
      PROVE  UNCHANGED <<main, next, setup, eventfd, fds, printed, written, worker, timer>>
  BY <1>2 DEF RecordRequest, ReachLimit
<1>3. ASSUME NEW w \in Workers, Stop(w)
      PROVE  /\ UNCHANGED <<main, next, setup, eventfd, fds, printed, written, timer>>
             /\ \A v \in Workers : worker[v] \in {"none", "exited"} => worker'[v] = worker[v]
             /\ \A v \in Workers : worker'[v] = "loop" => worker[v] = "loop"
  BY <1>3 DEF Stop, SeeShutdown, EndWorker
<1>4. ASSUME TimerStep \/ TimerExpires
      PROVE  /\ UNCHANGED <<main, next, setup, eventfd, fds, printed, written, worker>>
             /\ timer \notin {"none", "exited"}
  BY <1>4 DEF TimerStep, TimerLooks, TimerRequestsShutdown, TimerExpires
<1>5. ASSUME NEW w \in Workers, BreakPipe(w)
      PROVE  /\ UNCHANGED <<next, setup, eventfd, fds, printed, written, worker, timer>>
             /\ main' \in Dead
  BY <1>5 DEF BreakPipe, Dead
<1>6. CASE UNCHANGED vars
  BY <1>6 DEF vars
<1> QED
  BY <1>1, <1>2, <1>3, <1>4, <1>5, <1>6 DEF OtherStep

\* ... so what Places says of them stays true; a dead process is in none of
\* the places.
LEMMA OtherStepPlaces ==
  ASSUME Places, OtherStep
  PROVE  EventFdPlaces' /\ SetupPlaces' /\ ThreadPlaces' /\ FdPlaces' /\ ReportPlaces'
<1> USE OtherStepFrame DEF Places
<1>1. EventFdPlaces' /\ SetupPlaces'
  BY DEF EventFdPlaces, SetupPlaces, Opened, Armed, Joined, Dead, setup
<1>2. ThreadPlaces'
  BY DEF ThreadPlaces, Starting, Joined, Leaving, Dead
<1>3. FdPlaces'
  BY DEF FdPlaces, Leaving, Dead
<1>4. ReportPlaces'
  BY DEF ReportPlaces, Starting, Joined, Dead
<1> QED
  BY <1>1, <1>2, <1>3, <1>4

\* A handler runs to its end on the thread that took the signal: the thread's own
\* steps wait for it.
LEMMA OtherStepOwners ==
  ASSUME Places, OtherStep
  PROVE  HandlerOwners'
<1> USE ThreadIds DEF Places, TypeOK, HandlerOwners
<1>1. ASSUME NEW t \in Threads, Deliver(t) PROVE HandlerOwners'
  BY <1>1 DEF Deliver, Alive, threads
<1>2. ASSUME NEW t \in Threads, HandlerChecks(t) PROVE HandlerOwners'
  <2>1. handler'[t] = "writing" => eventfd = "open"
    BY <1>2 DEF HandlerChecks, EventFdPlaces, SetupPlaces, Armed
  <2> QED
    BY <1>2, <2>1 DEF HandlerChecks, threads
<1>3. ASSUME NEW t \in Threads, HandlerWrites(t) PROVE HandlerOwners'
  BY <1>3 DEF HandlerWrites, threads
<1>4. ASSUME NEW w \in Workers, RecordRequest(w) \/ ReachLimit(w) \/ BreakPipe(w)
      PROVE  HandlerOwners'
  BY <1>4 DEF RecordRequest, ReachLimit, BreakPipe, threads, interrupts
<1>5. ASSUME NEW w \in Workers, Stop(w) PROVE HandlerOwners'
  BY <1>5 DEF Stop, SeeShutdown, EndWorker, Running, interrupts
<1>6. CASE TimerStep \/ TimerExpires
  BY <1>6 DEF TimerStep, TimerLooks, TimerRequestsShutdown, TimerExpires, Running, interrupts
<1>7. CASE UNCHANGED vars
  BY <1>7 DEF vars, threads, interrupts
<1> QED
  BY <1>1, <1>2, <1>3, <1>4, <1>5, <1>6, <1>7 DEF OtherStep, Handle

-----------------------------------------------------------------------------
\* The main thread's steps keep what Places says of where it is.  First those
\* up to the handlers' installation, any of which may fail and leave run_server.
LEMMA StartPlaces ==
  ASSUME Places,
         CreateEventFd \/ PublishEventFd \/ InstallHandlers
  PROVE  EventFdPlaces' /\ SetupPlaces' /\ ThreadPlaces' /\ FdPlaces' /\ ReportPlaces'
<1> USE DEF Places, TypeOK, At, EventFdPlaces, SetupPlaces, ThreadPlaces, FdPlaces,
            ReportPlaces, Starting, Joined, Leaving, Opened, Armed, Dead, setup, threads, report
<1>1. CASE CreateEventFd
  BY <1>1 DEF CreateEventFd
<1>2. CASE PublishEventFd
  BY <1>2, ThreadIds DEF PublishEventFd
<1>3. CASE InstallHandlers
  BY <1>3, ThreadIds DEF InstallHandlers, Install, Signals
<1> QED
  BY <1>1, <1>2, <1>3

\* Then those that open each worker's fds, or close them all again, and start the
\* timer.
LEMMA OpenPlaces ==
  ASSUME Places,
         OpenListener \/ OpenEpoll \/ AbortStart \/ StartTimer
  PROVE  EventFdPlaces' /\ SetupPlaces' /\ ThreadPlaces' /\ FdPlaces' /\ ReportPlaces'
<1> USE ThreadIds
    DEF Places, TypeOK, At, EventFdPlaces, SetupPlaces, ThreadPlaces, FdPlaces,
            ReportPlaces, Starting, Joined, Leaving, Opened, Armed, Dead, setup, threads, report
<1>1. CASE OpenListener
  BY <1>1 DEF OpenListener
<1>2. CASE OpenEpoll
  BY <1>2, AdvanceSteps DEF OpenEpoll
<1>3. CASE AbortStart
  BY <1>3 DEF AbortStart
<1>4. CASE StartTimer
  BY <1>4 DEF StartTimer
<1> QED
  BY <1>1, <1>2, <1>3, <1>4

\* Those that start the workers and wait for their end, and the timer's.
LEMMA RunPlaces ==
  ASSUME Places,
         \/ SpawnWorker \/ JoinWorker \/ CancelTimer \/ NotifyTimer \/ JoinTimer
  PROVE  EventFdPlaces' /\ SetupPlaces' /\ ThreadPlaces' /\ FdPlaces' /\ ReportPlaces'
<1> USE ThreadIds
    DEF Places, TypeOK, At, EventFdPlaces, SetupPlaces, ThreadPlaces, FdPlaces,
            ReportPlaces, Starting, Joined, Leaving, Opened, Armed, Dead, setup, threads, report
<1>1. CASE SpawnWorker
  BY <1>1, AdvanceSteps DEF SpawnWorker
<1>2. CASE JoinWorker
  BY <1>2, AdvanceSteps DEF JoinWorker
<1>3. CASE CancelTimer
  BY <1>3 DEF CancelTimer
<1>4. CASE NotifyTimer
  BY <1>4 DEF NotifyTimer
<1>5. CASE JoinTimer
  BY <1>5 DEF JoinTimer
<1> QED
  BY <1>1, <1>2, <1>3, <1>4, <1>5

\* And those that follow: the reports, and run_server's way out.
LEMMA EndPlaces ==
  ASSUME Places,
         \/ ShutdownRuntimes \/ PrintSummary \/ WriteJson
         \/ DisarmHandler \/ CloseEventFd \/ RestoreHandlers
  PROVE  EventFdPlaces' /\ SetupPlaces' /\ ThreadPlaces' /\ FdPlaces' /\ ReportPlaces'
<1> USE DEF Places, TypeOK, At, EventFdPlaces, SetupPlaces, ThreadPlaces, FdPlaces,
            ReportPlaces, Starting, Joined, Leaving, Opened, Armed, Dead, setup, threads, report
<1>1. CASE ShutdownRuntimes
  BY <1>1 DEF ShutdownRuntimes
<1>2. CASE PrintSummary
  BY <1>2 DEF PrintSummary, NotPrinted
<1>3. CASE WriteJson
  BY <1>3 DEF WriteJson
<1>4. CASE DisarmHandler
  BY <1>4 DEF DisarmHandler
<1>5. CASE CloseEventFd
  BY <1>5 DEF CloseEventFd
<1>6. CASE RestoreHandlers
  BY <1>6 DEF RestoreHandlers, Signals
<1> QED
  BY <1>1, <1>2, <1>3, <1>4, <1>5, <1>6

\* A handler still on the main thread keeps it from closing the eventfd.
LEMMA MainOwners ==
  ASSUME Places, Main
  PROVE  HandlerOwners'
<1> USE ThreadIds DEF Places, TypeOK, HandlerOwners, At, setup, threads, interrupts, report
<1>1. CASE CreateEventFd \/ PublishEventFd \/ InstallHandlers
  BY <1>1 DEF CreateEventFd, PublishEventFd, InstallHandlers, Install
<1>2. CASE OpenListener \/ OpenEpoll \/ AbortStart
  BY <1>2 DEF OpenListener, OpenEpoll, AbortStart
<1>3. CASE StartTimer
  BY <1>3 DEF StartTimer, ThreadPlaces, Starting
<1>4. CASE SpawnWorker
  BY <1>4 DEF SpawnWorker, ThreadPlaces
<1>5. CASE JoinWorker \/ CancelTimer \/ JoinTimer
  BY <1>5 DEF JoinWorker, CancelTimer, JoinTimer
<1>6. CASE NotifyTimer
  BY <1>6 DEF NotifyTimer
<1>7. CASE ShutdownRuntimes \/ PrintSummary \/ WriteJson \/ DisarmHandler \/ RestoreHandlers
  BY <1>7 DEF ShutdownRuntimes, PrintSummary, WriteJson, DisarmHandler, RestoreHandlers
<1>8. CASE CloseEventFd
  BY <1>8 DEF CloseEventFd, Running
<1> QED
  BY <1>1, <1>2, <1>3, <1>4, <1>5, <1>6, <1>7, <1>8 DEF Main

\* Places is inductive.
LEMMA PlacesStep == Places /\ [Next]_vars => Places'
<1> SUFFICES ASSUME Places, [Next]_vars PROVE Places'
  OBVIOUS
<1>1. TypeOK'
  BY TypeStep DEF Places
<1>2. CASE Main
  <2>1. EventFdPlaces' /\ SetupPlaces' /\ ThreadPlaces' /\ FdPlaces' /\ ReportPlaces'
    BY <1>2, StartPlaces, OpenPlaces, RunPlaces, EndPlaces DEF Main
  <2> QED
    BY <1>1, <1>2, <2>1, MainOwners DEF Places
<1>3. CASE OtherStep
  BY <1>1, <1>3, OtherStepPlaces, OtherStepOwners DEF Places
<1> QED
  BY <1>2, <1>3 DEF Next, OtherStep

Living == main \notin Dead

\* While the process lives, where the main thread is tells whether the eventfd is
\* open: when it is not, no thread and no handler is there to write it.
LEMMA PlacesKeepEventFd == Places /\ Living => EventFdOutlivesWriters
<1> SUFFICES ASSUME Places, Living, eventfd # "open"
             PROVE  EventFdOutlivesWriters
  BY DEF EventFdOutlivesWriters
<1>1. main \in {"eventfd", "restore", "done"}
  BY DEF Living, Places, TypeOK, EventFdPlaces, Opened, Joined, Ended
<1>2. /\ \A w \in Workers : worker[w] \in {"none", "exited"}
      /\ timer \in {"none", "exited"}
  BY <1>1 DEF Places, ThreadPlaces, Starting, Leaving
<1>3. \A t \in Threads : handler[t] # "writing"
  BY <1>2, ThreadIds DEF Places, HandlerOwners
<1> QED
  BY <1>2, <1>3 DEF EventFdOutlivesWriters

\* ... and a worker can only be in its loop while it has all it serves with.
LEMMA PlacesKeepWorkers == Places /\ Living => WorkersServeSafely
<1> SUFFICES ASSUME Places, Living,
                    NEW w \in Workers, worker[w] = "loop"
             PROVE  /\ fds[w] = {"listen", "epoll"}
                    /\ g_shutdown_event_fd = "eventfd"
                    /\ \A s \in Signals : disposition[s] = "handler"
  BY DEF WorkersServeSafely
<1>1. main \in {"spawn", "join"}
  BY DEF Living, Places, TypeOK, ThreadPlaces, Starting, Joined, Leaving, Ended
<1> QED
  BY <1>1 DEF Places, FdPlaces, SetupPlaces, Armed, Opened

\* What the main thread does it does alive, so only a signal (SIGPIPE is one) ends the
\* process, and then everything stays as it is.
LEMMA DeadStep ==
  ASSUME Places, [Next]_vars, main' \in Dead
  PROVE  UNCHANGED <<eventfd, setup, fds, worker, timer, handler>>
<1> USE DEF Dead, setup, threads, interrupts
<1>1. ~ Main
  <2>1. ~ (CreateEventFd \/ PublishEventFd \/ InstallHandlers)
    BY DEF CreateEventFd, PublishEventFd, InstallHandlers, Install
  <2>2. ~ (OpenListener \/ OpenEpoll \/ AbortStart \/ StartTimer \/ SpawnWorker)
    BY DEF OpenListener, OpenEpoll, AbortStart, StartTimer, SpawnWorker, Advance
  <2>3. ~ (JoinWorker \/ CancelTimer \/ NotifyTimer \/ JoinTimer \/ ShutdownRuntimes)
    BY DEF JoinWorker, CancelTimer, NotifyTimer, JoinTimer, ShutdownRuntimes, Advance
  <2>4. ~ (PrintSummary \/ WriteJson \/ DisarmHandler \/ CloseEventFd \/ RestoreHandlers)
    BY DEF PrintSummary, WriteJson, DisarmHandler, CloseEventFd, RestoreHandlers
  <2> QED
    BY <2>1, <2>2, <2>3, <2>4 DEF Main
<1>2. ASSUME NEW t \in Threads, Deliver(t)
      PROVE  UNCHANGED <<eventfd, setup, fds, worker, timer, handler>>
  BY <1>2 DEF Deliver, Ended
<1>3. ASSUME NEW t \in Threads PROVE ~ Handle(t)
  BY DEF Handle, HandlerChecks, HandlerWrites
<1>4. ASSUME NEW w \in Workers PROVE ~ (RecordRequest(w) \/ ReachLimit(w) \/ Stop(w))
  BY DEF RecordRequest, ReachLimit, Stop, SeeShutdown, EndWorker, Running
<1>5. ~ (TimerStep \/ TimerExpires)
  BY DEF TimerStep, TimerLooks, TimerRequestsShutdown, TimerExpires, Running
<1>6. ASSUME NEW w \in Workers, BreakPipe(w)
      PROVE  UNCHANGED <<eventfd, setup, fds, worker, timer, handler>>
  BY <1>6 DEF BreakPipe
<1>7. CASE UNCHANGED vars
  BY <1>7 DEF vars
<1> QED
  BY <1>1, <1>2, <1>3, <1>4, <1>5, <1>6, <1>7 DEF Next

\* A request is recorded by a worker in its loop; when the summary is printed no
\* worker is in it.
LEMMA ReportStep == Places /\ ReportIsFinal /\ [Next]_vars => ReportIsFinal'
<1> SUFFICES ASSUME Places, ReportIsFinal, [Next]_vars PROVE ReportIsFinal'
  OBVIOUS
<1> USE DEF ReportIsFinal, report
<1>1. CASE PrintSummary
  BY <1>1 DEF PrintSummary, At, Places, ReportPlaces, Joined
<1>2. CASE WriteJson
  BY <1>2 DEF WriteJson, At, Places, ReportPlaces
<1>3. ASSUME NEW w \in Workers, RecordRequest(w) PROVE ReportIsFinal'
  BY <1>3 DEF RecordRequest, Places, ReportPlaces
<1>4. CASE UNCHANGED <<recorded, printed, written>>
  BY <1>4
<1>5. ASSUME Main, ~ PrintSummary, ~ WriteJson
      PROVE  UNCHANGED <<recorded, printed, written>>
  BY <1>5 DEF Main, CreateEventFd, PublishEventFd, InstallHandlers, Install, OpenListener,
              OpenEpoll, AbortStart, StartTimer, SpawnWorker, JoinWorker, CancelTimer,
              NotifyTimer, JoinTimer, ShutdownRuntimes, DisarmHandler, CloseEventFd,
              RestoreHandlers
<1>6. ASSUME NEW t \in Threads, Deliver(t) \/ Handle(t)
      PROVE  UNCHANGED <<recorded, printed, written>>
  BY <1>6 DEF Deliver, Handle, HandlerChecks, HandlerWrites
<1>7. ASSUME NEW w \in Workers, ReachLimit(w) \/ BreakPipe(w) \/ Stop(w)
      PROVE  UNCHANGED <<recorded, printed, written>>
  BY <1>7 DEF ReachLimit, BreakPipe, Stop, SeeShutdown, EndWorker
<1>8. ASSUME TimerStep \/ TimerExpires
      PROVE  UNCHANGED <<recorded, printed, written>>
  BY <1>8 DEF TimerStep, TimerLooks, TimerRequestsShutdown, TimerExpires
<1>9. ASSUME UNCHANGED vars PROVE UNCHANGED <<recorded, printed, written>>
  BY <1>9 DEF vars
<1> QED
  BY <1>1, <1>2, <1>3, <1>4, <1>5, <1>6, <1>7, <1>8, <1>9 DEF Next

\* The inductive invariant is kept: by Places while the process lives, and by the
\* step that ends it because it changes nothing else.
LEMMA IInvStep == IInv /\ [Next]_vars => IInv'
<1> SUFFICES ASSUME IInv, [Next]_vars PROVE IInv'
  OBVIOUS
<1>1. Places'
  BY PlacesStep DEF IInv
<1>2. ReportIsFinal'
  BY ReportStep DEF IInv
<1>3. CASE main' \notin Dead
  <2>1. Places' /\ Living' => EventFdOutlivesWriters' /\ WorkersServeSafely'
    BY PlacesKeepEventFd, PlacesKeepWorkers, PTL
  <2> QED
    BY <1>1, <1>2, <1>3, <2>1 DEF IInv, Living
<1>4. CASE main' \in Dead
  <2>1. UNCHANGED <<eventfd, setup, fds, worker, timer, handler>>
    BY <1>4, DeadStep DEF IInv
  <2>2. EventFdOutlivesWriters'
    BY <2>1 DEF IInv, EventFdOutlivesWriters
  <2>3. WorkersServeSafely'
    BY <2>1 DEF IInv, WorkersServeSafely, setup
  <2> QED
    BY <1>1, <1>2, <2>2, <2>3 DEF IInv
<1> QED
  BY <1>3, <1>4

-----------------------------------------------------------------------------
\* The inductive invariant holds in every state run_server reaches.
THEOREM ServerInvariant == Spec => []IInv
<1> QED
  BY InitIInv, IInvStep, PTL DEF Spec

\* Every variable keeps its type.
THEOREM ServerTypeCorrect == Spec => []TypeOK
<1>1. IInv => TypeOK
  BY DEF IInv, Places
<1> QED
  BY <1>1, ServerInvariant, PTL

\* However many workers there are, and wherever a signal interrupts them, the shutdown
\* eventfd is open whenever somebody may write it.
THEOREM EventFdIsOpenForWriters == Spec => []EventFdOutlivesWriters
<1>1. IInv => EventFdOutlivesWriters
  BY DEF IInv
<1> QED
  BY <1>1, ServerInvariant, PTL

\* A worker in its loop has its fds, the handlers and the eventfd.
THEOREM WorkersHaveWhatTheyNeed == Spec => []WorkersServeSafely
<1>1. IInv => WorkersServeSafely
  BY DEF IInv
<1> QED
  BY <1>1, ServerInvariant, PTL

\* run_server returns with nothing open, running or installed, whichever step of its
\* start failed.
THEOREM ServerCleansUp == Spec => []NothingLeftBehind
<1>1. IInv => NothingLeftBehind
  BY DEF IInv, Places, NothingLeftBehind, EventFdPlaces, SetupPlaces, ThreadPlaces, FdPlaces,
         Leaving, Armed, Opened, Joined, Dead
<1> QED
  BY <1>1, ServerInvariant, PTL

\* The console's and the JSON file's reports are of all the requests recorded.
THEOREM ReportsAreFinal == Spec => []ReportIsFinal
<1>1. IInv => ReportIsFinal
  BY DEF IInv
<1> QED
  BY <1>1, ServerInvariant, PTL

-----------------------------------------------------------------------------
(***************************************************************************)
(* Server implements Lifecycle.                                            *)
(***************************************************************************)
\* What the exit code tells: 0 until the start fails, and at the end of a start that did
\* not; then all workers have served and what is reported is.
ExitPlaces ==
    /\ main \in Starting \cup {"spawn", "join"} \cup Joined => exit_code = 0
    /\ main = "print" => Benchmark
    /\ main \in Leaving /\ exit_code = 0 =>
          (\A w \in Workers : worker[w] = "exited") /\ (Benchmark => printed # NotPrinted)
    /\ main \in Leaving /\ exit_code # 0 => \A w \in Workers : worker[w] = "none"

LEMMA OtherStepExit ==
    ASSUME TypeOK, OtherStep
    PROVE  UNCHANGED exit_code
<1> USE DEF setup, threads, interrupts, report
<1>1. ASSUME NEW t \in Threads, Deliver(t) \/ Handle(t) PROVE UNCHANGED exit_code
  BY <1>1 DEF Deliver, Handle, HandlerChecks, HandlerWrites
<1>2. ASSUME NEW w \in Workers, RecordRequest(w) \/ ReachLimit(w) \/ BreakPipe(w) \/ Stop(w)
      PROVE  UNCHANGED exit_code
  BY <1>2 DEF RecordRequest, ReachLimit, BreakPipe, Stop, SeeShutdown, EndWorker
<1>3. CASE TimerStep \/ TimerExpires
  BY <1>3 DEF TimerStep, TimerLooks, TimerRequestsShutdown, TimerExpires
<1>4. CASE UNCHANGED vars
  BY <1>4 DEF vars
<1> QED
  BY <1>1, <1>2, <1>3, <1>4 DEF OtherStep

LEMMA ExitStep == Places /\ ExitPlaces /\ [Next]_vars => ExitPlaces'
<1> SUFFICES ASSUME Places, ExitPlaces, [Next]_vars PROVE ExitPlaces'
  OBVIOUS
<1>1. CASE OtherStep
  <2>1. /\ UNCHANGED <<exit_code, printed>>
        /\ main' = main \/ main' \in Dead
        /\ \A w \in Workers : worker[w] \in {"none", "exited"} => worker'[w] = worker[w]
    BY <1>1, OtherStepFrame, OtherStepExit DEF Places
  <2>2. CASE main' = main
    <3>1. /\ (\A w \in Workers : worker[w] = "exited") => \A w \in Workers : worker'[w] = "exited"
          /\ (\A w \in Workers : worker[w] = "none") => \A w \in Workers : worker'[w] = "none"
      BY <2>1
    <3> QED
      BY <2>1, <2>2, <3>1 DEF ExitPlaces
  <2>3. CASE main' \in Dead
    BY <2>3 DEF ExitPlaces, Starting, Joined, Leaving, Dead
  <2> QED
    BY <2>1, <2>2, <2>3
<1> USE DEF At, ExitPlaces, Starting, Joined, Leaving, setup, threads, interrupts, report
<1>2. CASE CreateEventFd
  BY <1>2 DEF CreateEventFd, Places, ThreadPlaces
<1>3. CASE PublishEventFd
  BY <1>3 DEF PublishEventFd
<1>4. CASE InstallHandlers
  BY <1>4 DEF InstallHandlers, Install, Places, ThreadPlaces
<1>5. CASE OpenListener
  BY <1>5 DEF OpenListener
<1>6. CASE OpenEpoll
  BY <1>6 DEF OpenEpoll, Advance
<1>7. CASE AbortStart
  BY <1>7 DEF AbortStart, Places, ThreadPlaces
<1>8. CASE StartTimer
  BY <1>8 DEF StartTimer
<1>9. CASE SpawnWorker
  BY <1>9 DEF SpawnWorker, Advance
<1>10. CASE JoinWorker
  BY <1>10 DEF JoinWorker, Advance
<1>11. CASE CancelTimer \/ NotifyTimer \/ JoinTimer
  BY <1>11 DEF CancelTimer, NotifyTimer, JoinTimer
<1>12. CASE ShutdownRuntimes
  BY <1>12 DEF ShutdownRuntimes, Places, ThreadPlaces
<1>13. CASE PrintSummary
  BY <1>13 DEF PrintSummary
<1>14. CASE WriteJson
  BY <1>14 DEF WriteJson, Places, ThreadPlaces, ReportPlaces
<1>15. CASE DisarmHandler \/ CloseEventFd
  BY <1>15 DEF DisarmHandler, CloseEventFd
<1>16. CASE RestoreHandlers
  BY <1>16 DEF RestoreHandlers
<1> QED
  BY <1>1, <1>2, <1>3, <1>4, <1>5, <1>6, <1>7, <1>8, <1>9, <1>10, <1>11, <1>12, <1>13,
     <1>14, <1>15, <1>16 DEF Next, Main, OtherStep

-----------------------------------------------------------------------------
\* The abstract state.
Work == [w \in Workers |-> CASE worker[w] = "none" -> "idle"
                            [] worker[w] = "loop" -> "serving"
                            [] OTHER -> "ended"]

Outcome == CASE main \in Dead -> main
             [] main = "done" -> IF exit_code = 0 THEN "success" ELSE "failure"
             [] OTHER -> "none"

\* Which step of Lifecycle a step is.
LEMMA LifeNext ==
    /\ Life!vars = <<Work, readable, recorded, printed, Outcome>>
    /\ Life!Next <=> /\ Outcome = "none"
                     /\ \/ Life!Ask \/ Life!Report \/ Life!End
                        \/ \E w \in Workers : \/ Life!Begin(w) \/ Life!Record(w) \/ Life!Leave(w)
                                              \/ Life!BreakPipe(w)
  BY DEF Life!vars, Life!Next, Work, Outcome

LEMMA LifeStutters ==
    ASSUME UNCHANGED <<worker, readable, recorded, printed>>, Outcome' = Outcome
    PROVE  UNCHANGED Life!vars
  BY DEF Life!vars, Outcome

\* request_shutdown, by whoever may call it while the process lives: the eventfd is open
\* then, or the write changes nothing.
LEMMA LifeAsks ==
    ASSUME Places, main \notin Dead, readable' = (readable \/ eventfd = "open"),
           Work' = Work, UNCHANGED <<main, recorded, printed, exit_code>>
    PROVE  [Life!Next]_Life!vars
<1>1. Outcome' = Outcome
  BY DEF Outcome
<1>2. readable \in BOOLEAN
  BY DEF Places, TypeOK
<1>3. CASE eventfd = "open"
  <2>1. Outcome = "none"
    BY <1>3 DEF Places, EventFdPlaces, Outcome
  <2>2. Life!Ask
    BY <1>1, <1>3 DEF Life!Ask, Work, Outcome
  <2> QED
    BY <2>1, <2>2, LifeNext
<1>4. CASE eventfd # "open"
  <2>1. readable' = readable
    BY <1>2, <1>4
  <2> QED
    BY <1>1, <2>1 DEF Life!vars, Work, Outcome
<1> QED
  BY <1>3, <1>4

\* run_server ends, or is killed, before its workers have begun or after they have ended.
LEMMA LifeEnds ==
    ASSUME Outcome = "none", Outcome' # "none", UNCHANGED <<worker, readable, recorded, printed>>,
           \/ /\ \A w \in Workers : worker[w] = "exited"
              /\ Outcome' \in {"success", "killed"} /\ (Benchmark => printed # NotPrinted)
           \/ (\A w \in Workers : worker[w] = "none") /\ Outcome' \in {"failure", "killed"}
    PROVE  Life!Next
<1>1. /\ (\A w \in Workers : worker[w] = "exited") => \A w \in Workers : Work[w] = "ended"
      /\ (\A w \in Workers : worker[w] = "none") => \A w \in Workers : Work[w] = "idle"
  BY DEF Work
<1>2. Life!End
  BY <1>1 DEF Life!End, Life!All, Life!NoReport, NotPrinted, Work, Outcome
<1> QED
  BY <1>2, LifeNext

LEMMA LifeInit == Init => Life!Init
  BY DEF Init, Life!Init, Life!NoReport, NotPrinted, Dead

\* The steps of the main thread, but for its last.
LEMMA LifeMain ==
    ASSUME Places, ExitPlaces, Main
    PROVE  [Life!Next]_Life!vars
<1> USE DEF At, Dead, setup, threads, interrupts, report
<1>0. Outcome = "none"
  BY DEF Outcome, Main, CreateEventFd, PublishEventFd, InstallHandlers, Install, OpenListener,
         OpenEpoll, AbortStart, StartTimer, SpawnWorker, JoinWorker, CancelTimer, NotifyTimer,
         JoinTimer, ShutdownRuntimes, PrintSummary, WriteJson, DisarmHandler, CloseEventFd,
         RestoreHandlers
<1>1. CASE CreateEventFd
  <2>1. UNCHANGED <<worker, readable, recorded, printed>>
    BY <1>1 DEF CreateEventFd
  <2>2. CASE main' = "install"
    BY <1>0, <2>1, <2>2, LifeStutters DEF Outcome
  <2>3. CASE main' = "done" /\ exit_code' = 1
    <3>1. Outcome' = "failure"
      BY <2>3 DEF Outcome
    <3>2. \A w \in Workers : worker[w] = "none"
      BY <1>1 DEF CreateEventFd, Places, ThreadPlaces, Starting
    <3> QED
      BY <1>0, <2>1, <3>1, <3>2, LifeEnds
  <2> QED
    BY <1>1, <2>2, <2>3 DEF CreateEventFd
<1>2. CASE SpawnWorker
  <2>1. next \in Workers /\ worker \in [Workers -> {"none", "loop", "returned", "exited"}]
    BY DEF Places, TypeOK
  <2>2. worker[next] = "none"
    BY <1>2, <2>1, ThreadIds DEF SpawnWorker, Places, ThreadPlaces
  <2>3. /\ worker' = [worker EXCEPT ![next] = "loop"]
        /\ UNCHANGED <<readable, recorded, printed>> /\ Outcome' = "none"
    BY <1>2 DEF SpawnWorker, Advance, Outcome
  <2>4. Work[next] = "idle" /\ Work' = [Work EXCEPT ![next] = "serving"]
    BY <2>1, <2>2, <2>3 DEF Work
  <2>5. PICK w \in Workers : w = next
    BY <2>1
  <2>6. Life!Begin(w)
    BY <1>0, <2>3, <2>4, <2>5 DEF Life!Begin, Work, Outcome
  <2> QED
    BY <1>0, <2>6, LifeNext
<1>3. CASE PrintSummary
  <2>1. /\ printed = NotPrinted /\ Benchmark /\ \A w \in Workers : Work[w] = "ended"
    <3>1. main = "print"
      BY <1>3 DEF PrintSummary
    <3>2. printed = NotPrinted /\ \A w \in Workers : worker[w] = "exited"
      BY <3>1 DEF Places, ReportPlaces, ThreadPlaces, Joined
    <3>3. Benchmark
      BY <3>1 DEF ExitPlaces
    <3> QED
      BY <3>2, <3>3 DEF Work
  <2>2. printed' = recorded /\ UNCHANGED <<worker, readable, recorded>> /\ Outcome' = "none"
    BY <1>3 DEF PrintSummary, Outcome
  <2>3. Life!Report
    BY <1>0, <2>1, <2>2 DEF Life!Report, Life!All, Life!NoReport, NotPrinted, Work, Outcome
  <2> QED
    BY <1>0, <2>3, LifeNext
<1>4. CASE RestoreHandlers
  <2>1. UNCHANGED <<worker, readable, recorded, printed, exit_code>> /\ main' \in {"restore", "done"}
    BY <1>4 DEF RestoreHandlers
  <2>2. main = "restore"
    BY <1>4 DEF RestoreHandlers
  <2>3. CASE main' = "restore"
    BY <1>0, <2>1, <2>3, LifeStutters DEF Outcome
  <2>4. CASE main' = "done"
    <3>1. Outcome' = IF exit_code = 0 THEN "success" ELSE "failure"
      BY <2>1, <2>4 DEF Outcome
    <3>2. CASE exit_code = 0
      <4>1. (\A w \in Workers : worker[w] = "exited") /\ (Benchmark => printed # NotPrinted)
        BY <2>2, <3>2 DEF ExitPlaces, Leaving
      <4> QED
        BY <1>0, <2>1, <3>1, <3>2, <4>1, LifeEnds
    <3>3. CASE exit_code # 0
      <4>1. \A w \in Workers : worker[w] = "none"
        BY <2>2, <3>3 DEF ExitPlaces, Leaving
      <4> QED
        BY <1>0, <2>1, <3>1, <3>3, <4>1, LifeEnds
    <3> QED
      BY <3>2, <3>3
  <2> QED
    BY <2>1, <2>3, <2>4
<1>5. CASE \/ PublishEventFd \/ InstallHandlers \/ OpenListener \/ OpenEpoll \/ AbortStart
           \/ StartTimer \/ JoinWorker \/ CancelTimer \/ NotifyTimer \/ JoinTimer
           \/ ShutdownRuntimes \/ WriteJson \/ DisarmHandler \/ CloseEventFd
  <2>1. UNCHANGED <<worker, readable, recorded, printed>> /\ main' \notin Ended
    BY <1>5 DEF PublishEventFd, InstallHandlers, Install, OpenListener, OpenEpoll, AbortStart,
                StartTimer, JoinWorker, CancelTimer, NotifyTimer, JoinTimer, ShutdownRuntimes,
                WriteJson, DisarmHandler, CloseEventFd, Advance, Ended
  <2> QED
    BY <1>0, <2>1, LifeStutters DEF Outcome, Ended
<1> QED
  BY <1>1, <1>2, <1>3, <1>4, <1>5 DEF Main

\* A signal, which ends the process only where a handler is not installed: no worker has
\* begun there, or all have ended.
LEMMA LifeDeliver ==
    ASSUME Places, ExitPlaces, NEW t \in Threads, Deliver(t)
    PROVE  [Life!Next]_Life!vars
<1>1. /\ UNCHANGED <<worker, readable, recorded, printed, exit_code>> /\ main \notin Ended
      /\ UNCHANGED main \/ (main' = "killed" /\ \E s \in Signals : disposition[s] # "handler")
  BY DEF Deliver, threads, report
<1>2. Outcome = "none"
  BY <1>1 DEF Outcome, Ended
<1>3. CASE UNCHANGED main
  BY <1>1, <1>3, LifeStutters DEF Outcome
<1>4. CASE main' = "killed" /\ \E s \in Signals : disposition[s] # "handler"
  <2>1. main \notin Armed \ {"sigint", "sigterm"}
    BY <1>4 DEF Places, SetupPlaces
  <2>2. main \in Starting \cup {"close", "restore"}
    BY <1>1, <2>1 DEF Places, TypeOK, Armed, Opened, Joined, Starting, Ended
  <2>3. \/ \A w \in Workers : worker[w] = "none"
        \/ (\A w \in Workers : worker[w] = "exited") /\ (Benchmark => printed # NotPrinted)
    <3>1. CASE main \in Starting
      BY <3>1 DEF Places, ThreadPlaces
    <3>2. CASE main \in {"close", "restore"}
      BY <3>2 DEF ExitPlaces, Leaving
    <3> QED
      BY <2>2, <3>1, <3>2
  <2>4. Outcome' = "killed"
    BY <1>4 DEF Outcome, Dead
  <2> QED
    BY <1>1, <1>2, <2>3, <2>4, LifeEnds
<1> QED
  BY <1>1, <1>3, <1>4

LEMMA LifeWorker ==
    ASSUME Places, NEW w \in Workers,
           RecordRequest(w) \/ ReachLimit(w) \/ BreakPipe(w) \/ Stop(w)
    PROVE  [Life!Next]_Life!vars
<1> USE DEF setup, threads, interrupts, report
<1>1. main \notin Dead /\ UNCHANGED <<printed, exit_code>>
  BY DEF RecordRequest, ReachLimit, BreakPipe, Stop, SeeShutdown, EndWorker, Running
<1>2. worker[w] = "loop" => Outcome = "none" /\ Work[w] = "serving"
  BY <1>1 DEF Outcome, Work, Places, ThreadPlaces, Leaving
<1>3. UNCHANGED main => Outcome' = Outcome
  BY <1>1 DEF Outcome
<1>4. worker \in [Workers -> {"none", "loop", "returned", "exited"}]
  BY DEF Places, TypeOK
<1>5. CASE RecordRequest(w)
  <2>1. worker[w] = "loop" /\ recorded' = recorded + 1 /\ UNCHANGED <<main, worker, readable, printed>>
    BY <1>5 DEF RecordRequest
  <2>2. Life!Record(w)
    BY <1>2, <1>3, <2>1 DEF Life!Record, Work, Outcome
  <2> QED
    BY <1>2, <2>1, <2>2, LifeNext
<1>6. CASE ReachLimit(w)
  <2>1. readable' = (readable \/ eventfd = "open") /\ UNCHANGED <<worker, recorded>>
    BY <1>6 DEF ReachLimit
  <2>2. Work' = Work
    BY <2>1 DEF Work
  <2>3. UNCHANGED main
    BY <1>6 DEF ReachLimit
  <2> QED
    BY <1>1, <2>1, <2>2, <2>3, LifeAsks
<1>7. CASE SeeShutdown(w)
  <2>1. /\ worker[w] = "loop" /\ readable /\ worker' = [worker EXCEPT ![w] = "returned"]
        /\ UNCHANGED <<main, readable, recorded, printed>>
    BY <1>7 DEF SeeShutdown
  <2>2. Work' = [Work EXCEPT ![w] = "ended"]
    BY <1>4, <2>1 DEF Work
  <2>3. Life!Leave(w)
    BY <1>2, <1>3, <2>1, <2>2 DEF Life!Leave, Work, Outcome
  <2> QED
    BY <1>2, <2>1, <2>3, LifeNext
<1>8. CASE EndWorker(w)
  <2>1. /\ worker[w] = "returned" /\ worker' = [worker EXCEPT ![w] = "exited"]
        /\ readable' = (readable \/ eventfd = "open") /\ UNCHANGED recorded
    BY <1>8 DEF EndWorker
  <2>2. Work' = Work
    BY <1>4, <2>1 DEF Work
  <2>3. UNCHANGED main
    BY <1>8 DEF EndWorker
  <2> QED
    BY <1>1, <2>1, <2>2, <2>3, LifeAsks
<1>9. CASE BreakPipe(w)
  <2>1. /\ worker[w] = "loop" /\ main' = "broken_pipe"
        /\ UNCHANGED <<worker, readable, recorded, printed>>
    BY <1>9 DEF BreakPipe
  <2>2. Outcome' = "broken_pipe" /\ Work' = Work
    BY <2>1 DEF Outcome, Work, Dead
  <2>3. Life!BreakPipe(w)
    BY <1>2, <2>1, <2>2 DEF Life!BreakPipe, Work, Outcome
  <2> QED
    BY <1>2, <2>1, <2>3, LifeNext
<1> QED
  BY <1>5, <1>6, <1>7, <1>8, <1>9 DEF Stop

LEMMA LifeOther ==
    ASSUME Places, (\E t \in Threads : Handle(t)) \/ TimerStep \/ TimerExpires \/ UNCHANGED vars
    PROVE  [Life!Next]_Life!vars
<1> USE DEF setup, threads, interrupts, report
<1>1. UNCHANGED <<main, worker, recorded, printed, exit_code>>
  BY DEF Handle, HandlerChecks, HandlerWrites, TimerStep, TimerLooks, TimerRequestsShutdown,
         TimerExpires, vars
<1>2. Work' = Work /\ Outcome' = Outcome
  BY <1>1 DEF Work, Outcome
<1>3. ASSUME readable' = (readable \/ eventfd = "open"), main \notin Dead
      PROVE  [Life!Next]_Life!vars
  BY <1>1, <1>2, <1>3, LifeAsks
<1>4. CASE UNCHANGED readable
  BY <1>1, <1>2, <1>4, LifeStutters
<1>5. CASE \E t \in Threads : HandlerWrites(t)
  BY <1>3, <1>5 DEF HandlerWrites
<1>6. CASE TimerRequestsShutdown
  BY <1>3, <1>6 DEF TimerRequestsShutdown, Running
<1>7. CASE (\E t \in Threads : HandlerChecks(t)) \/ TimerLooks \/ TimerExpires \/ UNCHANGED vars
  BY <1>4, <1>7 DEF HandlerChecks, TimerLooks, TimerExpires, vars
<1> QED
  BY <1>5, <1>6, <1>7 DEF Handle, TimerStep

\* Server implements Lifecycle, for any number of workers, with and without a benchmark, its
\* duration and its limit, whatever step of the start fails: wherever SIGINT and SIGTERM
\* come they cut no worker's service short, and a broken pipe is an end of its own.
THEOREM ServerHasLifecycle == Spec => ImplementsLifecycle
<1>1. Init => Life!Init /\ ExitPlaces
  BY LifeInit DEF Init, ExitPlaces, Leaving
<1>2. Places /\ ExitPlaces /\ [Next]_vars => [Life!Next]_Life!vars
  BY LifeMain, LifeDeliver, LifeWorker, LifeOther DEF Next
<1>3. IInv => Places
  BY DEF IInv
<1> QED
  BY <1>1, <1>2, <1>3, ExitStep, ServerInvariant, PTL DEF Spec, ImplementsLifecycle, Life!Spec
=============================================================================
