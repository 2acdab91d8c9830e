----------------------------- MODULE EpollWorker -----------------------------
(***************************************************************************)
(* The event loops of all workers: accept4, the batch of events epoll_wait  *)
(* returns, the map of connections, close_connection, and the tear-down     *)
(* after the loop.  Each worker has its own listener, epoll instance and    *)
(* map; file descriptors are the process's, so that a number one worker     *)
(* closes may at once be another's.                                        *)
(*                                                                         *)
(* What the handler of a connection does with its bytes is Connection; here *)
(* it takes what is ready, all or part of it, or closes.  A connection is   *)
(* known by its client.                                                    *)
(***************************************************************************)
EXTENDS Integers, FiniteSets, Sequences

CONSTANTS Workers,
          Clients,      \* each connects at most once
          NoClient,
          Fds,          \* the numbers the process may give to connections
          ListenFd, ShutdownFd, NoFd,
          MaxEvents,    \* WorkerConfig::epoll_max_events
          CallsMayFail  \* whether accept4 and epoll_ctl(ADD) may fail for other
                        \* reasons than a full table of fds

ASSUME EpollWorkerAssumption ==
    /\ NoClient \notin Clients
    /\ ListenFd \notin Fds /\ ShutdownFd \notin Fds /\ NoFd \notin Fds
    /\ ListenFd # ShutdownFd
    /\ MaxEvents \in Nat \ {0}
    /\ CallsMayFail \in BOOLEAN

VARIABLES
    shutdown,    \* the shutdown eventfd is readable
    connected,   \* the clients that have connected, so far
    ready,       \* what the socket of each has for epoll: "nothing", "something", "hangup"
    backlog,     \* the clients in each listener's queue
    socket,      \* the client behind each open fd of the process
    registered,  \* the fds each epoll instance watches, the listener and the eventfd aside
    connections, \* each worker's map from fds
    pc,          \* where each worker is in run_worker_loop
    current,     \* the fd it is adding or removing
    pending      \* the events of its batch it has not looked at yet

clients == <<connected, ready>>
vars == <<shutdown, clients, backlog, socket, registered, connections, pc, current, pending>>

\* An event, with the client it was reported for.
ClientEvents == [fd : Fds, client : Clients, hup : BOOLEAN]
ListenEvent == [fd |-> ListenFd, client |-> NoClient, hup |-> FALSE]
ShutdownEvent == [fd |-> ShutdownFd, client |-> NoClient, hup |-> FALSE]

Running == {"loop", "accept", "register", "discard", "erase"}

-----------------------------------------------------------------------------
(***************************************************************************)
(* The clients, the kernel and the rest of the process.                    *)
(***************************************************************************)
\* SO_REUSEPORT: the kernel picks the listener.
Connect(c, w) ==
    /\ c \notin connected
    /\ pc[w] # "ended"
    /\ connected' = connected \cup {c}
    /\ backlog' = [backlog EXCEPT ![w] = Append(@, c)]
    /\ UNCHANGED <<shutdown, ready, socket, registered, connections, pc, current, pending>>

\* Bytes arrive, or room for a reply; then the client may hang up.
ClientActs(c) ==
    /\ c \in connected
    /\ \/ ready[c] = "nothing" /\ ready' = [ready EXCEPT ![c] = "something"]
       \/ ready[c] # "hangup" /\ ready' = [ready EXCEPT ![c] = "hangup"]
    /\ UNCHANGED <<shutdown, connected, backlog, socket, registered, connections,
                   pc, current, pending>>

RequestShutdown ==
    /\ ~shutdown
    /\ shutdown' = TRUE
    /\ UNCHANGED <<clients, backlog, socket, registered, connections, pc, current, pending>>

\* The events epoll_wait may return to a worker.
Reported(w) ==
    {[fd |-> f, client |-> socket[f], hup |-> ready[socket[f]] = "hangup"] :
       f \in {g \in registered[w] : ready[socket[g]] # "nothing"}}
    \cup (IF backlog[w] # <<>> THEN {ListenEvent} ELSE {})
    \cup (IF shutdown THEN {ShutdownEvent} ELSE {})

\* epoll_wait returns some of them, in an order of the kernel's choice.
EpollWait(w) ==
    /\ pc[w] = "loop"
    /\ pending[w] = {}
    /\ \E batch \in SUBSET Reported(w) \ {{}} :
         /\ Cardinality(batch) <= MaxEvents
         /\ pending' = [pending EXCEPT ![w] = batch]
    /\ UNCHANGED <<shutdown, clients, backlog, socket, registered, connections, pc, current>>

-----------------------------------------------------------------------------
(***************************************************************************)
(* A worker turns to the next event of its batch.                          *)
(***************************************************************************)
TakeEvent(w, e) ==
    /\ pc[w] = "loop"
    /\ e \in pending[w]
    /\ pending' = [pending EXCEPT ![w] = @ \ {e}]

\* The shutdown fd: the loop returns, and the rest of the batch is dropped.
SeeShutdown(w) ==
    /\ pc[w] = "loop"
    /\ ShutdownEvent \in pending[w]
    /\ pending' = [pending EXCEPT ![w] = {}]
    /\ pc' = [pc EXCEPT ![w] = "returned"]
    /\ UNCHANGED <<shutdown, clients, backlog, socket, registered, connections, current>>

StartAccept(w) ==
    /\ TakeEvent(w, ListenEvent)
    /\ pc' = [pc EXCEPT ![w] = "accept"]
    /\ UNCHANGED <<shutdown, clients, backlog, socket, registered, connections, current>>

\* close_connection, up to close(): the number is free for others from here on.
CloseFd(w, f) ==
    /\ socket' = [socket EXCEPT ![f] = NoClient]
    /\ registered' = [registered EXCEPT ![w] = @ \ {f}]
    /\ current' = [current EXCEPT ![w] = f]
    /\ pc' = [pc EXCEPT ![w] = "erase"]
    /\ UNCHANGED ready

\* A connection's handler, short of closing: it takes all or part of what is ready.
TakeReady(f) ==
    LET c == socket[f]
    IN ready' \in {ready} \cup (IF c \in Clients /\ ready[c] = "something"
                                THEN {[ready EXCEPT ![c] = "nothing"]} ELSE {})

\* A slip: the hangup is left for read() to find, if it is reached.
ServeHangup(w) ==
    /\ \E e \in pending[w] \cap ClientEvents :
         /\ connections[w][e.fd] # NoClient
         /\ e.hup
         /\ TakeEvent(w, e)
         /\ TakeReady(e.fd)
    /\ UNCHANGED <<shutdown, connected, backlog, socket, registered, connections, pc, current>>

DispatchHangup(w) ==
    /\ \E e \in pending[w] \cap ClientEvents :
         /\ connections[w][e.fd] # NoClient
         /\ e.hup
         /\ TakeEvent(w, e)
         /\ CloseFd(w, e.fd)
    /\ UNCHANGED <<shutdown, connected, backlog, connections>>

\* A slip: with the event it has served the worker closes one of the fds it watches.
ServeAndClose(w) ==
    /\ \E e \in pending[w] \cap ClientEvents :
         /\ connections[w][e.fd] # NoClient
         /\ ~e.hup
         /\ TakeEvent(w, e)
         /\ \E f \in registered[w] : CloseFd(w, f)
    /\ UNCHANGED <<shutdown, connected, backlog, connections>>

\* The rest of the handler: flush_pending_write, process_ready_frames, the read loop.
\* An fd the map does not know is logged and passed over.
Dispatch(w) ==
    /\ \E e \in pending[w] \cap ClientEvents :
         /\ TakeEvent(w, e)
         /\ IF connections[w][e.fd] = NoClient
            THEN UNCHANGED <<ready, socket, registered, pc, current>>
            ELSE /\ ~e.hup
                 /\ \/ TakeReady(e.fd) /\ UNCHANGED <<socket, registered, pc, current>>
                    \/ CloseFd(w, e.fd)
    /\ UNCHANGED <<shutdown, connected, backlog, connections>>

\* A slip: the ConnectionState is kept, for the next client with that fd.
KeepState(w) ==
    /\ pc[w] \in {"erase", "discard"}
    /\ current' = [current EXCEPT ![w] = NoFd]
    /\ pc' = [pc EXCEPT ![w] = IF @ = "erase" THEN "loop" ELSE "accept"]
    /\ UNCHANGED <<shutdown, clients, backlog, socket, registered, connections, pending>>

\* connections.erase(), after close(): back to the batch, or to the accept loop.
Erase(w) ==
    /\ pc[w] \in {"erase", "discard"}
    /\ connections' = [connections EXCEPT ![w][current[w]] = NoClient]
    /\ current' = [current EXCEPT ![w] = NoFd]
    /\ pc' = [pc EXCEPT ![w] = IF @ = "erase" THEN "loop" ELSE "accept"]
    /\ UNCHANGED <<shutdown, clients, backlog, socket, registered, pending>>

-----------------------------------------------------------------------------
(***************************************************************************)
(* The accept loop.                                                        *)
(***************************************************************************)
\* unordered_map::emplace leaves an entry that is there alone.
Emplace(map, f, c) == IF map[f] = NoClient THEN [map EXCEPT ![f] = c] ELSE map

\* accept4 returns a connection, which gets its ConnectionState.
Accept(w) ==
    /\ pc[w] = "accept"
    /\ backlog[w] # <<>>
    /\ \E f \in Fds :
         /\ socket[f] = NoClient
         /\ socket' = [socket EXCEPT ![f] = Head(backlog[w])]
         /\ connections' = [connections EXCEPT ![w] = Emplace(@, f, Head(backlog[w]))]
         /\ current' = [current EXCEPT ![w] = f]
    /\ backlog' = [backlog EXCEPT ![w] = Tail(@)]
    /\ pc' = [pc EXCEPT ![w] = "register"]
    /\ UNCHANGED <<shutdown, clients, registered, pending>>

\* A slip: accept4 is called again whatever the error.
AcceptRetried(w) ==
    /\ pc[w] = "accept"
    /\ backlog[w] # <<>>
    /\ CallsMayFail \/ \A f \in Fds : socket[f] # NoClient
    /\ UNCHANGED vars

\* A slip: an error of accept4 ends the worker's loop.
AcceptFailsForGood(w) ==
    /\ pc[w] = "accept"
    /\ backlog[w] # <<>>
    /\ CallsMayFail \/ \A f \in Fds : socket[f] # NoClient
    /\ pending' = [pending EXCEPT ![w] = {}]
    /\ pc' = [pc EXCEPT ![w] = "returned"]
    /\ UNCHANGED <<shutdown, clients, backlog, socket, registered, connections, current>>

\* It fails: no fd is left (EMFILE), or EINTR; or the connection at the head of the
\* queue is gone (ECONNABORTED).  The loop is left, the listener stays readable.
AcceptFails(w) ==
    /\ pc[w] = "accept"
    /\ backlog[w] # <<>>
    /\ CallsMayFail \/ \A f \in Fds : socket[f] # NoClient
    /\ \/ UNCHANGED backlog
       \/ CallsMayFail /\ backlog' = [backlog EXCEPT ![w] = Tail(@)]
    /\ pc' = [pc EXCEPT ![w] = "loop"]
    /\ UNCHANGED <<shutdown, clients, socket, registered, connections, current, pending>>

\* EAGAIN: nobody is left in the queue.
AcceptDone(w) ==
    /\ pc[w] = "accept"
    /\ backlog[w] = <<>>
    /\ pc' = [pc EXCEPT ![w] = "loop"]
    /\ UNCHANGED <<shutdown, clients, backlog, socket, registered, connections, current, pending>>

\* epoll_ctl(EPOLL_CTL_ADD); when it fails the connection is closed again.
Register(w) ==
    /\ pc[w] = "register"
    /\ registered' = [registered EXCEPT ![w] = @ \cup {current[w]}]
    /\ current' = [current EXCEPT ![w] = NoFd]
    /\ pc' = [pc EXCEPT ![w] = "accept"]
    /\ UNCHANGED <<shutdown, clients, backlog, socket, connections, pending>>

\* A slip: the failure is logged, and the connection kept.
IgnoreRegisterFailure(w) ==
    /\ CallsMayFail
    /\ pc[w] = "register"
    /\ current' = [current EXCEPT ![w] = NoFd]
    /\ pc' = [pc EXCEPT ![w] = "accept"]
    /\ UNCHANGED <<shutdown, clients, backlog, socket, registered, connections, pending>>

RegisterFails(w) ==
    /\ CallsMayFail
    /\ pc[w] = "register"
    /\ socket' = [socket EXCEPT ![current[w]] = NoClient]
    /\ pc' = [pc EXCEPT ![w] = "discard"]
    /\ UNCHANGED <<shutdown, clients, backlog, registered, connections, current, pending>>

-----------------------------------------------------------------------------
\* A slip: the fds are left to the end of the process.
TearDownListener(w) ==
    /\ \A v \in Workers : pc[v] \in {"returned", "ended"}
    /\ pc[w] = "returned"
    /\ connections' = [connections EXCEPT ![w] = [f \in Fds |-> NoClient]]
    /\ registered' = [registered EXCEPT ![w] = {}]
    /\ backlog' = [backlog EXCEPT ![w] = <<>>]
    /\ pc' = [pc EXCEPT ![w] = "ended"]
    /\ UNCHANGED <<shutdown, clients, socket, current, pending>>

\* shutdown_worker_runtime, which the main thread calls when all workers have been
\* joined: the connections of the map are closed, then the listener and epoll.
TearDown(w) ==
    /\ \A v \in Workers : pc[v] \in {"returned", "ended"}
    /\ pc[w] = "returned"
    /\ socket' = [f \in Fds |-> IF connections[w][f] # NoClient THEN NoClient ELSE socket[f]]
    /\ connections' = [connections EXCEPT ![w] = [f \in Fds |-> NoClient]]
    /\ registered' = [registered EXCEPT ![w] = {}]
    /\ backlog' = [backlog EXCEPT ![w] = <<>>]
    /\ pc' = [pc EXCEPT ![w] = "ended"]
    /\ UNCHANGED <<shutdown, clients, current, pending>>

\* Workers just started.
Init ==
    /\ shutdown = FALSE
    /\ connected = {}
    /\ ready = [c \in Clients |-> "nothing"]
    /\ backlog = [w \in Workers |-> <<>>]
    /\ socket = [f \in Fds |-> NoClient]
    /\ registered = [w \in Workers |-> {}]
    /\ connections = [w \in Workers |-> [f \in Fds |-> NoClient]]
    /\ pc = [w \in Workers |-> "loop"]
    /\ current = [w \in Workers |-> NoFd]
    /\ pending = [w \in Workers |-> {}]

Environment ==
    \/ \E c \in Clients : ClientActs(c) \/ \E w \in Workers : Connect(c, w)
    \/ RequestShutdown

Worker(w) ==
    \/ EpollWait(w)
    \/ SeeShutdown(w) \/ StartAccept(w) \/ DispatchHangup(w) \/ Dispatch(w)
    \/ Erase(w)
    \/ Accept(w) \/ AcceptFails(w) \/ AcceptDone(w) \/ Register(w) \/ RegisterFails(w)
    \/ TearDown(w)

Next == Environment \/ \E w \in Workers : Worker(w)

Spec == Init /\ [][Next]_vars

\* The batch has an event for this fd.
ReportsFd(w, f) == EpollWait(w) /\ \E e \in pending'[w] : e.fd = f

\* Threads are scheduled; epoll takes turns among ready fds when they are more than
\* MaxEvents; and calls that fail for a passing reason do not fail for ever.
Fairness ==
    \A w \in Workers :
        /\ WF_vars(Worker(w))
        /\ \A f \in Fds \cup {ListenFd, ShutdownFd} : SF_vars(ReportsFd(w, f))
        /\ SF_vars(Accept(w))

FairSpec == Spec /\ Fairness

-----------------------------------------------------------------------------
(***************************************************************************)
(* What must hold.                                                         *)
(***************************************************************************)
\* The type of every variable.
TypeOK ==
    /\ shutdown \in BOOLEAN
    /\ connected \subseteq Clients
    /\ ready \in [Clients -> {"nothing", "something", "hangup"}]
    /\ backlog \in [Workers -> Seq(Clients)]
    /\ socket \in [Fds -> Clients \cup {NoClient}]
    /\ registered \in [Workers -> SUBSET Fds]
    /\ connections \in [Workers -> [Fds -> Clients \cup {NoClient}]]
    /\ pc \in [Workers -> Running \cup {"returned", "ended"}]
    /\ current \in [Workers -> Fds \cup {NoFd}]
    /\ \A w \in Workers : current[w] = NoFd <=> pc[w] \notin {"register", "discard", "erase"}
    /\ pending \in [Workers -> SUBSET (ClientEvents \cup {ListenEvent, ShutdownEvent})]

\* However fds are closed and given out again, within a batch and by other workers,
\* an event finds the fd and the ConnectionState of the client it is about.
EventsReachTheirConnection ==
    \A w \in Workers : \A e \in pending[w] \cap ClientEvents :
        /\ socket[e.fd] = e.client
        /\ connections[w][e.fd] = e.client

\* The handler of a worker is at this fd.
At(w, f, places) == current[w] = f /\ pc[w] \in places

\* The maps agree with the fds: what a map has under an fd is the client behind it,
\* but for the moment between close() and erase(), in which another worker may be
\* given the number; and an open connection is in one map.
MapsMatchSockets ==
    \A f \in Fds :
        /\ \A w \in Workers : connections[w][f] # NoClient =>
              socket[f] = connections[w][f] \/ At(w, f, {"erase", "discard"})
        /\ socket[f] # NoClient =>
              \E w \in Workers : /\ connections[w][f] = socket[f]
                                 /\ ~At(w, f, {"erase", "discard"})
        /\ \A v, w \in Workers :
              connections[v][f] # NoClient /\ connections[w][f] # NoClient /\ v # w =>
                 At(v, f, {"erase", "discard"}) \/ At(w, f, {"erase", "discard"})

\* A worker watches every connection of its map: one it does not watch would be open
\* for ever with no event to close it.
ConnectionsAreWatched ==
    \A w \in Workers : pc[w] # "ended" =>
        registered[w] = {f \in Fds : /\ connections[w][f] # NoClient
                                     /\ ~At(w, f, {"register", "discard", "erase"})}

\* When the workers are torn down, no connection is left open.
NothingLeftOpen ==
    (\A w \in Workers : pc[w] = "ended") => \A f \in Fds : socket[f] = NoClient

IsIn(c, s) == \E i \in DOMAIN s : s[i] = c

\* A client in a listener's queue is taken from it by accept4 in the end, and not by
\* the end of the worker, whatever accept4 has failed with and whatever the other
\* connections do, unless a shutdown comes or the fds run out.
EveryClientAccepted ==
    \A c \in Clients, w \in Workers :
        IsIn(c, backlog[w]) ~> \/ ~IsIn(c, backlog[w]) /\ pc[w] \in Running
                               \/ \A f \in Fds : socket[f] # NoClient
                               \/ shutdown

\* The fd of a client that has hung up is closed: fds do not leak.
HangupsAreClosed ==
    \A c \in Clients, f \in Fds :
        socket[f] = c /\ ready[c] = "hangup" ~> socket[f] # c

\* A shutdown ends every worker, one that cannot accept for want of fds too.
ShutdownEndsWorkers == shutdown ~> \A w \in Workers : pc[w] = "ended"
=============================================================================
