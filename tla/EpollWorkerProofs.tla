-------------------------- MODULE EpollWorkerProofs --------------------------
(***************************************************************************)
(* Proofs about EpollWorker, for any workers, clients and fds.  The checked *)
(* invariants are inductive together with a few facts about a worker's      *)
(* batch and the fd it is adding or removing.                              *)
(***************************************************************************)
EXTENDS EpollWorker, TLAPS

\* A batch has one event for an fd.
EventsDistinct ==
    \A w \in Workers : \A d, e \in pending[w] \cap ClientEvents : d.fd = e.fd => d = e

\* It has none for the fd in hand, which is in the map until it is erased.
InHand ==
    \A w \in Workers : pc[w] \in {"register", "discard", "erase"} =>
        /\ connections[w][current[w]] # NoClient
        /\ \A e \in pending[w] \cap ClientEvents : e.fd # current[w]

\* A worker that has left its loop has no events, and one that is torn down no map.
AfterLoop ==
    \A w \in Workers :
        /\ pc[w] \in {"returned", "ended"} => pending[w] = {}
        /\ pc[w] = "ended" => \A f \in Fds : connections[w][f] = NoClient

\* The inductive invariant.
IInv == /\ TypeOK
        /\ EventsDistinct
        /\ InHand
        /\ AfterLoop
        /\ EventsReachTheirConnection
        /\ MapsMatchSockets
        /\ ConnectionsAreWatched

LEMMA InitIInv == Init => IInv
<1> SUFFICES ASSUME Init PROVE IInv
  OBVIOUS
<1> USE EpollWorkerAssumption DEF Init
<1>1. TypeOK
  <2>1. backlog \in [Workers -> Seq(Clients)]
    OBVIOUS
  <2> QED
    BY <2>1 DEF TypeOK, Running
<1>2. EventsDistinct /\ InHand /\ AfterLoop /\ EventsReachTheirConnection
  BY DEF EventsDistinct, InHand, AfterLoop, EventsReachTheirConnection
<1>3. MapsMatchSockets /\ ConnectionsAreWatched
  BY DEF MapsMatchSockets, ConnectionsAreWatched
<1> QED
  BY <1>1, <1>2, <1>3 DEF IInv

-----------------------------------------------------------------------------
(***************************************************************************)
(* What epoll_wait reports, and the two ways of handling an event.          *)
(***************************************************************************)
Types == {"nothing", "something", "hangup"}
Events == ClientEvents \cup {ListenEvent, ShutdownEvent}

\* The fds a worker watches in its loop are those of its map, and open.
LEMMA WatchedFds ==
    ASSUME IInv, NEW w \in Workers, pc[w] = "loop", NEW f \in registered[w]
    PROVE  f \in Fds /\ socket[f] \in Clients /\ connections[w][f] = socket[f]
<1>1. f \in Fds /\ connections[w][f] # NoClient
  BY DEF IInv, TypeOK, ConnectionsAreWatched
<1>2. \A g \in Fds : ~At(w, g, {"erase", "discard"})
  BY DEF At
<1>3. connections[w][f] = socket[f]
  BY <1>1, <1>2 DEF IInv, MapsMatchSockets
<1> QED
  BY <1>1, <1>3 DEF IInv, TypeOK

\* The events reported for them are of the clients behind them.
LEMMA ReportedEvents ==
    ASSUME IInv, NEW w \in Workers, pc[w] = "loop"
    PROVE  /\ Reported(w) \subseteq Events
           /\ \A e \in Reported(w) \cap ClientEvents :
                 e = [fd |-> e.fd, client |-> socket[e.fd], hup |-> ready[socket[e.fd]] = "hangup"]
           /\ \A e \in Reported(w) \cap ClientEvents :
                 socket[e.fd] = e.client /\ connections[w][e.fd] = e.client
<1> DEFINE event(f) == [fd |-> f, client |-> socket[f], hup |-> ready[socket[f]] = "hangup"]
<1>1. \A f \in registered[w] : event(f) \in ClientEvents
  BY WatchedFds DEF ClientEvents
<1>2. ListenEvent \notin ClientEvents /\ ShutdownEvent \notin ClientEvents
  BY EpollWorkerAssumption DEF ListenEvent, ShutdownEvent, ClientEvents
<1>3. \A e \in Reported(w) :
         e \in {ListenEvent, ShutdownEvent} \/ \E f \in registered[w] : e = event(f)
  BY DEF Reported
<1>4. Reported(w) \subseteq Events
  BY <1>1, <1>3 DEF Events
<1>5. ASSUME NEW e \in Reported(w) \cap ClientEvents
      PROVE  e = event(e.fd) /\ socket[e.fd] = e.client /\ connections[w][e.fd] = e.client
  <2>1. PICK f \in registered[w] : e = event(f)
    BY <1>2, <1>3
  <2> QED
    BY <2>1, WatchedFds
<1> QED
  BY <1>4, <1>5

\* The handler closes the fd of the event,
Closes(w, e) ==
    /\ TakeEvent(w, e)
    /\ connections[w][e.fd] # NoClient
    /\ CloseFd(w, e.fd)
    /\ UNCHANGED <<shutdown, connected, backlog, connections>>

\* or takes from its socket, if anything.
Serves(w, e) ==
    /\ TakeEvent(w, e)
    /\ ready' \in [Clients -> Types]
    /\ UNCHANGED <<shutdown, connected, backlog, socket, registered, connections, pc, current>>

LEMMA DispatchKinds ==
    ASSUME IInv, NEW w \in Workers, DispatchHangup(w) \/ Dispatch(w)
    PROVE  \E e \in pending[w] \cap ClientEvents : Closes(w, e) \/ Serves(w, e)
<1>1. ready \in [Clients -> Types]
  BY DEF IInv, TypeOK, Types
<1>2. CASE DispatchHangup(w)
  BY <1>2 DEF DispatchHangup, Closes
<1>3. CASE Dispatch(w)
  <2>1. PICK e \in pending[w] \cap ClientEvents :
            /\ TakeEvent(w, e)
            /\ IF connections[w][e.fd] = NoClient
               THEN UNCHANGED <<ready, socket, registered, pc, current>>
               ELSE \/ TakeReady(e.fd) /\ UNCHANGED <<socket, registered, pc, current>>
                    \/ CloseFd(w, e.fd)
    BY <1>3 DEF Dispatch
  <2>2. UNCHANGED <<shutdown, connected, backlog, connections>>
    BY <1>3 DEF Dispatch
  <2>3. TakeReady(e.fd) => ready' \in [Clients -> Types]
    BY <1>1 DEF TakeReady, Types
  <2> QED
    BY <1>1, <2>1, <2>2, <2>3 DEF Closes, Serves
<1> QED
  BY <1>2, <1>3

\* Two maps have the same fd only when one of their workers is closing it.
LEMMA OneMap ==
    ASSUME IInv, NEW v \in Workers, NEW w \in Workers, v # w, NEW f \in Fds,
           connections[v][f] # NoClient, connections[w][f] # NoClient
    PROVE  At(v, f, {"erase", "discard"}) \/ At(w, f, {"erase", "discard"})
  BY DEF IInv, MapsMatchSockets

-----------------------------------------------------------------------------
(***************************************************************************)
(* Each part of the invariant is kept by every step.                        *)
(***************************************************************************)
\* Every action keeps the types.
LEMMA TypeStep == IInv /\ [Next]_vars => TypeOK'
<1> SUFFICES ASSUME IInv, [Next]_vars PROVE TypeOK'
  OBVIOUS
<1> USE EpollWorkerAssumption DEF IInv, TypeOK, Running
<1>1. CASE Environment \/ UNCHANGED vars
  <2>1. ASSUME NEW c \in Clients, ClientActs(c) PROVE TypeOK'
    BY <2>1 DEF ClientActs
  <2>2. ASSUME NEW c \in Clients, NEW w \in Workers, Connect(c, w) PROVE TypeOK'
    <3>1. Append(backlog[w], c) \in Seq(Clients)
      OBVIOUS
    <3>2. backlog' \in [Workers -> Seq(Clients)]
      BY <2>2, <3>1 DEF Connect
    <3> QED
      BY <2>2, <3>2 DEF Connect
  <2>3. CASE RequestShutdown
    BY <2>3 DEF RequestShutdown, clients
  <2>4. CASE UNCHANGED vars
    BY <2>4 DEF vars, clients
  <2> QED
    BY <1>1, <2>1, <2>2, <2>3, <2>4 DEF Environment
<1>2. ASSUME NEW w \in Workers, EpollWait(w) PROVE TypeOK'
  <2>1. Reported(w) \subseteq Events
    BY <1>2, ReportedEvents DEF EpollWait
  <2>2. pending' \in [Workers -> SUBSET Events]
    BY <1>2, <2>1 DEF EpollWait, Events
  <2> QED
    BY <1>2, <2>2 DEF EpollWait, clients, Events
<1>3. ASSUME NEW w \in Workers, SeeShutdown(w) PROVE TypeOK'
  BY <1>3 DEF SeeShutdown, clients
<1>4. ASSUME NEW w \in Workers, StartAccept(w) PROVE TypeOK'
  BY <1>4 DEF StartAccept, TakeEvent, clients
<1>5. ASSUME NEW w \in Workers, NEW e \in pending[w] \cap ClientEvents, Closes(w, e)
      PROVE  TypeOK'
  BY <1>5 DEF Closes, TakeEvent, CloseFd, ClientEvents
<1>6. ASSUME NEW w \in Workers, NEW e \in pending[w] \cap ClientEvents, Serves(w, e)
      PROVE  TypeOK'
  BY <1>6 DEF Serves, TakeEvent, Types
<1>7. ASSUME NEW w \in Workers, Erase(w) PROVE TypeOK'
  BY <1>7 DEF Erase, clients
<1>8. ASSUME NEW w \in Workers, Accept(w) PROVE TypeOK'
  BY <1>8 DEF Accept, Emplace, clients
<1>9. ASSUME NEW w \in Workers, AcceptFails(w) PROVE TypeOK'
  <2>1. Tail(backlog[w]) \in Seq(Clients)
    BY <1>9 DEF AcceptFails
  <2>2. backlog' \in [Workers -> Seq(Clients)]
    BY <1>9, <2>1 DEF AcceptFails
  <2> QED
    BY <1>9, <2>2 DEF AcceptFails, clients
<1>10. ASSUME NEW w \in Workers, AcceptDone(w) PROVE TypeOK'
  BY <1>10 DEF AcceptDone, clients
<1>11. ASSUME NEW w \in Workers, Register(w) PROVE TypeOK'
  BY <1>11 DEF Register, clients
<1>12. ASSUME NEW w \in Workers, RegisterFails(w) PROVE TypeOK'
  BY <1>12 DEF RegisterFails, clients
<1>13. ASSUME NEW w \in Workers, TearDown(w) PROVE TypeOK'
  BY <1>13 DEF TearDown, clients
<1> HIDE DEF TypeOK, Running
<1> QED
  BY DispatchKinds, <1>1, <1>2, <1>3, <1>4, <1>5, <1>6, <1>7, <1>8, <1>9, <1>10, <1>11, <1>12, <1>13 DEF Next, Worker

\* A batch comes with distinct fds, and only shrinks.
LEMMA DistinctStep == IInv /\ [Next]_vars => EventsDistinct'
<1> SUFFICES ASSUME IInv, [Next]_vars PROVE EventsDistinct'
  OBVIOUS
<1> USE EpollWorkerAssumption DEF IInv, TypeOK, EventsDistinct
<1>1. CASE Environment \/ UNCHANGED vars
  BY <1>1 DEF Environment, ClientActs, Connect, RequestShutdown, vars, clients
<1>2. ASSUME NEW w \in Workers, EpollWait(w) PROVE EventsDistinct'
  <2>1. \A d, e \in Reported(w) \cap ClientEvents : d.fd = e.fd => d = e
    BY <1>2, ReportedEvents DEF EpollWait
  <2> QED
    BY <1>2, <2>1 DEF EpollWait
<1>3. ASSUME NEW w \in Workers, SeeShutdown(w) PROVE EventsDistinct'
  BY <1>3 DEF SeeShutdown, clients
<1>4. ASSUME NEW w \in Workers, StartAccept(w) PROVE EventsDistinct'
  BY <1>4 DEF StartAccept, TakeEvent, clients
<1>5. ASSUME NEW w \in Workers, NEW e \in pending[w] \cap ClientEvents, Closes(w, e)
      PROVE  EventsDistinct'
  BY <1>5 DEF Closes, TakeEvent, CloseFd, clients
<1>6. ASSUME NEW w \in Workers, NEW e \in pending[w] \cap ClientEvents, Serves(w, e)
      PROVE  EventsDistinct'
  BY <1>6 DEF Serves, TakeEvent, clients
<1>7. ASSUME NEW w \in Workers, Erase(w) PROVE EventsDistinct'
  BY <1>7 DEF Erase, clients
<1>8. ASSUME NEW w \in Workers, Accept(w) PROVE EventsDistinct'
  BY <1>8 DEF Accept, Emplace, clients
<1>9. ASSUME NEW w \in Workers, AcceptFails(w) PROVE EventsDistinct'
  BY <1>9 DEF AcceptFails, clients
<1>10. ASSUME NEW w \in Workers, AcceptDone(w) PROVE EventsDistinct'
  BY <1>10 DEF AcceptDone, clients
<1>11. ASSUME NEW w \in Workers, Register(w) PROVE EventsDistinct'
  BY <1>11 DEF Register, clients
<1>12. ASSUME NEW w \in Workers, RegisterFails(w) PROVE EventsDistinct'
  BY <1>12 DEF RegisterFails, clients
<1>13. ASSUME NEW w \in Workers, TearDown(w) PROVE EventsDistinct'
  BY <1>13 DEF TearDown, clients
<1> HIDE DEF TypeOK, EventsDistinct
<1> QED
  BY DispatchKinds, <1>1, <1>2, <1>3, <1>4, <1>5, <1>6, <1>7, <1>8, <1>9, <1>10, <1>11, <1>12, <1>13 DEF Next, Worker

\* An fd gets in hand when its event is taken, or when it is new.
LEMMA InHandStep == IInv /\ [Next]_vars => InHand'
<1> SUFFICES ASSUME IInv, [Next]_vars PROVE InHand'
  OBVIOUS
<1> USE EpollWorkerAssumption DEF IInv, TypeOK, EventsDistinct, InHand, EventsReachTheirConnection, MapsMatchSockets, At
<1>1. CASE Environment \/ UNCHANGED vars
  BY <1>1 DEF Environment, ClientActs, Connect, RequestShutdown, vars, clients
<1>2. ASSUME NEW w \in Workers, EpollWait(w) PROVE InHand'
  BY <1>2 DEF EpollWait, clients
<1>3. ASSUME NEW w \in Workers, SeeShutdown(w) PROVE InHand'
  BY <1>3 DEF SeeShutdown, clients
<1>4. ASSUME NEW w \in Workers, StartAccept(w) PROVE InHand'
  BY <1>4 DEF StartAccept, TakeEvent, clients
<1>5. ASSUME NEW w \in Workers, NEW e \in pending[w] \cap ClientEvents, Closes(w, e)
      PROVE  InHand'
  <2>1. \A d \in pending'[w] \cap ClientEvents : d.fd # e.fd
    BY <1>5 DEF Closes, TakeEvent
  <2> QED
    BY <1>5, <2>1 DEF Closes, TakeEvent, CloseFd, ClientEvents
<1>6. ASSUME NEW w \in Workers, NEW e \in pending[w] \cap ClientEvents, Serves(w, e)
      PROVE  InHand'
  BY <1>6 DEF Serves, TakeEvent, clients
<1>7. ASSUME NEW w \in Workers, Erase(w) PROVE InHand'
  BY <1>7 DEF Erase, clients
<1>8. ASSUME NEW w \in Workers, Accept(w) PROVE InHand'
  <2>1. PICK f \in Fds : /\ socket[f] = NoClient
                          /\ connections' = [connections EXCEPT ![w] = Emplace(connections[w], f, Head(backlog[w]))]
                          /\ current' = [current EXCEPT ![w] = f]
    BY <1>8 DEF Accept
  <2>2. Head(backlog[w]) \in Clients
    BY <1>8 DEF Accept
  <2>3. connections'[w][f] # NoClient
    BY <2>1, <2>2 DEF Emplace
  <2>4. \A d \in pending[w] \cap ClientEvents : d.fd # f
    BY <2>1 DEF ClientEvents
  <2> QED
    BY <1>8, <2>1, <2>3, <2>4 DEF Accept
<1>9. ASSUME NEW w \in Workers, AcceptFails(w) PROVE InHand'
  BY <1>9 DEF AcceptFails, clients
<1>10. ASSUME NEW w \in Workers, AcceptDone(w) PROVE InHand'
  BY <1>10 DEF AcceptDone, clients
<1>11. ASSUME NEW w \in Workers, Register(w) PROVE InHand'
  BY <1>11 DEF Register, clients
<1>12. ASSUME NEW w \in Workers, RegisterFails(w) PROVE InHand'
  BY <1>12 DEF RegisterFails, clients
<1>13. ASSUME NEW w \in Workers, TearDown(w) PROVE InHand'
  BY <1>13 DEF TearDown, clients
<1> HIDE DEF TypeOK, EventsDistinct, InHand, EventsReachTheirConnection, MapsMatchSockets, At
<1> QED
  BY DispatchKinds, <1>1, <1>2, <1>3, <1>4, <1>5, <1>6, <1>7, <1>8, <1>9, <1>10, <1>11, <1>12, <1>13 DEF Next, Worker

\* A worker leaves its loop without events.
LEMMA AfterLoopStep == IInv /\ [Next]_vars => AfterLoop'
<1> SUFFICES ASSUME IInv, [Next]_vars PROVE AfterLoop'
  OBVIOUS
<1> USE EpollWorkerAssumption DEF IInv, TypeOK, AfterLoop
<1>1. CASE Environment \/ UNCHANGED vars
  BY <1>1 DEF Environment, ClientActs, Connect, RequestShutdown, vars, clients
<1>2. ASSUME NEW w \in Workers, EpollWait(w) PROVE AfterLoop'
  BY <1>2 DEF EpollWait, clients
<1>3. ASSUME NEW w \in Workers, SeeShutdown(w) PROVE AfterLoop'
  BY <1>3 DEF SeeShutdown, clients
<1>4. ASSUME NEW w \in Workers, StartAccept(w) PROVE AfterLoop'
  BY <1>4 DEF StartAccept, TakeEvent, clients
<1>5. ASSUME NEW w \in Workers, NEW e \in pending[w] \cap ClientEvents, Closes(w, e)
      PROVE  AfterLoop'
  BY <1>5 DEF Closes, TakeEvent, CloseFd, clients
<1>6. ASSUME NEW w \in Workers, NEW e \in pending[w] \cap ClientEvents, Serves(w, e)
      PROVE  AfterLoop'
  BY <1>6 DEF Serves, TakeEvent, clients
<1>7. ASSUME NEW w \in Workers, Erase(w) PROVE AfterLoop'
  BY <1>7 DEF Erase, clients
<1>8. ASSUME NEW w \in Workers, Accept(w) PROVE AfterLoop'
  BY <1>8 DEF Accept, Emplace, clients
<1>9. ASSUME NEW w \in Workers, AcceptFails(w) PROVE AfterLoop'
  BY <1>9 DEF AcceptFails, clients
<1>10. ASSUME NEW w \in Workers, AcceptDone(w) PROVE AfterLoop'
  BY <1>10 DEF AcceptDone, clients
<1>11. ASSUME NEW w \in Workers, Register(w) PROVE AfterLoop'
  BY <1>11 DEF Register, clients
<1>12. ASSUME NEW w \in Workers, RegisterFails(w) PROVE AfterLoop'
  BY <1>12 DEF RegisterFails, clients
<1>13. ASSUME NEW w \in Workers, TearDown(w) PROVE AfterLoop'
  BY <1>13 DEF TearDown, clients
<1> HIDE DEF TypeOK, AfterLoop
<1> QED
  BY DispatchKinds, <1>1, <1>2, <1>3, <1>4, <1>5, <1>6, <1>7, <1>8, <1>9, <1>10, <1>11, <1>12, <1>13 DEF Next, Worker

\* No fd changes hands while an event for it is pending.
LEMMA EventsStep == IInv /\ [Next]_vars => EventsReachTheirConnection'
<1> SUFFICES ASSUME IInv, [Next]_vars PROVE EventsReachTheirConnection'
  OBVIOUS
<1> USE EpollWorkerAssumption DEF IInv, TypeOK, EventsDistinct, InHand, AfterLoop, EventsReachTheirConnection, MapsMatchSockets, At
<1>1. CASE Environment \/ UNCHANGED vars
  BY <1>1 DEF Environment, ClientActs, Connect, RequestShutdown, vars, clients
<1>2. ASSUME NEW w \in Workers, EpollWait(w) PROVE EventsReachTheirConnection'
  <2>1. \A e \in Reported(w) \cap ClientEvents :
            socket[e.fd] = e.client /\ connections[w][e.fd] = e.client
    BY <1>2, ReportedEvents DEF EpollWait
  <2> QED
    BY <1>2, <2>1 DEF EpollWait
<1>3. ASSUME NEW w \in Workers, SeeShutdown(w) PROVE EventsReachTheirConnection'
  BY <1>3 DEF SeeShutdown, clients
<1>4. ASSUME NEW w \in Workers, StartAccept(w) PROVE EventsReachTheirConnection'
  BY <1>4 DEF StartAccept, TakeEvent, clients
<1>5. ASSUME NEW w \in Workers, NEW e \in pending[w] \cap ClientEvents, Closes(w, e)
      PROVE  EventsReachTheirConnection'
  <2> SUFFICES ASSUME NEW v \in Workers, NEW d \in pending'[v] \cap ClientEvents
               PROVE  socket'[d.fd] = d.client /\ connections'[v][d.fd] = d.client
    OBVIOUS
  <2>1. d \in pending[v] /\ d.fd \in Fds /\ e.fd \in Fds /\ d.client # NoClient
    BY <1>5 DEF Closes, TakeEvent, ClientEvents
  <2>2. d.fd # e.fd
    <3>1. CASE v = w
      BY <2>1, <3>1, <1>5 DEF Closes, TakeEvent
    <3>2. CASE v # w
      <4>1. pc[w] = "loop" /\ connections[w][e.fd] # NoClient
        BY <1>5 DEF Closes, TakeEvent
      <4>2. ~At(w, e.fd, {"erase", "discard"})
        BY <4>1
      <4>3. ~At(v, d.fd, {"erase", "discard"})
        BY <2>1
      <4>4. connections[v][d.fd] # NoClient
        BY <2>1
      <4> HIDE DEF IInv, TypeOK, EventsDistinct, InHand, AfterLoop, EventsReachTheirConnection,
                   MapsMatchSockets, At
      <4> QED
        BY <2>1, <3>2, <4>1, <4>2, <4>3, <4>4, OneMap
    <3> QED
      BY <3>1, <3>2
  <2> QED
    BY <2>1, <2>2, <1>5 DEF Closes, CloseFd
<1>6. ASSUME NEW w \in Workers, NEW e \in pending[w] \cap ClientEvents, Serves(w, e)
      PROVE  EventsReachTheirConnection'
  BY <1>6 DEF Serves, TakeEvent, clients
<1>7. ASSUME NEW w \in Workers, Erase(w) PROVE EventsReachTheirConnection'
  BY <1>7 DEF Erase, clients
<1>8. ASSUME NEW w \in Workers, Accept(w) PROVE EventsReachTheirConnection'
  <2> SUFFICES ASSUME NEW v \in Workers, NEW d \in pending'[v] \cap ClientEvents
               PROVE  socket'[d.fd] = d.client /\ connections'[v][d.fd] = d.client
    OBVIOUS
  <2>1. PICK f \in Fds : /\ socket[f] = NoClient
                          /\ socket' = [socket EXCEPT ![f] = Head(backlog[w])]
                          /\ connections' = [connections EXCEPT ![w] = Emplace(connections[w], f, Head(backlog[w]))]
    BY <1>8 DEF Accept
  <2>2. d \in pending[v] /\ d.fd \in Fds /\ d.client # NoClient
    BY <1>8 DEF Accept, ClientEvents
  <2>3. d.fd # f
    BY <2>1, <2>2
  <2> QED
    BY <2>1, <2>2, <2>3 DEF Emplace
<1>9. ASSUME NEW w \in Workers, AcceptFails(w) PROVE EventsReachTheirConnection'
  BY <1>9 DEF AcceptFails, clients
<1>10. ASSUME NEW w \in Workers, AcceptDone(w) PROVE EventsReachTheirConnection'
  BY <1>10 DEF AcceptDone, clients
<1>11. ASSUME NEW w \in Workers, Register(w) PROVE EventsReachTheirConnection'
  BY <1>11 DEF Register, clients
<1>12. ASSUME NEW w \in Workers, RegisterFails(w) PROVE EventsReachTheirConnection'
  <2> SUFFICES ASSUME NEW v \in Workers, NEW d \in pending'[v] \cap ClientEvents
               PROVE  socket'[d.fd] = d.client /\ connections'[v][d.fd] = d.client
    OBVIOUS
  <2>1. d \in pending[v] /\ d.fd \in Fds /\ d.client # NoClient
    BY <1>12 DEF RegisterFails, ClientEvents
  <2>2. d.fd # current[w]
    <3>1. CASE v = w
      BY <2>1, <3>1, <1>12 DEF RegisterFails
    <3>2. CASE v # w
      BY <2>1, <3>2, <1>12 DEF RegisterFails
    <3> QED
      BY <3>1, <3>2
  <2> QED
    BY <2>1, <2>2, <1>12 DEF RegisterFails
<1>13. ASSUME NEW w \in Workers, TearDown(w) PROVE EventsReachTheirConnection'
  BY <1>13 DEF TearDown, clients
<1> HIDE DEF TypeOK, EventsDistinct, InHand, AfterLoop, EventsReachTheirConnection, MapsMatchSockets, At
<1> QED
  BY DispatchKinds, <1>1, <1>2, <1>3, <1>4, <1>5, <1>6, <1>7, <1>8, <1>9, <1>10, <1>11, <1>12, <1>13 DEF Next, Worker

\* An fd is erased from the one map it is in.
LEMMA MapsStep == IInv /\ [Next]_vars => MapsMatchSockets'
<1> SUFFICES ASSUME IInv, [Next]_vars PROVE MapsMatchSockets'
  OBVIOUS
<1> USE EpollWorkerAssumption DEF IInv, TypeOK, InHand, AfterLoop, MapsMatchSockets, At
<1>1. CASE Environment \/ UNCHANGED vars
  <2>1. UNCHANGED <<socket, connections, pc, current>>
    BY <1>1 DEF Environment, ClientActs, Connect, RequestShutdown, vars, clients
  <2> QED
    BY <2>1
<1>2. ASSUME NEW w \in Workers, EpollWait(w) PROVE MapsMatchSockets'
  BY <1>2 DEF EpollWait, clients
<1>3. ASSUME NEW w \in Workers, SeeShutdown(w) PROVE MapsMatchSockets'
  BY <1>3 DEF SeeShutdown, clients
<1>4. ASSUME NEW w \in Workers, StartAccept(w) PROVE MapsMatchSockets'
  BY <1>4 DEF StartAccept, TakeEvent, clients
<1>5. ASSUME NEW w \in Workers, NEW e \in pending[w] \cap ClientEvents, Closes(w, e)
      PROVE  MapsMatchSockets'
  BY <1>5 DEF Closes, TakeEvent, CloseFd, clients
<1>6. ASSUME NEW w \in Workers, NEW e \in pending[w] \cap ClientEvents, Serves(w, e)
      PROVE  MapsMatchSockets'
  BY <1>6 DEF Serves
<1>7. ASSUME NEW w \in Workers, Erase(w) PROVE MapsMatchSockets'
  BY <1>7 DEF Erase, clients
<1>8. ASSUME NEW w \in Workers, Accept(w) PROVE MapsMatchSockets'
  <2>1. PICK f \in Fds : /\ socket[f] = NoClient
                          /\ socket' = [socket EXCEPT ![f] = Head(backlog[w])]
                          /\ connections' = [connections EXCEPT ![w] = Emplace(connections[w], f, Head(backlog[w]))]
                          /\ current' = [current EXCEPT ![w] = f]
    BY <1>8 DEF Accept
  <2>2. pc[w] = "accept" /\ pc' = [pc EXCEPT ![w] = "register"]
    BY <1>8 DEF Accept
  <2>3. Head(backlog[w]) \in Clients
    BY <1>8 DEF Accept
  <2>4. connections[w][f] = NoClient
    BY <2>1, <2>2
  <2>5. connections' = [connections EXCEPT ![w][f] = Head(backlog[w])]
    BY <2>1, <2>4 DEF Emplace
  <2> SUFFICES ASSUME NEW g \in Fds
               PROVE  /\ \A v \in Workers : connections'[v][g] # NoClient =>
                            socket'[g] = connections'[v][g] \/ At(v, g, {"erase", "discard"})'
                      /\ socket'[g] # NoClient =>
                            \E v \in Workers : /\ connections'[v][g] = socket'[g]
                                               /\ ~At(v, g, {"erase", "discard"})'
                      /\ \A u, v \in Workers :
                            connections'[u][g] # NoClient /\ connections'[v][g] # NoClient /\ u # v =>
                               At(u, g, {"erase", "discard"})' \/ At(v, g, {"erase", "discard"})'
    OBVIOUS
  <2>6. \A v \in Workers : At(v, g, {"erase", "discard"})' <=> At(v, g, {"erase", "discard"})
    BY <2>1, <2>2
  <2>7. CASE g = f
    <3>1. \A v \in Workers : connections[v][g] # NoClient => At(v, g, {"erase", "discard"})
      BY <2>1, <2>7
    <3>2. /\ connections'[w][g] = Head(backlog[w]) /\ socket'[g] = Head(backlog[w])
          /\ \A v \in Workers \ {w} : connections'[v][g] = connections[v][g]
      BY <2>1, <2>5, <2>7
    <3>3. ~At(w, g, {"erase", "discard"})
      BY <2>2
    <3> HIDE DEF At, MapsMatchSockets
    <3> QED
      BY <2>6, <3>1, <3>2, <3>3
  <2>8. CASE g # f
    <3>1. socket'[g] = socket[g] /\ \A v \in Workers : connections'[v][g] = connections[v][g]
      BY <2>1, <2>5, <2>8
    <3> HIDE DEF At
    <3> QED
      BY <2>6, <3>1
  <2> QED
    BY <2>7, <2>8
<1>9. ASSUME NEW w \in Workers, AcceptFails(w) PROVE MapsMatchSockets'
  BY <1>9 DEF AcceptFails, clients
<1>10. ASSUME NEW w \in Workers, AcceptDone(w) PROVE MapsMatchSockets'
  BY <1>10 DEF AcceptDone, clients
<1>11. ASSUME NEW w \in Workers, Register(w) PROVE MapsMatchSockets'
  BY <1>11 DEF Register, clients
<1>12. ASSUME NEW w \in Workers, RegisterFails(w) PROVE MapsMatchSockets'
  <2>1. /\ pc[w] = "register" /\ pc' = [pc EXCEPT ![w] = "discard"]
        /\ socket' = [socket EXCEPT ![current[w]] = NoClient]
        /\ connections' = connections /\ current' = current
    BY <1>12 DEF RegisterFails
  <2>2. PICK f \in Fds : f = current[w]
    BY <2>1
  <2>3. ASSUME NEW g \in Fds \ {f}
        PROVE  /\ socket'[g] = socket[g]
               /\ \A v \in Workers : /\ connections'[v][g] = connections[v][g]
                                      /\ At(v, g, {"erase", "discard"})' <=> At(v, g, {"erase", "discard"})
    BY <2>1, <2>2
  <2>4. /\ socket'[f] = NoClient
        /\ At(w, f, {"erase", "discard"})'
        /\ ~At(w, f, {"erase", "discard"})
        /\ connections[w][f] # NoClient
    BY <2>1, <2>2
  <2>5. \A v \in Workers \ {w} : At(v, f, {"erase", "discard"})' <=> At(v, f, {"erase", "discard"})
    BY <2>1
  <2> HIDE DEF IInv, TypeOK, InHand, AfterLoop, MapsMatchSockets, At
  <2>6. ASSUME NEW v \in Workers, v # w, connections[v][f] # NoClient
        PROVE  At(v, f, {"erase", "discard"})'
    BY <2>2, <2>4, <2>5, <2>6, OneMap
  <2> QED
    BY <2>1, <2>3, <2>4, <2>6 DEF IInv, MapsMatchSockets
<1>13. ASSUME NEW w \in Workers, TearDown(w) PROVE MapsMatchSockets'
  <2>0. \A v \in Workers : pc[v] \in {"returned", "ended"} /\ pc'[v] \in {"returned", "ended"}
    BY <1>13 DEF TearDown
  <2>1. \A v \in Workers, f \in Fds : ~At(v, f, {"erase", "discard"}) /\ ~At(v, f, {"erase", "discard"})'
    BY <2>0
  <2>2. \A f \in Fds, v \in Workers \ {w} : connections[v][f] # NoClient => connections[w][f] = NoClient
    BY <2>1
  <2> QED
    BY <1>13, <2>1, <2>2 DEF TearDown
<1> HIDE DEF TypeOK, InHand, AfterLoop, MapsMatchSockets, At
<1> QED
  BY DispatchKinds, <1>1, <1>2, <1>3, <1>4, <1>5, <1>6, <1>7, <1>8, <1>9, <1>10, <1>11, <1>12, <1>13 DEF Next, Worker

\* An fd is watched from its registration to its close.
LEMMA WatchedStep == IInv /\ [Next]_vars => ConnectionsAreWatched'
<1> SUFFICES ASSUME IInv, [Next]_vars PROVE ConnectionsAreWatched'
  OBVIOUS
<1> USE EpollWorkerAssumption DEF IInv, TypeOK, InHand, MapsMatchSockets, ConnectionsAreWatched, At
<1>1. CASE Environment \/ UNCHANGED vars
  BY <1>1 DEF Environment, ClientActs, Connect, RequestShutdown, vars, clients
<1>2. ASSUME NEW w \in Workers, EpollWait(w) PROVE ConnectionsAreWatched'
  BY <1>2 DEF EpollWait, clients
<1>3. ASSUME NEW w \in Workers, SeeShutdown(w) PROVE ConnectionsAreWatched'
  BY <1>3 DEF SeeShutdown, clients
<1>4. ASSUME NEW w \in Workers, StartAccept(w) PROVE ConnectionsAreWatched'
  BY <1>4 DEF StartAccept, TakeEvent, clients
<1>5. ASSUME NEW w \in Workers, NEW e \in pending[w] \cap ClientEvents, Closes(w, e)
      PROVE  ConnectionsAreWatched'
  BY <1>5 DEF Closes, TakeEvent, CloseFd, clients
<1>6. ASSUME NEW w \in Workers, NEW e \in pending[w] \cap ClientEvents, Serves(w, e)
      PROVE  ConnectionsAreWatched'
  BY <1>6 DEF Serves, TakeEvent, clients
<1>7. ASSUME NEW w \in Workers, Erase(w) PROVE ConnectionsAreWatched'
  BY <1>7 DEF Erase, clients
<1>8. ASSUME NEW w \in Workers, Accept(w) PROVE ConnectionsAreWatched'
  BY <1>8 DEF Accept, Emplace, clients
<1>9. ASSUME NEW w \in Workers, AcceptFails(w) PROVE ConnectionsAreWatched'
  BY <1>9 DEF AcceptFails, clients
<1>10. ASSUME NEW w \in Workers, AcceptDone(w) PROVE ConnectionsAreWatched'
  BY <1>10 DEF AcceptDone, clients
<1>11. ASSUME NEW w \in Workers, Register(w) PROVE ConnectionsAreWatched'
  BY <1>11 DEF Register, clients
<1>12. ASSUME NEW w \in Workers, RegisterFails(w) PROVE ConnectionsAreWatched'
  BY <1>12 DEF RegisterFails, clients
<1>13. ASSUME NEW w \in Workers, TearDown(w) PROVE ConnectionsAreWatched'
  BY <1>13 DEF TearDown, clients
<1> HIDE DEF TypeOK, InHand, MapsMatchSockets, ConnectionsAreWatched, At
<1> QED
  BY DispatchKinds, <1>1, <1>2, <1>3, <1>4, <1>5, <1>6, <1>7, <1>8, <1>9, <1>10, <1>11, <1>12, <1>13 DEF Next, Worker

-----------------------------------------------------------------------------
LEMMA IInvStep == IInv /\ [Next]_vars => IInv'
  BY TypeStep, DistinctStep, InHandStep, AfterLoopStep, EventsStep, MapsStep, WatchedStep
  DEF IInv

\* The inductive invariant holds in every state the workers reach.
THEOREM EpollInvariant == Spec => []IInv
<1> QED
  BY InitIInv, IInvStep, PTL DEF Spec

\* Every variable keeps its type.
THEOREM EpollTypeCorrect == Spec => []TypeOK
<1>1. IInv => TypeOK
  BY DEF IInv
<1> QED
  BY <1>1, EpollInvariant, PTL

\* An event of a batch finds the connection it is about, although the fds of the batch
\* may be closed and given out again before the event's turn.
THEOREM NoStaleEvents == Spec => []EventsReachTheirConnection
<1>1. IInv => EventsReachTheirConnection
  BY DEF IInv
<1> QED
  BY <1>1, EpollInvariant, PTL

\* The maps of all workers agree with the fds of the process.
THEOREM MapsAgreeWithFds == Spec => []MapsMatchSockets
<1>1. IInv => MapsMatchSockets
  BY DEF IInv
<1> QED
  BY <1>1, EpollInvariant, PTL

\* A worker watches every connection it has.
THEOREM NoForgottenConnection == Spec => []ConnectionsAreWatched
<1>1. IInv => ConnectionsAreWatched
  BY DEF IInv
<1> QED
  BY <1>1, EpollInvariant, PTL

\* When the workers are torn down no connection is left open.
THEOREM TearDownClosesAll == Spec => []NothingLeftOpen
<1>1. IInv => NothingLeftOpen
  BY EpollWorkerAssumption
  DEF IInv, TypeOK, AfterLoop, MapsMatchSockets, NothingLeftOpen, At
<1> QED
  BY <1>1, EpollInvariant, PTL
=============================================================================
