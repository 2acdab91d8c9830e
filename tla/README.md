# rtb-engine in TLA+

A verification project for rtb-engine, a real-time-bidding server in C++: TLA+ modules translated
from its source, TLC configurations that check them on small instances, and theorems that TLAPS
proves for every value of the constants. Paths below are relative to the repository
(`src/worker_runtime.cc` is `src/src/worker_runtime.cc` in `PROJECT.json`, which prefixes the
repository with `src/`).

## The system

The engine is one process. `run_server` loads the campaigns, creates an eventfd for the shutdown,
installs the signal handlers, and starts `--workers` threads. Each worker has its own listening
socket on the same port (SO_REUSEPORT), its own epoll instance, and a map of connections; workers
share nothing but the eventfd, the immutable campaign snapshot and the benchmark recorder. A client
(an SSP) sends length-prefixed protobuf `BidRequest`s on a TCP connection and gets one
length-prefixed `BidResponse` for each.

### Inventory

| Component | State | Operations | Talks to |
|---|---|---|---|
| Frame buffer (`frame.cc`, `runtime_types.h`) | storage, read and write offset | reserve, writable_region, commit_write, try_extract_frame, consume_frame, compact | the worker, twice per connection |
| Response framing (`response_framing.cc`) | the write buffer | stage_response_frame | the worker |
| Worker event loop (`worker_runtime.cc`) | epoll fd, listener, connections, has_pending_write and two buffers for each | initialize, run_worker_loop (accept, dispatch, flush, process frames, read, close), shutdown | kernel, clients, recorder, eventfd |
| Server lifecycle (`server.cc`) | eventfd, signal dispositions, the handler's fd, threads, timer with its mutex and condition variable | run_server, the signal handler, request_shutdown | workers, timer, kernel |
| Benchmark recorder (`benchmark.cc`) | list of timings under a mutex | record_request, request_limit_reached, summarize, print_summary, write_json | all workers, main thread |
| Command line (`server.cc`, `main.cc`) | none | parse_server_config | run_server |
| Campaign store (`campaign_store.cc`, `retrieve.cc`) | campaigns, creatives, two indexes; immutable once loaded | load, retrieve_candidates | workers |
| Request pipeline (`parse.cc`, `normalize.cc`, `handle_request.cc`, `decision.cc`, `response_builder.cc`) | one request's context | parse, normalise, validate, decide, build | a worker, synchronously |
| Random generator (`runtime_types.h`) | one 64-bit word per worker | next_u64 | the decision |

### What is hard

- **Byte streams.** Reads and writes move any number of bytes; a frame may be cut anywhere, several
  may come in one read. Frames that are already in user space cause no more readiness.
- **Backpressure.** One reply at a time: with a reply pending, the worker neither processes nor
  reads. Three records of that fact (`has_pending_write`, the bytes in the buffer, EPOLLOUT in the
  registration) change one after the other.
- **Ends.** The client may shut down its side, reset, or send what the engine refuses, between any two
  system calls; epoll_ctl may fail; a shutdown may come at any time.
- **Shutdown.** Signals interrupt any thread; the timer may expire while it is cancelled; the
  benchmark's limit is found by any worker; the start may fail half-way. All of them end in one
  eventfd, which must outlive its writers.
- **Numbers that come back.** A file descriptor is closed and given out again at once, in the same batch
  of events or to another worker; maps, registrations and events all know connections by that number.
- **State that is used again.** A worker parses every frame of every connection into one message and
  answers from views of it; the read and the write buffer serve one message after another.
- **Sequential corners.** The order of the expired and the invalid check, retrieval from the smaller
  of two indexes, a snapshot with the creatives of a line that failed, options taken as values,
  percentiles of few values.

`PROJECT.json` lists each hazard with its line and the properties that cover it, or why none does.

## What is modelled

| Module | Models |
|---|---|
| `Framing` | the two byte streams of a connection: which requests, with what verdict and reply |
| `ReusableBuffer` | the frame buffer, one operator per member function |
| `Connection` | one connection: client, kernel socket and worker |
| `ReplyStream` | abstract: what the engine promises the client of one connection |
| `EpollWorker` | the event loops of all workers: accept, batches, maps, fds, tear-down |
| `Server` | `run_server`: main thread, workers, timer, signal handler |
| `Lifecycle` | abstract: what `run_server` promises whoever starts the engine |
| `ServerConfig` | `main` and `parse_server_config`, the tests at the top of `run_server` |
| `Normalize` | the keys of countries, devices and slots, byte by byte; the deadline |
| `CampaignFile`, `CampaignStore` | the lines of a campaign file; their loading into the snapshot |
| `BidRequest`, `RequestPipeline` | frames and answers; parse, validate, retrieve, decide, respond |
| `Auction` | abstract: how a frame may be answered, given the campaign file |
| `Percentiles`, `Benchmark` | the summary of a phase; the timing of requests, the recorder and its limit |
| `WorkerRng` | the random generator of a worker |
| `MCConnection`, `MCEpollWorker`, `MCRequestPipeline`, `MCServerConfig`, `MCPercentiles`, `SampleCampaigns` | inputs, symmetry and reference definitions for TLC |
| `ConnectionProofs` (with the frame buffer), `EpollWorkerProofs`, `ServerProofs`, `ServerConfigProofs`, `CampaignStoreProofs`, `RequestPipelineProofs`, `BenchmarkProofs`, `WorkerRngProofs` | lemmas, the inductive invariants, the theorems |

How they fit together: `EpollWorker` has many connections and says of the handler of each only that it
takes what is ready, or closes; `Connection` is that handler, for one. Where `Connection` reads the verdict
on a request and the size of its reply from a script, `RequestPipeline` has what decides them: `Closed` is
the verdict `"drop"`. `RequestPipeline` extends `CampaignStore`, whose loading comes first. `Benchmark` is the same
path through a worker again with its clock. `Server` has the threads those loops run in, and `ServerConfig` what
happens before it.

### Framing and ReusableBuffer

A byte is the position it has in its stream (0, 1, 2, ...), so that a lost, repeated or displaced byte
is visible. A *script* fixes what a connection carries: for each request where its frame starts, its
payload size, the verdict of `parse_bid_request` and `handle_request` on it (`"reply"` or
`"drop"`), and the start and size of its reply. The content of messages is abstracted to that.

A buffer is a record of the struct's fields plus `size` (`storage.size()`). `try_extract_frame`
decodes four bytes; in the model, the first `HeaderSize` unread bytes are a length prefix exactly
when they are the first bytes of some request of the script (`FramedRequests`), and then the length is
that request's. Bytes that are no prefix decode to 0, which the code refuses as it would most garbage.
No run and no proof meets that case: `RequestBytesExact` says the unread bytes always start at a
request.

### Connection

The worker's code between two system calls is one action, the first of the calls included. `pc` is
where the handler is:

| Action | Code in `worker_runtime.cc` |
|---|---|
| `EpollWait`, `ShutdownSeen` | `epoll_wait`, the shutdown fd in the batch |
| `DispatchHangup`, `Dispatch` | EPOLLERR/EPOLLHUP/EPOLLRDHUP, and the pending-write test |
| `FlushWrite`, `FlushFails`, `FlushBlocked`, `FlushDone`, `UpdateFails` | `flush_pending_write`: one `write`, its outcomes, the re-registration and the limit test |
| `NeedMoreData`, `RejectFrame`, `StageReply`, `ArmWrite` | `process_ready_frames`: its returns, and the registration of EPOLLOUT |
| `ReadData`, `ReadWouldBlock`, `ReadEnds`, `BufferFull` | the read loop with its compaction |
| `Forget`, `CloseConnection` | `close_connection` |

The environment is `ClientSend`, `ClientReceive`, `ClientFin`, `ClientReset` and `RequestShutdown`. The
kernel has a level-triggered epoll (`Ready`, `Reported`), a bounded queue each way, and moves any
number of the bytes it could. EINTR repeats the call and is a stuttering step. A write after a FIN and a
reset raises SIGPIPE, which the program does not ignore: the state `"killed"`. The test of
`response_framing.cc:26-28` is left out of `Staged`: after the `reserve` before it there is always room.

The connection starts where `accept4` has returned it. After its end nothing happens to it but at
the client's side, so the runs switch the deadlock check off.

### Server

The main thread's `pc` follows `run_server` from the eventfd to its return; `next` is the index of its
current loop. Signals are delivered to any live thread that is not already in the handler (a nested
SIGTERM in a SIGINT handler does the same again). The handler has two steps, since it reads
the global fd, then reads it again to write. The eventfd's counter is abstracted to `readable`: nobody
reads it, so it never goes back. The timer's `wait_for` holds the mutex from its look at
`benchmark_timer_cancelled` to the wait. `g_shutdown_requested` is written in three places and read
in none: it is not part of the state. The tests of the configuration at the top of `run_server` and the
loading of the campaigns come before any shared state; `ServerConfig` and `CampaignStore` have them. Failures to
create a thread or to allocate end the process and are left out.

`Deliver` is SIGINT and SIGTERM, the signals the code installs its handler for. SIGPIPE keeps its default action: a
worker in its loop may at any time write to a client that has hung up and reset (`worker_runtime.cc:69`), and the
process ends there with all its threads, serving or not. That is `BreakPipe`, with the end `"broken_pipe"`; when
it can happen to a connection is in `Connection` (`FlushFails`).

A worker's `initialize_worker_runtime` is two steps (to `listen`, and the epoll part), each of which may
fail; a failure leaves what `shutdown_worker_runtime` leaves.

`Lifecycle` says the same without fds, handlers, timer or places in the code: the engine starts whole or
fails, a shutdown once asked for is not forgotten, workers serve until then, the report comes when all have
ended, success after it, and neither SIGINT nor SIGTERM cuts the workers' service short. It has a step for the broken
pipe that does. `ImplementsLifecycle` maps the
workers' `none`, `loop` and the rest to idle, serving and ended, `readable` to `asked`, `printed` to `report`, and
`main` with `exit_code` to the outcome, where `killed` (a signal that came where its handler was not installed) and
`broken_pipe` differ: the first may not come while a worker serves.

### EpollWorker

All workers, with fds from one table. `socket` is the kernel's view (which client is behind an open
fd), `connections` and `registered` are each worker's map and epoll instance, `pending` the events of
its batch it has not come to. An event carries the client it was reported for, which the code does
not see: it dispatches by the number alone.

| Action | Code in `worker_runtime.cc` |
|---|---|
| `EpollWait`, `SeeShutdown` | `epoll_wait`, the shutdown fd |
| `StartAccept`, `Accept`, `AcceptFails`, `AcceptDone` | the accept loop: `accept4`, EMFILE, EINTR and ECONNABORTED, EAGAIN |
| `Register`, `RegisterFails` | `epoll_ctl(EPOLL_CTL_ADD)`; a failure closes the fd |
| `DispatchHangup`, `Dispatch` | an event of a connection: closed at a hangup, else served, or closed |
| `Erase` | `connections.erase`, a step after `close()`, when another worker may have the number |
| `TearDown` | `shutdown_worker_runtime` after the joins |

### ServerConfig

One action per option. A word on the command line is known by the number `from_chars` reads in it
(`NumberOf`); `"exit_0"` and `"exit_1"` are the exit codes of the process, `"empty"` an empty string. Between
two arguments the state is that of the loop; `out.workers` holds a number before it is refused, as in the
code.

### Normalize, CampaignFile, CampaignStore

Countries and slots are sequences of bytes, and `normalize_ad_slot_key` is the 32-bit FNV-1a hash, kept as
its two 16-bit halves because TLC's integers have 32 bits with a sign. Names with one hash are the same slot, as the
code's comment admits (`src/normalize.cc:53`); the samples have such a pair, and a name with the hash 0.

A line of the file is of the kind the parser finds it to be; a campaign line has its names and its
creative tokens, each a number, empty or neither. `CampaignStore` reads line by line and token by token:
the creatives go to the snapshot one by one, before it is known whether the line is good. `Fail` is the
`nullptr`, with which the snapshot goes. Keys of the indexes and indexes of campaigns are the code's, from 0.

### RequestPipeline and Auction

A frame carries some fields and is complete or not. `scratch` is the worker's protobuf message; what
`ParseFromArray` does to it (clear, then merge, also when it fails in the end) is protobuf's and marked
external. `context` is read from it at once, the `request_id` only when the response is built, as the views of the
code do. `bucket`, `position` and `candidates` are the loop of `retrieve_candidates`; the loop of
`make_bid_decision` draws any creative of the candidate and any of a few prices. `drawn` is auxiliary:
the bids the loop has made.

`Auction` knows neither stages nor indexes nor the message: a file whose lines are good makes a set of
offers, and a frame is answered from that set and itself at one stroke. `ImplementsAuction` maps
`catalogue` to the offers of the lines that were read.

`received_at_ns` is taken as 0: the code compares it only with the deadline made from it in the same
function.

### Percentiles and Benchmark

`SortValues` inserts one value after another. `std::sort` goes another way, but a list of numbers has one
ascending order, and only that matters to `percentile_value`. `PercentileIndex` is the exact quotient; the code's product of doubles, cut to an integer, is equal to it for
0.50, 0.95 and 0.99 and any number of requests a process could hold. The average is kept as its sum.

`Benchmark` has one action for each stretch between two looks at the clock: a phase takes a `length` after a
`gap`, since the clock is read again before the next. `Following` is the order of the phases with the ways a
request may end early. A worker has up to `MaxPending` replies pending (one for each connection), and looks at
the limit after each flush; `Lose` is the end of a connection that has one.

### WorkerRng

A word is the set of its bits. The step is three times `x ^= x` shifted, each of which can be undone
whatever the width and the shift, so that words of 6 bits stand for words of 64: the step permutes the words and
keeps 0 alone. `Mixed` is the three steps and `next_u64` the test for 0 after them. The model takes every pair of seeds.

## What the runs check

| Run | Shows | Bounds |
|---|---|---|
| `connection` | bytes exact both ways, no stranded frame, consistent pending-write records, closes only for a cause, `ReplyStream` implemented; every request answered, shutdown seen | below; epoll_ctl may fail, limit 3 |
| `connection_long_frame` (violated) | a legal request that does not fit the read buffer ends the connection | buffer of 6, request of 7 bytes with its prefix |
| `connection_limit` (violated) | the limit is reached and the engine does not exit | one request, limit 1 |
| `server` | eventfd outlives its writers, workers are served safely, nothing left behind, reports agree, `Lifecycle` implemented; a signal, a request to stop or the duration's end ends every thread | 3 workers, 3 signals, 2 requests, failing start |
| `epoll_safety` | events reach their connection, maps agree with fds, every connection is watched, nothing stays open | 2 workers, 3 clients, 2 fds, batches of 2, calls may fail |
| `epoll_liveness` | clients are accepted, hangups closed, the shutdown seen | 1 worker, 3 clients, 2 fds, batches of 1, calls may fail |
| `pipeline` | indexes exact, creatives owned, a snapshot is all that was read or none; candidates exact, the best bid wins, `Auction` implemented | every file of up to 2 of 12 lines and 11 longer ones, 18 frames one after another, 2 prices, reads that fail |
| `config` | the last option wins, what is accepted runs | every command line of up to 4 of 16 words |
| `percentiles` | percentiles are ranks | every list of up to 6 of 3 values, lists of 7 to 130 values |
| `benchmark_report` | phases fit the total, summaries agree | 1 worker, 2 requests, times up to 2 |
| `benchmark_limit` | the limit is seen and ends the benchmark | 2 workers with 2 connections, 4 requests, limit 2 |
| `rng` | the shifts bring no generator to 0, no two generators meet | every pair of seeds of 6 bits |

**Connection bounds.** Prefixes of 2 bytes are the least that can be cut. A buffer of 6 holds two
requests of 3 bytes, so that one may wait behind another, holds one request of 6 exactly, and does not
hold one of 7, the largest legal size: the buffer that is full with a whole frame, with a part
of the next one after a consumed one (compaction) and with a frame that never fits all occur.
A receive queue of 4 and a send queue of 2 are less than the larger frames, so reads and writes are
short, and a read may end one frame and bring a part of the next. The limit of 3 is reached at the end of a
script, so that it does not keep a request from its answer. The scripts have three pipelined requests
(the second's reply makes the write buffer grow, the third fills the read buffer), a first request
that is answered and a second refused for each reason there is (does not parse or invalid, zero
length, over the limit, reply too large). Three requests are enough for a reply to be staged in a used
buffer with a request behind it.

**Server bounds.** Three workers give a first, a middle and a last in each loop. Two of the three
signals may be in the handlers of two threads while the third comes to another.

**Event loop bounds.** Two fds and three clients make a number come back, within a batch of two events
and from one worker to the other; the table is full while a client waits, and `accept4` fails again and again. The
liveness run has one worker, since workers meet only in the fds, and batches of one event, so that the listener, two
connections and the eventfd have to take turns.

**Store and pipeline bounds.** Two lines are a campaign before and after another line of each kind; the files
of three have a bad one, a comment or a misplaced header between two campaigns. The sample
lines fail at each test of `append_campaign_line` in turn, and the good ones share countries and slots in
all ways (the same country written differently, colliding slots, an inactive campaign). Each of the two
buckets is the shorter one for some file and frame. The frames lack or spoil each field in
turn, and one is both expired and invalid. Any frame may follow any other.

**Configuration bounds.** Four words hold two options with their values, so that each may repeat or
contradict the first, and an option may stand where a value is expected. The types are scaled to what TLC
can count to: an `int` of 18 bits, a `uint64_t` of as many, a port of 16 as in the code.

**Benchmark bounds.** With two workers and two connections each, both may record between the other's
record and its look; four requests pass the limit of two by as many. The times of the phases are left out there
(`MaxTime = 0`); `benchmark_report` has them, for one worker, since each times its own.

**Fairness.** The worker thread and every other thread is scheduled (weak fairness of the disjunction
of a thread's steps: when it is not waiting, it goes on). The shutdown fd is given strong fairness in
`Connection`: `epoll_wait` returns all ready fds, or rotates when there are more than
`epoll_max_events`, but the worker passes through `epoll_wait` again and again instead of staying
there. `ClientReceive` is weakly fair: a client that waits for a reply reads it; without it no reply
after the send queue could be promised. The client's sends and hangups, requests, and signals have no
fairness. In `Server`, the expiry of the timer is not fair: `SignalEndsServer` shows that
a cancelled timer does not hold the join up for the duration, and `DurationEndsServer` is about the runs in which the
duration does end.
In `EpollWorker` each ready fd is reported again and again (strong fairness of `ReportsFd`): the kernel puts the fds it
has reported at the end of its list when there are more than `epoll_max_events`. `Accept` is strongly fair:
EINTR and ECONNABORTED pass; it promises nothing while the table of fds is full. In `Benchmark` a worker goes on with what
it has begun; `Flush` and `End` are strongly fair, because a client that reads makes its connection writable and
epoll reports it and the eventfd however busy the worker is. Nothing makes clients send requests.

**Properties and slips.** Each checked property is paired in `PROJECT.json` with a mutated definition
(its comment says "A slip") that stands for a plausible mistake at that place of the code and makes TLC
find the property violated: a buffer reset with bytes unread, a read that follows a flush without a
look at the buffer, EPOLLOUT never registered, an eventfd that only the first worker polls, a
notify that is forgotten, a map entry that outlives its fd, a message merged into the last one, a limit compared
with `==`.

### Disagreements with the documentation

1. `src/worker_runtime.cc:386-389` wants buffers "such that they never actually fill up"; with 16 KiB of
   buffer and frames of up to 64 KiB (`include/rtb/worker_runtime.h:24-25`) a legal request closes its
   connection (`LegalRequestsFit`, run `connection_long_frame`).
1. `README.md:133` says "When the request limit is reached, the engine exits". A request counts once its
   reply is staged, and the limit is tested once a reply is flushed: a last client that hangs up between
   the two leaves the engine running (`LimitReachedExits`, run `connection_limit`).

## What is proved

Every safety property that a passing run checks, invariant or refinement, is a theorem here, for every value of the
constants.

The theorems about the connection hold for any set of scripts, any buffer, queue and frame sizes, under
`FramingAssumption` and `ConnectionAssumption`: sizes are positive, and frames of a script follow each
other without a gap and in order. Those about the server hold for any number of workers, signals and
requests under `ServerAssumption`, which only says what the constants are. So do the assumptions of the
other modules: any workers, clients and fds; any lines, files and frames; any words and numbers; any bounds on times and
requests; any width of a generator's word and any shifts below it, 64 and the code's among them. TLC checks the
assumptions in the runs.

Some proofs need induction over data (the length of a list, the bits of a word), which the library's theorems
offer only through operators the provers cannot instantiate. They go through the well-founded order of the
naturals instead: the set of the places where a claim fails would have a least element (`LeastElement`, from `WFMin`),
and the step before it shows that it has not. `WalkExists` shows in the same way that a recursive function on the
places of a list is what its definition says.

**Connection.**

- `ConsumeFrameRemovesPrefix`, `CompactKeepsUnread` and the lemmas beside them: `reserve`, `commit_write`,
  `consume_frame` and `compact` keep the unread bytes, append to them or remove the first of them, and nothing else.
  These are the only facts about the buffer the other proofs use.
- `ConnectionInvariant`: `Spec => []Inv`, where `Inv` is the conjunction of `TypeOK`,
  `RequestBytesExact`, `ReplyBytesExact`, `PendingWriteSync`, `NoStrandedFrame` and `WorkerStateInv`. None
  of the parts is inductive alone. `RequestBytesExact` needs to know that the frame at the head is the
  next request of the script (`HeadIsNextRequest`, from the order of a script), and `ReplyBytesExact` that
  a reply is staged only into an empty buffer, which is `WorkerStateInv`; that in turn holds at
  `"process"` because it is reached either with nothing pending at dispatch (`PendingWriteSync`) or after
  a complete flush. `NoStrandedFrame` at `"epoll_wait"` comes from `"read"` in `WorkerStateInv`: the worker reads only
  when `FrameStatus` is `kNeedMoreData`, and processes again after each read.
- `TypeCorrect`, `RequestsReadExactly`, `RepliesWrittenExactly`, `PendingWriteAgrees`,
  `FramesAreNotStranded`, `WorkerStatesConsistent`: its consequences, one per part of `Inv`.
- `ClosedOnlyForCause`: `Spec => ClosesOnlyForCause`, one case per action that closes; a refused frame is
  not answerable (`RejectedIsUnanswerable`), and a full buffer holds the start of a request that does
  not fit (`FullBufferCannotFit`).
- `RepliesImplemented`: `Spec => ImplementsReplyStream`. The refinement maps `answered` to `handled` and
  `open` to `pc \in Served`; `StageReply` is `Answer`, `FlushWrite` is `Transmit`, `ClientSend` is
  `Arrive`, each way to end is `Stop`, everything else stutters.

**Server.**

- `ServerInvariant`: `Spec => []IInv` of `Server`. The argument is that `main` tells what there is:
  `Places` says for each stretch of `run_server` whether the eventfd is open (`EventFdPlaces`), which
  handlers are installed and where they point (`SetupPlaces`), which threads may be running
  (`ThreadPlaces`), whose fds are open up to `next` (`FdPlaces`), what was reported (`ReportPlaces`), and
  that a handler runs only on a thread that exists (`HandlerOwners`). `Places` is inductive: a step of
  another thread or of the handler changes none of what the main thread set up and revives no thread
  (`OtherStepFrame`), and each step of the main thread has its case.
  `HandlerOwners` is what the eventfd's close needs: the workers and the timer are gone by then, so only
  the main thread could have a handler about to write, and it does not step while it has one.
  `EventFdOutlivesWriters` and `WorkersServeSafely` are properties of `Places` while the process lives;
  a process that a signal's default action has ended (SIGINT's, SIGTERM's or SIGPIPE's: `Dead`) is in no place, and
  the step that ends it changes nothing else (`DeadStep`), which is why `IInv` keeps both beside `Places`.
- `ServerTypeCorrect`, `EventFdIsOpenForWriters`, `WorkersHaveWhatTheyNeed`, `ServerCleansUp`,
  `ReportsAreFinal`: its consequences: the type invariant, and one per
  invariant that the run `server` checks.
- `ServerHasLifecycle`: `Spec => ImplementsLifecycle`. A write of the eventfd, by the handler, the timer or a worker, is
  `Ask` unless somebody asked before; `SpawnWorker` is `Begin`, `RecordRequest` `Record`, `SeeShutdown` `Leave`,
  `BreakPipe` `BreakPipe`, `PrintSummary` `Report`; `End` is the last `RestoreHandlers`, the failing `CreateEventFd` and the signal
  that kills; everything else stutters. `Places` says who is there when a step is taken. To it `ExitPlaces` adds what
  the exit code means: 0 until a start fails, and on the way out 0 only with all workers exited and the report made, 1
  only with none ever begun. The killing signal is an `End` because of `SetupPlaces`: it comes only where a handler
  is not installed, before the workers are started or after they have been joined and their requests reported.

**Event loops.**

- `EpollInvariant`: `Spec => []IInv` of `EpollWorker`. To the three checked invariants it adds that a batch
  has one event for an fd (`EventsDistinct`), none for the fd in hand, which is in the map until erased
  (`InHand`), and that a worker has none after its loop (`AfterLoop`). The argument for `NoStaleEvents`: a pending event's fd is in the worker's map and
  watched, so it is open and another `accept4` cannot return it; it can only be closed by its own worker at its
  own event, after which no event for it is left (`EventsDistinct`). `OneMap` is what another worker's
  step needs: two maps have one fd only while one of them is between `close()` and `erase()`.
- `MapsAgreeWithFds`, `NoForgottenConnection`, `TearDownClosesAll`, `EpollTypeCorrect`: its consequences.

**Campaign store and requests.**

- `StoreInvariant`: `StoreSpec => []StoreInv`. `CreativesOwned` alone is not inductive: while a line is
  read the new creatives belong to nobody yet, so `CreativesThere` says that they are for the line's slot and that all
  campaigns' creatives exist. `PushBackKeepsIndex` is the lemma on the indexes. The hash is never looked into.
- `SnapshotIsWhatWasRead`: `SnapshotIsTheFile` for the loader. `FileSoFar` is its inductive form: after `n` lines the
  snapshot's campaigns are those of the first `n` lines that are campaigns, one for one and in order, and within a line
  the creatives beyond the last campaign's are those of the tokens read. `StoreStaysTheFile` carries it, with
  `IndexesExact` and `CreativesOwned`, through the handling of requests.
- `PipelineInvariant`: `Spec => []PipelineInv`, which holds `StoreInv`, the state before the loops, and the two
  loops' invariants: the candidates are those of the bucket's part seen so far that match (`Filtering`), and the
  decision is the best of the bids made so far (`Deciding`). `CandidatesAreExact` then rests on the lemma `SeedBucket`: either bucket has
  every campaign that matches, in order, and when one key has no bucket nothing matches. `BestBidIsKept` needs
  `CreativesOwned`: every candidate has a creative, so that none is passed over.
- `PipelineImplementsAuction`: `Spec => ImplementsAuction`. `EndOfFile` is `Load`, `Receive` is `Ask`, the steps
  that refuse and `BuildResponse` are `Answer`, the stages between stutter. That the catalogue is the snapshot
  (`CampaignOffered`, `OfferedIsCampaign`) comes from `FileSoFar`; that an answer is `Permitted` (`ResponsePermitted`,
  `RefusedIsNoRequest`) from two more parts of `PipelineInv`: `Understood`, that the scratch message and the context
  are still those of the frame asked, at every stage, and `BidsAreCandidates`, that each bid made is a candidate's with one
  of its own creatives.

**Command line.**

- `ConfigInvariant`: `Spec => []ConfigInv`. `LastOptionsWin` compares the state with any set of positions that
  satisfies `AreOptions`; the lemma `ReadOption` says that a step adds one position to it, of one option, and
  `LastValueRead` that this moves that option's last value only. `SoundSettings` is what `AcceptedConfigsRun`
  needs while the parsing goes on: `out.workers` is positive unless the status is already a refusal.

**Benchmark.**

- `BenchmarkInvariant`: `Spec => []IInv` of `Benchmark`. `PhasesFitTheTotal` rests on `TimesFit`: the phases timed so
  far fit the time so far, and the ones to come are 0. `LimitIsNotOverlooked` is inductive with the types and
  `RoomForReply`: a record leaves a reply pending, a flush turns it into a look, and a look that follows the record
  sees the list at least as long.
- `PercentileIndexes`: the index is in range for any number of values, and 50, 95, 99 are in order.
- `PercentileIsRank`: for any list of numbers, `percentile_value` has not more values below it than its percentage of the
  last index, and not fewer up to it. `SortSorts` gives the sorted list and the place each of its values came from, each
  place once; `RankOfSorted` counts the values below through these places. `RanksAreExact` is the run's
  property.
- `SummaryIsConsistent`: `Spec => []SummariesAgree`. `Reported` says that the summary is of the list as it is, which
  needs that nobody records after the joins. A phase of a request is at most its total (`PhaseAtMostTotal`, from
  `PhasesWithinTotal`), and two lists one of which is nowhere above the other have minimum, maximum, sum and every percentile in that
  order (`SummariesOrdered`). For the percentiles, sorted apart, this follows from their ranks:
  otherwise the places of the upper list's values up to its percentile, which are more than the rank, would all have values of
  the lower list below its own, which are not.

**Random generator.**

- `GeneratorsNeverStop` and `GeneratorsNeverMeet`: `x ^= x << n` is injective, because two words that differ have a
  lowest bit at which they do, and that bit is not changed by the shifted bits, which agree; likewise with the highest
  for `>>`. So the three steps are a permutation of the words that leaves 0 to itself (`MixedInjective`), and no other
  state is brought to 0 (`MixedIsNotZero`). `GeneratorsNeverStop` says so of every state a generator reaches: the test
  for 0 in `next_u64` replaces nothing, only the seed's does. `GeneratorsNeverMeet` follows from the permutation.

The type invariants of `Server`, `EpollWorker`, `CampaignStore`, `ServerConfig`, `Benchmark` and `WorkerRng`, and `WorkerStateInv`, are
proved and in no run.

**Only model-checked**: the liveness properties (`EveryRequestAnswered`, `ShutdownStopsWorker`, `SignalEndsServer`,
`ShutdownReachesAll`, `DurationEndsServer`, `EveryClientAccepted`, `HangupsAreClosed`, `ShutdownEndsWorkers`,
`LimitEndsBenchmark`), since temporal proofs under fairness need ENABLED, which is beyond the prover; and the hash on
concrete names, which the proofs leave open.

## What is not modelled

- Standard output: it is taken to be there (writing the report to a pipe nobody reads would end the process too).
- Text: log lines, the console and JSON reports, usage and error messages, the splitting of a CSV line, the
  trimming of a field and the reading of a number in it (`parse_u64`, `parse_double_value`): a line has the
  kind they would find. `value_per_action` and `aggressiveness` are stored and never read.
- The test of the size against INT_MAX in `parse_bid_request` (`parse.cc:34`): a frame is at most `max_frame_size`.
- protobuf: encoding, and the failure of `SerializeToArray`, which needs a missing required field.
- The system calls between `socket()` and `listen()` and those after `epoll_create1()` one by one: they share one
  failure path, and each group is one step of `Server`.
- `next_unit_double` and `uniform_index`: the pipeline takes any creative and any price, which is more than they give.
- How far the list of requests may run past the limit, the load of a client that sends while its reply is
  pending, what becomes of a recorded request whose connection epoll_ctl fails for, hashes that collide, a read of the
  campaign file that fails, and a promise that SIGPIPE does not happen: nothing in the repository says what they should be
  (see the hazards without a property).
- The SSP simulator, the benchmark of the pipeline and the tests, which are clients and callers of what is
  modelled; generated code.

## What could come next

1. `Engine`: `Server` composed with `EpollWorker`, so that the shutdown fd of one is the eventfd of the other, and the
   last close of a connection comes before `run_server` returns.
2. The safety behind the liveness properties: that a state in which something is still to be done always has a step
   that gets on with it, as an invariant.
