# TLA+ models of soa's HTTP client and service plumbing

This directory holds TLA+ models of the event-driven parts of this repository
(`src/`), the TLC configurations that check them, and `PROJECT.json`, which
lists every component, run, mutant, finding and hazard and maps each model
definition to the source lines it translates.

## The system

`src/` is a slice of Datacratic's soa service library. Its parts, and how they
interact:

| Part | Source | Role |
|---|---|---|
| `HttpClient` | `src/unnamed/part_001` (http_client.cc) 537-682 | a `MessageLoop` with one loop thread, a bounded `TypedMessageSink` `queue_` that caller threads `tryPush` into, a stash of `numParallel` connections, a stack of free connections (`avlConnections_`, `nextAvail_`) and `inThreadQueue_` for requests that found no free connection |
| `HttpConnection` | part_001 365-532 | one request at a time on one socket: `perform` writes the request text and then the body in `sendSize` chunks as write results come back (`responseState_` IDLE → HEADERS → BODY → IDLE), feeds received bytes to an `HttpResponseParser`, and on the parser's `onDone` calls the request's callbacks, `clear()`s and tells the pool (`onDone`) |
| `ClientTcpSocket` | `src/service/http_parsers.h` (tcp_socket.cc) 214-838 | a non-blocking TCP socket with its own epoll fd: `connect`, `write` (push into `threadBuffer_`, signal a wakeup eventfd), `flush` (the write loop with EAGAIN), one-shot re-arming of the socket and of the wakeup fd, connection results, reads, disconnection |
| `HttpResponseParser` | part_001 120-360 | incremental HTTP/1.1 response parser |
| `RestRequestRouter`, `PathSpec`, `RequestFilter` | part_001 735-1656, `src/service/in_process_rest_connection.h` 84-651 | server-side routing of REST requests |
| `EndpointBase` | `src/service/sqs.cc` 393-917 (endpoint.cc) | server endpoint: epoll threads, transports, periodic timers, shutdown |
| JSON printing contexts | `src/service/rest_request_fwd.h` 45-666 (json_printing.cc) | print a value as JSON text to a stream or a string, or build it as a `Json::Value` |
| `SqsApi` | `src/service/sqs.cc` 16-389 | builds the query of each AWS SQS call, sends it with `performGet`/`performPost` and reads the XML reply |
| `SnsApi`, filter streams, event service, `HttpNamedEndpoint` | the rest | request formatting, output formatting, configuration |

All `HttpClient`, `HttpConnection` and `ClientTcpSocket` handlers run on the
client's single loop thread; other threads only push into `queue_`. A handler
calls the others synchronously: a connection result calls `handleEndOfRq`,
which calls the pool's `onDone`, which may `perform` the next waiting request
on the same connection, which may `connect` again, whose synchronous failure
calls `handleEndOfRq` again, all inside one epoll callback.

## Modules

### `HttpClient.tla`: pool, connections and sockets

State (`VARIABLES`):

* `conn[c]`: the members of connection `c`: `ClientTcpSocket::state_`,
  `threadBuffer_` (`buffer`, a sequence of strings), `currentLine_`,
  `writeReady_`, the wakeup fd (armed, fired, closed) and whether it is
  signalled, the epoll registration of `socket_` (none, EPOLLIN, EPOLLIN|OUT,
  fired), whether `socket_` holds an fd not yet `::close`d (`socketOpen`),
  and `HttpConnection::request_`, `responseState_`, `uploadOffset_`.
* `net[c]`: the kernel socket (`none` when `socket_ == -1`, pending, up, or a
  connect error, FIN or RST) and the server behind it (what it has read, the
  responses it has sent and not yet been read, requests it answered early).
* `pool`: `queue_`, `inThreadQueue_`, `avlConnections_`, `nextAvail_`.
* `ghost`: history: the order requests were admitted into `queue_`, the order
  they were performed, how often each got `onDone`, and whether an open
  socket fd was ever forgotten without `::close()` (`leaked`).
* `crashed`: the process ended (`abort()`, an exception escaping the loop,
  `pop_front` on an empty deque, a throw inside `ClientTcpSocket::onException`,
  which calls itself). `spinning`: the loop thread is stuck in
  `handleReadReady`.

A handler chain is an operator from a snapshot record `S` of the state one
chain can touch (one connection, its socket, the pool, the history) to the
snapshot after it; `Apply(S)` writes the result back as one atomic step. Each
C++ method is one operator with the same name (`Perform`, `Connect`,
`OnConnectionResult`, `HandleEndOfRq`, `HandleHttpConnectionDone`,
`ReleaseConnection`, `OnWriteResult`, `FlushLoop`/`Flush`, `DoClose`,
`HandleDisconnection`, `HandleConnectionResult`, `HandleWriteReady`,
`HandleReadReady`, ...); the mutually recursive ones are declared `RECURSIVE`.
`Then(s, Op)` evaluates `s` once and applies `Op`, so that TLC does not
re-evaluate a chain while checking liveness.

Actions (one per event the loop thread or a caller handles):

* `EnqueueRequest(r)`: a caller's `enqueueRequest`, only when `queue_` has room
  (the full case returns false to the caller and changes nothing).
* `QueueEvent`: the queue's `onEvent`, `handleQueueEvent` with `getConnection`
  and the whole chain `perform` starts.
* `WakeupEvent(c, room)`: `handleWakeupEvent` of connection `c` (drain the
  eventfd, `flush` if `writeReady_`, re-arm or `doClose`).
* `SocketEvent(c, room)`: `handleSocketEvent` with the event bits the kernel
  state gives (`Events(c)`): EPOLLOUT (`handleWriteReady`, which is
  `handleConnectionResult` while CONNECTING), EPOLLIN (`handleReadReady` and
  the response callbacks), EPOLLHUP (`handleDisconnection`), else re-arm.
* Environment: `ConnectCompletes(c)` (SO_ERROR of a pending connect),
  `ServerReceive(c)` (the server reads one string and answers a request once it
  has all of it, or early, after the text of a request with a body),
  `PeerClose(c)` (FIN or RST).

`room` is how many writes the kernel accepts in one `flush` before EAGAIN;
`Outcomes` is what `::connect()` returns for each connect one chain may make.

Properties:

| Property | What it says |
|---|---|
| `TypeOK` | type invariant |
| `PoolConsistent` | the free part of `avlConnections_` holds `N - nextAvail_` distinct connections, each with no request and IDLE |
| `NoIdleWhileWaiting` | no request waits in `inThreadQueue_` while a connection is free (the code prints `BAD` when it sees this) |
| `NoLostRequest` | every admitted request is in `queue_`, in `inThreadQueue_`, held by a connection, or done |
| `DispatchInOrder` | requests are performed in the order they were admitted |
| `UploadInBounds` | `uploadOffset_` never passes the request's content size (checked only by the `upload_oob` reproduction: a write result of an earlier request's unsent body, left in the socket by `clear()`, advances the next request's upload once a server answers early, and no passing run has early answers and checks the upload) |
| `NoCrash` | the process does not abort |
| `NoSocketLeak` | no socket fd is dropped without `::close()` (checked only by the `fd_leak` reproduction) |
| `RequestsComplete` | every admitted request eventually gets `onDone` (liveness) |
| `ImplementsRequestService` | `HttpClient` implements the abstract `RequestService` (below) |

#### `RequestService.tla`: what the pool promises its callers

`RequestService` is the client without connections, sockets or queues:
`admitted` (the requests accepted, in order), `started` (the requests
started, in order) and `done[r]` (whether `onDone` has been called).
`Admit(r)` appends a request. `Progress` is one event of the loop thread.
It extends `started` by the next admitted requests and sets `done` for some
started requests that were not yet done. One step may start and end several
requests, because one epoll callback runs a whole handler chain: a response
ends one request, and its `onDone` performs the next on the same connection.

`HttpClient` instantiates it with `admitted`, `started` and `done` mapped
to the history `ghost`. The history is written where the code acts:
`enqueueRequest` appends to `admitted`, `perform` to `started`, and
`handleEndOfRq` counts `onDone`. `ImplementsRequestService ==
Service!Safety` is checked as a `PROPERTY` of `http_hostile`. So, under
every connect failure, EAGAIN, early answer, FIN and RST:

* requests start in admission order, each at most once;
* `onDone` is called only for a started request;
* `onDone` is called at most once per request.

A second `onDone` would make `done` leave `{0, 1}`. The refinement is
safety only: the hostile faults leave requests unfinished, and
`http_wakeup_eagain` shows one.

### `MC_HttpClient.tla` and its configurations

`MC_HttpClient` gives model values to the connections (`c1`, `c2`) and the
requests (`r1`..`r4`) and defines the sets the configurations choose from.

| Run (cfg) | Expect | Bounds | What it shows |
|---|---|---|---|
| `http_normal` (`MC_HttpClient_normal.cfg`) | pass | 2 connections, 4 requests (1 with a body), queue of 2, connects succeed at once or later, kernel takes 3 writes per flush, server answers in order | the pool, ordering and no-crash invariants and `RequestsComplete` hold when nothing fails |
| `http_hostile` (`..._hostile.cfg`) | pass | 2 connections, 3 requests, every connect outcome, 0/1/3 writes per flush, early answers, FIN, RST | `PoolConsistent`, `NoIdleWhileWaiting` and `ImplementsRequestService` hold under every failure the code meets (until the process dies) |
| `http_lost_request` | violation of `NoLostRequest` | 1 connection, synchronous connect failure | see findings |
| `MC_HttpClient_upload_oob.cfg` (reproduction) | violation of `UploadInBounds` | 2 requests with a body, early answer, EAGAIN | see findings |
| `http_wakeup_eagain` | violation of `RequestsComplete` | EAGAIN in a wakeup flush | see findings |
| `MC_HttpClient_refused.cfg` (reproduction) | violation of `NoCrash` | ECONNREFUSED | see findings |
| `MC_HttpClient_fd_leak.cfg` (reproduction) | violation of `NoSocketLeak` | hostile faults | `handleDisconnection` sets `socket_ = -1` without `::close()` when not DISCONNECTING, and a reconnect's `::socket()` overwrites a DISCONNECTING socket that `doClose` left open |
| `MC_HttpClient_peer_fin.cfg` (reproduction) | violation of `RequestsComplete` | server closes | see findings |
| `MC_HttpClient_unreach_hang.cfg` (reproduction) | violation of `RequestsComplete` | ENETUNREACH | see findings |

Why these bounds: two connections and three or four requests are the fewest
with which a request has to wait in `inThreadQueue_` and a later one can
overtake it (four are needed for two to wait at once under the normal run);
a queue of two lets callers run ahead of the loop; one body request and a
`sendSize` of one give a body of exactly one chunk, so HEADERS, BODY and the
`chunkSize == 0` exit all happen; rooms of 0, 1 and 3 give EAGAIN before the
first string, between two strings, and never. Every action and every
disjunct of `ServerReceive` fires between the two passing runs.

Fairness: weak fairness on `QueueEvent`, on `WakeupEvent(c, MaxRoom)` and
`SocketEvent(c, MaxRoom)` (epoll reports a ready fd to the loop thread, and
the kernel eventually drains the send buffer), on `ConnectCompletes` and on
`ServerReceive` (the server keeps reading). Callers get none: nobody has to
send a request. `CHECK_DEADLOCK FALSE` everywhere: when every request is done,
the loop thread idles in `epoll_wait`, which is a state with no enabled step.

### `ResponseParser.tla`: `HttpResponseParser`

`HttpResponseParser::feed()` and `handleHeader()` (part_001 120-360), the
incremental parser `HttpConnection::onReceivedData` feeds with each `read()`
result. Bytes are abstracted to tokens, one per byte except `"H"` for the five
bytes `HTTP/` and `"L"` for the header name `Content-Length`; `StatusMin`
scales the code's threshold of 16 bytes before a status line is read.

* State: `pos` (how much of the stream has been fed), `st` (the parser's
  `state`: status line, headers, body), `buf` (`buffer_`), `rem`
  (`remainingBody_`), `ev` (the callbacks made so far, one `data` per body
  byte so that any split of `onData` compares equal), `thrown`.
* `Receive`: one `feed()` of the next chunk of any length up to `MaxChunk`.
  `Feed` builds the frame of one call (`data`, `ptr`, `fromBuffer`) and
  `ParseLoop` runs the code's loop: `StatusLineStep`, `HeaderLoop` with
  `HandleHeader`, `BodyStep`, each with its early returns (`Return`,
  `KeepUnlessBuffered`) and throws.
* `Ref` is the parse of the whole stream in one piece: the reference.

| Property | What it says |
|---|---|
| `CallbacksFollowStream` | the callbacks made are always a prefix of `Ref`: nothing reported twice, skipped or invented, whatever the read boundaries |
| `ParseComplete` | once the whole stream is fed (and nothing threw), every response has been reported in full |
| `NoParseError` | `feed()` never throws on a well-formed stream |

| Run | Expect | Bounds | What it shows |
|---|---|---|---|
| `parser_client` | pass | three responses (bodies of 0, 1, 2 bytes, with and without extra headers), every chunk length, reads never spanning two responses (as `HttpClient` reads) | the callbacks follow the stream and are complete at its end, unless `feed()` throws |
| `parser_reason_split` | violation of `NoParseError` | one response | a read ending inside the reason phrase drops the status line |
| `MC_ResponseParser_cr_split.cfg` (reproduction) | violation of `NoParseError` | one response, threshold 7 | a read ending just after the status line's CR loses the line |
| `MC_ResponseParser_pipelined.cfg` (reproduction) | violation of `CallbacksFollowStream` | two responses in reads that may span both | a read completing a buffered response and starting the next reports the first twice |

`CHECK_DEADLOCK FALSE`: once the stream is fed or `feed()` has thrown there
is nothing more to read.

### `Endpoint.tla`: `EndpointBase` (endpoint.cc, `src/service/sqs.cc` 393-917)

The server endpoint: `numThreads` event threads all block in `epoll_wait` on
one epoll set with `EPOLLONESHOT` registrations; transports (connections) and
periodic timers are registered in it; `shutdown()` runs on another thread.

* State: `reg[fd]` (the epoll registration of each transport or timer fd:
  none, armed, fired), `mapping` (`transportMapping`), `opened`, `killed`
  (the transports whose handler has been asked to close), `hungUp` (the
  peer closed), `numTransports`, `idle` (`idle_`), `added` (timers from
  `addPeriodic`), for each thread `tpc` (off, start, loop, rearm) and `tfd`
  (the timer it is about to re-arm), `threadsActive_`, `shutdown_`,
  `disallowTimers_`, `cpc` (the controlling thread: before spinup, up, each
  wait of `shutdown()`, down), `toStop` (timers `shutdown()` still has to
  remove) and `crashed` (a `throw` from a failed `epoll_ctl`, which ends the
  process).
* Actions: `AddPeriodic`, `Spinup`, `NotifyNewTransport`, `PeerClose`,
  `ThreadStart`, `ThreadExit`, `ThreadTransport` (the transport handler,
  which closes the transport through `NotifyCloseTransport` when it was
  killed or the peer hung up, else re-arms it), `ThreadTimer` (read the
  timerfd, call the callback, test `disallowTimers_`), `ThreadRearm` (the
  `restartPolling` of that timer), and the steps of `shutdown()`:
  `ShutdownBegin` (kill every transport, set `disallowTimers_`),
  `ShutdownStopTimer`, `ShutdownIdle`, `ShutdownTransports`,
  `ShutdownThreads`, `ShutdownJoin`. The test of `disallowTimers_` and the
  re-arm are separate steps because no lock is held between them.

| Property | What it says |
|---|---|
| `TransportAccounting` | `numTransports` equals the number of mapped transports, `idle_` is set exactly when there are none, and each mapped transport is registered |
| `TimerRearmed` | while the endpoint is up, a timer that has fired is being re-armed by some thread (checked only by the `respinup` reproduction: with one spinup it restates `ThreadTimer`'s re-arm branch) |
| `NoEpollError` | no `epoll_ctl` fails (the process does not die) |
| `ShutdownCompletes` | (liveness) once `shutdown()` has started it returns (or the process has died); checked only by the `late_transport` and `no_spinup` reproductions, since `ImplementsLifecycle` implies it |
| `ImplementsLifecycle` | `EndpointBase` implements the abstract `EndpointLifecycle` (below), fairness included |

#### `EndpointLifecycle.tla`: what the endpoint promises its owner

`EndpointLifecycle` has three variables:

* `phase`: created, running, stopping, stopped or dead;
* `open`: the transports held;
* `timers`: the timers that fire.

Its steps:

* `AddTimer` works in any phase except stopping.
* `Start` moves created or stopped to running.
* `Open` happens only while running.
* `Close` happens while running or stopping.
* `Stop` is the call of `shutdown()`.
* `StopTimer` happens while stopping.
* `Stopped` returns from `shutdown()`. It is enabled only when nothing is
  open and no timer is left.
* `Die` is the death of the process during shutdown, the known timer race.

Weak fairness on closing, on stopping timers and on `Stopped` says that
`shutdown()`, once called, returns.

`Endpoint` maps its state onto these variables:

* `phase` comes from `cpc`: init is created, up is running, every wait of
  `shutdown()` is stopping, and down is stopped. When `crashed` holds,
  `phase` is dead.
* `open` is `transportMapping`.
* `timers` is the set of timers still in the epoll set.

`ImplementsLifecycle == Lifecycle!Spec` is a `PROPERTY` of
`endpoint_normal`. `MC_Endpoint_late_transport.cfg` violates it as well:
the late transport is an `Open` while stopping.

| Run | Expect | Bounds | What it shows |
|---|---|---|---|
| `endpoint_normal` | pass | 2 threads, 2 transports, 2 timers, one spinup | `TypeOK`, `TransportAccounting` and `ImplementsLifecycle` hold; the lifecycle's fairness makes `shutdown()` return with nothing open or armed |
| `endpoint_timer_race` | violation of `NoEpollError` | 1 thread, 1 timer | a thread that tested `disallowTimers_` before shutdown set it re-arms a removed timer |
| `MC_Endpoint_respinup.cfg` (reproduction) | violation of `TimerRearmed` | spinup after a shutdown allowed | `spinup` does not reset `disallowTimers_` |
| `MC_Endpoint_late_transport.cfg` (reproduction) | violation of `ShutdownCompletes` (and of `ImplementsLifecycle`) | a transport may arrive during shutdown | it is never killed and shutdown waits forever |
| `MC_Endpoint_no_spinup.cfg` (reproduction) | violation of `ShutdownCompletes` | a transport may arrive before `spinup` (`AcceptBeforeSpinup`: an acceptor thread of `listen()` runs apart from the event threads) | `shutdown()` queues the kill with `doAsync`, no event thread runs it, and `sleepUntilIdle` waits forever |

Two threads are the fewest for two handlers to run at once; two transports
and two timers let one be closed or removed while the other is in use.
Fairness: weak fairness on each thread's steps (the kernel reports a ready
fd to some waiting thread) and on each step of `shutdown()`; none on new
transports, peers or `addPeriodic`. `CHECK_DEADLOCK FALSE`: after
`shutdown()` returns (or the process died) nothing is enabled.

### `Router.tla`: `RestRequestRouter`

Routing of a REST request (part_001 815-1262, 1581-1597, and
`RestRequestParsingContext` in `in_process_rest_connection.h`). A router
tree is built by folding the program's `addRoute`/`addSubRouter` calls
(`ApplyCall`, `AddRoute`, `AddSubRouter`, `ParseVerbs`); a request is
dispatched by the mutually `RECURSIVE` operators `ProcessRequest`,
`SubRoutes`, `RouteProcess`, `MatchPath`, with the `StateGuard` of the
parsing context as `SaveState`/`RestoreState`, and OPTIONS by
`RouterOptions`/`RouteOptions`. Paths are sequences of one-character
tokens; a regex path spec is a literal followed by a greedy run of a
character class, optionally captured. A handler is abstracted to what it
returns (`MR_YES`, `MR_ERROR`, `MR_ASYNC`, `MR_NO`), whether it sends a
response or throws, and the one object it reads from the context first
(`getObjectAs<T>(i)` or `getSharedPtrAs<T>(i)`, or none). An object
extractor is abstracted to what it does:

* `addObject<T>` or `addSharedPtr<T>` of a type `A` or `B`;
* a check that sends a 404;
* a throw.

The templated `addSubRouter<T>` (`AddSubRouterT`) mounts a `T` with its own
handler. Its extractor is `T::getObject`, taken through `getExtractObject`.

The parsing context holds:

* the objects: a sequence of entries `[ty, shared]`, whose type is `T` or
  `shared_ptr<T>`;
* how many objects were added;
* how many deleters have run.

`GetObject` and `GetObjectAs` follow the code:

* index -1 is the last object;
* any other index counts from the front, so other negative indices throw;
* an object added as `shared_ptr<T>` is also a `T`;
* any other type throws.

A read that throws makes the handler throw.

The state is the request being served (`req`) and the result of serving it
(`out`: the handlers called, the responses sent, the Allow set);
`Serve(r)` hands one request to `handleRequest`. Serving leaves the router
as it was, so a behaviour serves one request and then stops
(`CHECK_DEADLOCK FALSE`); the choice of `r` covers every request. The reference (`RefCalls`, `RefResps`,
`RefAllow`) is written without the recursion or the context: every walk
down the tree is matched from a fresh context, and the first walk in
depth-first route order that ends in a deciding handler is the one taken.

| Property | What it says |
|---|---|
| `DispatchAsReference` | the handlers called and responses sent are those of the reference: backtracking restores the context, filters and `MR_NO` fall through as the spec says |
| `AllowAsReference` | the Allow header of OPTIONS is the set of verbs of the routes that consume the whole path |
| `SingleResponse` | every request gets exactly one response |
| `ObjectsReleased` | every object an extractor added is popped, and its deleter run once, by its route's `StateGuard`: `processRequest` hands back an empty object stack |

The reference also reads each handler's object from the objects its walk
added. It uses the documented index rule: every negative index is an
offset from the end.

| Run | Expect | Bounds | What it shows |
|---|---|---|---|
| `router_dispatch` | pass | a tree of 9 calls: literal and regex specs; a sub-router and an `addSubRouter<T>`; verb and query/header filters; extractors that add an `A` or a `shared_ptr<B>`, send a 404 or throw; handlers that read by index 0 and -1, one of which finds no object and throws; a non-terminal handler that declines; handlers of every result. Requests: all 1452 requests of 3 verbs, paths of up to 4 characters, with or without a query parameter and a header | dispatch and object reads agree with the reference, every object is released, one response each |
| `router_options` | pass | the same tree without parameter filters, OPTIONS requests | Allow agrees with the reference |
| `MC_Router_param_only.cfg` (reproduction) | violation of `DispatchAsReference` | a route with only a query filter | it never matches |
| `MC_Router_options_param.cfg` (reproduction) | violation of `AllowAsReference` | the full tree | Allow lists `header:h=1` |
| `MC_Router_send_throw.cfg` (reproduction) | violation of `SingleResponse` | a handler that sends and throws | two responses |
| `MC_Router_objindex.cfg` (reproduction) | violation of `DispatchAsReference` | a handler under a sub-router reads `getObjectAs<A>(-2)` | `getObject` throws for -2, though its comment says negative indices count from the end: the request is answered 500 |

Paths of four characters over `/`, `a`, `1` reach every route of the tree,
regex runs of one and two characters, backtracking out of a sub-router after
it consumed part of the path, and partial literal matches (`/a` against
`/a1`). `MaxDepth` bounds the objects pushed (two extractors on one walk).
`MaxFan` is the most routes under one router (six at the root). With
these bounds, every route of the tree is on some walk of the reference.
The runs reach all of these cases:

* a shared and a plain read that succeed;
* a read that throws;
* `MR_ASYNC`;
* `MR_NO`;
* the 404 answer.

### `JsonPrinting.tla`: the JSON printing contexts

`json_printing.cc` (kept in `src/service/rest_request_fwd.h` 45-666) has
three implementations of one interface: `StreamJsonPrintingContext` and
`StringJsonPrintingContext` print text as the calls arrive, keeping a `path`
of `{isObject, memberNum}` entries; `StructuredJsonPrintingContext` builds a
`Json::Value` through a stack of pointers (`path`) and a `current` pointer.

* State: `stream` and `strc` (each a `path` and the text printed so far),
  `structured` (the value as a function from paths of member names and
  array indices to a token, `path` and `current`) and `caller` (what the
  caller may call next and the containers it has open).
* Text is a sequence of tokens: punctuation, literals, numbers and strings;
  a string keeps its characters as printed, escapes included
  (`EscapeChar`, `WriteStringUtf8`). Each `write*` method is one disjunct of
  `StreamWrite`, `StringWrite` or `Leaf`, by what it prints or assigns.
* Actions: `StartObject`, `StartArray`, `StartMember(name)`,
  `NewArrayElement`, `EndObject`, `EndArray`, `Write(c)`. Each applies the
  same call to the three contexts (`Stream*`, `String*`, `Structured*`,
  one operator per method). The caller follows the order the value
  descriptions use (a value where one is expected, `startMember` before a
  member, `newArrayElement` before an element); this protocol is not in
  `src/` and is modelled from the interface (`Open`, `Close`, `InOpen`,
  `Written`).
* `Read(text)` is a reference JSON reader, a `FoldLeft` of `ReadToken` over
  the tokens with `Unescape` for strings: it checks the text is JSON and
  returns the value it denotes.

| Property | What it says |
|---|---|
| `TypeOK` | type invariant |
| `PrintsStructured` | the text of both printing contexts is always a prefix JSON reads, and once the value is complete it reads back as exactly the value the structured context built |

| Run | Expect | Bounds | What it shows |
|---|---|---|---|
| `json_agree` | pass | two names, containers two deep with up to two members or elements, a null, an int, a bool, a finite double, a string with a quote and a newline, a raw JSON write | the three contexts agree on every sequence of calls: commas, member numbering and nesting |
| `MC_JsonPrinting_unsigned.cfg` (reproduction) | violation | `writeUnsignedInt` | the string context's `sprintf("%ui")` prints `7i` |
| `MC_JsonPrinting_control.cfg` (reproduction) | violation | `writeStringUtf8` of a string with 0x01 | the control character is copied unescaped |
| `MC_JsonPrinting_nonfinite.cfg` (reproduction) | violation | `writeDouble(inf)` | the printing contexts write the string `"inf"`, the structured one a number |

Two levels and two items are the fewest with which a comma follows a nested
container and a member number must survive a nested object. No fairness: a
value is printed once and then nothing is enabled (`CHECK_DEADLOCK FALSE`).

### `SqsQuery.tla`: `SqsApi`

`SqsApi` (`src/service/sqs.cc` 16-389) has no state of its own: each method
builds a list of query parameters, sends it to the queue's resource and
reads the reply. The model has one variable, `last`, the last call with its
arguments, the request it sent (or that it threw first) and what it
returned. There is one action per method (`CreateQueue`, `DeleteQueue`,
`GetQueueUrl`, `SendMessage`, `ReceiveMessageBatch`, `ReceiveMessage`,
`DeleteMessage`, `DeleteMessageBatch`, `ChangeMessageVisibility`,
`ChangeMessageVisibilityBatch`, `AddPermission`, `RemovePermission`), with
its arguments chosen from small sets.

* A query is a sequence of key/value pairs. A numbered key such as
  `"Attribute." + to_string(counter) + ".Name"` is the record
  `[name, n, f]`; the concatenation is injective, so equal records are equal
  strings. The counters are translated as the folds that carry them
  (`CreateQueueAttrs`, `PermissionPairs`, the bit loop over `Rights`).
* `GetQueueResource` refuses a URI that does not start with `serviceUri`.
  That call throws before the request is sent.
* A reply is a sequence of messages, each a sequence of `Attribute`
  elements. `ExtractMessage` reads them in order. It parses digits with
  `stoll`/`stoi`, turns milliseconds into a `Date`, and throws on a name it
  does not know.
* The values of `SqsApi::Rights` (in `sqs.h`, not in `src/`) are one bit per
  right, with `All` the five of them, as the loop over `1 << i` for `i < 5`
  and `rightToString` imply.

| Property | What it says |
|---|---|
| `QueryAsReference` | every request names each parameter once; the entries of each list parameter are numbered 1, 2, ... with every field (the AWS query convention); the entries are exactly the attributes, receipt handles, visibility pairs or grants the caller passed |
| `ReceiveAsReference` | a receive returns the reply's messages in order (`receiveMessage` the first, or an empty one), each attribute in its field |

| Run | Expect | Bounds | What it shows |
|---|---|---|---|
| `sqs_agree` | pass | two queue URIs (one not under `serviceUri`), two handles, two principals, rights of no, one, two and all bits, batches of up to two entries (one for `changeMessageVisibilityBatch`), replies of zero to two messages | the counters of `createQueue`, `deleteMessageBatch` and `addPermission` number their entries correctly |
| `MC_SqsQuery_vis_batch.cfg` (reproduction) | violation of `QueryAsReference` | a visibility batch of two | `changeMessageVisibilityBatch` never increments `counter`: both entries are `...Entry.1` |
| `MC_SqsQuery_fifo_attr.cfg` (reproduction) | violation of `ReceiveAsReference` | a reply with `MessageGroupId` | the request asks for `All` attributes, and `extractMessage` throws on one it does not know after the messages were received |

Rights 0, 1, 6 and 31 cover these cases of the bit loop: no grant, the
first bit, a gap before a set bit, and `All`. Two pairs check that the
counter runs on across pairs. `sendMessage`'s `timeoutSeconds` and
`delaySeconds` are accepted and never sent; `SendMessage` keeps that.

## Findings

The runs of `PROJECT.json` are the questions the project asks: the eight
passing runs and one violation run for each of four defects. Rows marked
"(reproduction)" in the tables above are configurations kept beside them,
each reproducing a further defect with `tlc -config <cfg> <MC module>`;
`PROJECT.json` lists each of these as a hazard whose note names the cfg.

See `findings` in `PROJECT.json`: each violation run reproduces a defect of
the code with a short TLC trace (lost request through re-entrant
`handleHttpConnectionDone`; stale body write results; no EPOLLOUT re-arm after
EAGAIN in `handleWakeupEvent`; abort on a refused connect; a busy loop on end
of stream; the next request's socket deregistered by the same event's
EPOLLHUP; three ways a read boundary breaks the response parser; the
endpoint's timer re-arm race, its `disallowTimers_` left set by `spinup` and
its shutdown hanging on a late transport; `parseVerbs` keeping parameter
filters among the verbs, which both hides query-only routes and fills the
OPTIONS Allow header; a second, 500 response from the router when a handler
throws after responding; `getObject` throwing for negative indices other
than -1 that its comment says count from the end; socket fds dropped without
`::close()`; the string printing context's `%ui`, unescaped control
characters and non-finite doubles printed as strings; an endpoint shutdown
that hangs when transports arrived before `spinup`; the unincremented counter
of `changeMessageVisibilityBatch`; `extractMessage` throwing on attribute
names it does not know).

## Mutants

Each property of a passing run is shown able to fail: `HttpClient.tla`
defines, just before the handler it replaces, a variant with a plausible bug
(`ReleaseConnection_swapped` stores before decrementing, `HandleQueueEvent_drop`
forgets to queue, `HandleHttpConnectionDone_release` always releases,
`OnWriteResult_negOffset` subtracts it, `Perform_noHeaders` forgets
`responseState_ = HEADERS`, `AfterWakeup_noRearm` forgets to re-arm the wakeup
fd; `HandleHeader_offByOne`, `HandleHeader_ignoreLength` and `BodyStep_noDone`
in the parser; `NotifyCloseTransport_releaseAlways`, `_noStop`,
in the endpoint;
`ShutdownStopTimer_noRemove`, which erases a timer from the copy without
removing its fd, breaks `ImplementsLifecycle`; `QueueEvent_newest`, which
takes the newest message of `queue_`, breaks `ImplementsRequestService`;
`RestoreState_popOneMore` (an off-by-one in the pop loop),
`RestoreState_keepObjs`, `RestoreState_keepRem`, `RouteOptions_anyRem` and
`RouteProcess_noSentCheck` in the router;
`StringStartMember_lateComma` and `StringEndObject_noPop` in the JSON
printing contexts; `PermissionPairs_counterPerBit` and
`ExtractMessage_sentAsFirst` in `SqsApi`). `PROJECT.json` lists which mutant breaks which property.

## Not modelled

* `HttpClient::shutdown()` and `ClientTcpSocket::waitState()`: they run on
  other threads once the work is over and only wait for a state.
* Request text formatting, callbacks' string handling, filter streams and
  the event service: formatting and I/O with no state machine.
* `SnsApi`: `sns.h` only declares it; the code of `publish` is not in
  `src/`. `SqsApi`'s `performGet`/`performPost` and XML helpers are not in
  `src/` either. The model stops at the request and at the reply's
  attributes.
* `rethrowHttpException` (`http_exception.cc`): it rewraps the current
  exception's code and message as JSON details. It has no state, and no
  modelled handler calls it.
* In JSON printing: `ML::jsonEscape` (of `writeString`) and
  `toStringNoNewLine` (of `writeJson`) are not in `src/`; their arguments
  are chosen so that they print as themselves. Number formatting is
  abstracted to the digits a value prints as.
* The router's help and autodoc routes (`getHelp`, `getAutodocHelp`,
  value descriptions) and `serveStaticDirectory`: JSON text and file reads.
* `InProcessRestConnection`: only its declaration is in `src/`; the router
  model records the responses a connection is asked to send.
* `HttpNamedEndpoint` and `HttpNamedRestProxy`: configuration lookups around
  the configuration service, whose code is not in `src/`.
* A server that never answers: the `timeout` argument of `enqueueRequest` is
  stored and never read, so such a request waits forever; listing that case
  would violate `RequestsComplete` without saying anything new.
