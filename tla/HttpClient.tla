----------------------------- MODULE HttpClient -----------------------------
(***************************************************************************)
(* The HTTP client of soa: the pool (HttpClient, http_client.cc), its       *)
(* connections (HttpConnection) and the non-blocking socket each           *)
(* connection is built on (ClientTcpSocket, tcp_socket.cc, kept in         *)
(* src/service/http_parsers.h).  One MessageLoop thread runs every         *)
(* handler; callers on other threads only push into the bounded queue_.    *)
(*                                                                         *)
(* A handler of the loop thread is one atomic step.  A handler calls into  *)
(* the others synchronously (a connection result calls handleEndOfRq,      *)
(* which calls the pool's onDone, which may perform the next request on    *)
(* the same connection, which may connect again ...), so the handlers are  *)
(* written as operators from a snapshot S of the state the chain can touch *)
(* to the snapshot after it:                                               *)
(*   S.c     the connection the chain runs on                              *)
(*   S.k     that connection's HttpConnection and ClientTcpSocket members  *)
(*   S.n     the kernel socket and the server behind it                    *)
(*   S.pool  the HttpClient members, S.ghost the history, S.crashed and    *)
(*   S.spinning the fate of the loop thread.                               *)
(* The kernel and the server are the environment: connect outcomes, the    *)
(* room in the send buffer, when the server answers, and peer closes.      *)
(***************************************************************************)
EXTENDS Naturals, Sequences, FiniteSets, SequencesExt

CONSTANTS
    Conns,          \* the connections of connectionStash_ (numParallel)
    Requests,       \* the requests callers pass to enqueueRequest
    WithBody,       \* the requests that carry a non-empty MimeContent
    QueueSize,      \* capacity of queue_ (queueSize)
    SendSize,       \* HttpConnection::sendSize, in the units of ContentSize
    SyncConnect,    \* what ::connect() can do at once: "pending" (EINPROGRESS),
                    \*   "ok" (immediate success), "fail" (HOST_UNKNOWN or
                    \*   COULD_NOT_CONNECT reported inside connect())
    AsyncConnect,   \* SO_ERROR once a pending connect completes: "up" (0),
                    \*   "unreach" (ENETUNREACH), "refused" (any other error)
    ServerFaults,   \* what the server may do besides answering in order:
                    \*   "early" (answer before reading the body),
                    \*   "fin" (close its side), "rst" (reset the connection)
    Rooms,          \* how many writes the kernel may accept in one flush before
                    \*   EAGAIN
    NoReq,          \* an empty HttpRequest (cleared or moved from)
    Nil             \* an empty currentLine_

ASSUME /\ Conns # {} /\ Requests # {} /\ WithBody \subseteq Requests
       /\ QueueSize \in Nat \ {0} /\ SendSize \in Nat \ {0} /\ Rooms \subseteq Nat /\ Rooms # {}
       /\ SyncConnect \subseteq {"pending", "ok", "fail"} /\ "pending" \in SyncConnect
       /\ AsyncConnect \subseteq {"up", "unreach", "refused"} /\ AsyncConnect # {}
       /\ ServerFaults \subseteq {"early", "fin", "rst"}

N == Cardinality(Conns)
Slots == 0 .. N - 1

\* requestStr() is the request line and headers: always longer than a body
\* here; the requestStr of an empty request is the empty string.
HeadSize(r) == IF r = NoReq THEN 0 ELSE 2
\* MimeContent::size() of the request's content
ContentSize(r) == IF r \in WithBody THEN 1 ELSE 0

\* A string pushed into threadBuffer_: the request text or a body chunk.
Msg(r, part, size) == [req |-> r, part |-> part, size |-> size]
Msgs == [req : Requests \cup {NoReq}, part : {"head", "body"}, size : 0 .. 2]

SockStates == {"DISCONNECTED", "CONNECTING", "CONNECTED", "DISCONNECTING"}
\* epoll registration of socket_: not registered, armed one-shot for EPOLLIN,
\* armed for EPOLLIN|EPOLLOUT, or fired and not yet re-armed
SockRegs == {"none", "in", "inout", "off"}
\* the kernel state of socket_; "none" is socket_ == -1
KernelStates == {"none", "pending", "up", "unreach", "refused", "fin", "rst"}

VARIABLES
    conn,       \* [Conns -> ClientTcpSocket and HttpConnection members]
    net,        \* [Conns -> kernel socket and server]
    pool,       \* HttpClient: queue_, inThreadQueue_, avlConnections_, nextAvail_
    ghost,      \* history: admitted order, perform order, onDone counts,
                \* whether an open socket was ever forgotten
    crashed,    \* the process aborted (abort(), uncaught exception, null callbacks)
    spinning    \* the loop thread is stuck in handleReadReady's read loop

vars == <<conn, net, pool, ghost, crashed, spinning>>

\* onDone counts saturate here; two calls are already one too many
DoneCap == 2

TypeOK ==
    /\ conn \in [Conns -> [state : SockStates, buffer : Seq(Msgs),
                           currentLine : Msgs \cup {Nil}, writeReady : BOOLEAN,
                           wakeup : {"armed", "off", "closed"},
                           wakeupSignaled : BOOLEAN, sockReg : SockRegs,
                           request : Requests \cup {NoReq},
                           responseState : {"IDLE", "HEADERS", "BODY"},
                           uploadOffset : Nat, socketOpen : BOOLEAN]]
    /\ net \in [Conns -> [kernel : KernelStates, inbox : Seq(Msgs),
                          responses : Seq(Requests), early : SUBSET Requests]]
    /\ pool \in [queue : Seq(Requests), inThread : Seq(Requests \cup {NoReq}),
                 avl : [Slots -> Conns], nextAvail : 0 .. N]
    /\ ghost \in [admitted : Seq(Requests), started : Seq(Requests),
                  done : [Requests -> 0 .. DoneCap], leaked : BOOLEAN]
    /\ crashed \in BOOLEAN
    /\ spinning \in BOOLEAN

-----------------------------------------------------------------------------
(* Snapshots of the state one handler chain can touch.                     *)

Snap(c) == [c |-> c, k |-> conn[c], n |-> net[c], pool |-> pool,
            ghost |-> ghost, crashed |-> crashed, spinning |-> spinning]

Apply(S) ==
    /\ conn' = [conn EXCEPT ![S.c] = S.k]
    /\ net' = [net EXCEPT ![S.c] = S.n]
    /\ pool' = S.pool
    /\ ghost' = S.ghost
    /\ crashed' = S.crashed
    /\ spinning' = S.spinning

Halted(S) == S.crashed \/ S.spinning

\* Sequencing: Op applied to the value of s.  The value is bound once, so a
\* chain of calls is evaluated once however often a step refers to it.
Then(s, Op(_)) == CHOOSE r \in {Op(t) : t \in {s}} : TRUE
Crash(S) == [S EXCEPT !.crashed = TRUE]

-----------------------------------------------------------------------------
(* ClientTcpSocket (tcp_socket.cc)                                         *)

\* canSendMessages(): CONNECTED or CONNECTING
CanSendMessages(k) == k.state \in {"CONNECTED", "CONNECTING"}

\* write(string&&): push into threadBuffer_ and signal the wakeup eventfd;
\* throws when the socket cannot send.  threadBuffer_ never fills here: a
\* connection holds at most three strings at once.
SockWrite(S, m) ==
    IF CanSendMessages(S.k)
    THEN [S EXCEPT !.k.buffer = Append(@, m), !.k.wakeupSignaled = TRUE]
    ELSE Crash(S)

\* requestClose()
RequestClose(S) ==
    IF CanSendMessages(S.k)
    THEN [S EXCEPT !.k.state = "DISCONNECTING", !.k.wakeupSignaled = TRUE]
    ELSE S

\* doClose(): closes socket_ and the wakeup fd, and leaves the state at
\* DISCONNECTING
DoClose(S) ==
    [S EXCEPT !.k.state = "DISCONNECTING", !.k.sockReg = "none",
              !.n.kernel = "none", !.k.wakeup = "closed", !.k.socketOpen = FALSE]

\* handleDisconnection(): removeFd(socket_) throws when socket_ is -1 or not
\* registered; socket_ is set to -1 without ::close(), so the descriptor
\* stays open; onDisconnected is not set by HttpConnection
HandleDisconnection(S) ==
    CASE Halted(S) \/ S.k.state = "DISCONNECTED" -> S
      [] S.n.kernel = "none" \/ S.k.sockReg = "none" -> Crash(S)
      [] OTHER -> [S EXCEPT !.k.sockReg = "none", !.n.kernel = "none",
                            !.k.state = "DISCONNECTED", !.k.socketOpen = FALSE,
                            !.ghost.leaked = TRUE]

\* the tail of handleSocketEvent(): restartFdOneShot(socket_, cb,
\* !writeReady_), an epoll_ctl MOD that throws on an unregistered fd
RestartSocket(S) ==
    CASE Halted(S) -> S
      [] S.n.kernel = "none" \/ S.k.sockReg = "none" -> Crash(S)
      [] OTHER -> [S EXCEPT !.k.sockReg = IF S.k.writeReady THEN "in" ELSE "inout"]

\* the bytes of a written string reach the server
Deliver(S, m) == [S EXCEPT !.n.inbox = Append(@, m)]

-----------------------------------------------------------------------------
(* HttpConnection (http_client.cc)                                         *)

\* clear()
Clear(S) ==
    [S EXCEPT !.k.responseState = "IDLE", !.k.request = NoReq, !.k.uploadOffset = 0]

\* Variants of the handlers with a plausible bug, each defined before the
\* handler it replaces; the properties are checked to fail with them.

\* uploadOffset_ moves the wrong way
OnWriteResult_negOffset(S, written) ==
    LET k == S.k
        size == ContentSize(k.request)
        rs == IF k.responseState = "HEADERS" THEN IF size > 0 THEN "BODY" ELSE "IDLE"
              ELSE k.responseState
        up == CASE k.responseState = "HEADERS" /\ size > 0 -> 0
                [] k.responseState = "BODY" -> k.uploadOffset - written
                [] OTHER -> k.uploadOffset
        S1 == [S EXCEPT !.k.responseState = rs, !.k.uploadOffset = up]
    IN CASE k.responseState = "IDLE" -> Crash(S)
         [] rs # "BODY" -> S1
         [] up = size -> [S1 EXCEPT !.k.responseState = "IDLE"]
         [] OTHER -> SockWrite(S1, Msg(k.request, "body", 1))

\* onWriteResult(0, written, writtenSize).  content.size() - uploadOffset_ is
\* uint64_t arithmetic: past the end of the content it wraps, the chunk is
\* sendSize bytes read from beyond the content buffer, which the model treats
\* as a crash.
OnWriteResult(S, written) ==
    LET k == S.k
        size == ContentSize(k.request)
        rs == IF k.responseState = "HEADERS"
              THEN IF size > 0 THEN "BODY" ELSE "IDLE"
              ELSE k.responseState
        up == CASE k.responseState = "HEADERS" /\ size > 0 -> 0
                [] k.responseState = "BODY" -> k.uploadOffset + written
                [] OTHER -> k.uploadOffset
        S1 == [S EXCEPT !.k.responseState = rs, !.k.uploadOffset = up]
    IN CASE k.responseState = "IDLE" -> Crash(S)            \* "invalid state"
         [] rs # "BODY" -> S1
         [] up > size -> Crash(S1)
         [] up = size -> [S1 EXCEPT !.k.responseState = "IDLE"]
         [] OTHER -> SockWrite(S1, Msg(k.request, "body",
                                       IF size - up < SendSize THEN size - up ELSE SendSize))

-----------------------------------------------------------------------------
(* ClientTcpSocket::flush(): the write loop.  room is how many more writes *)
(* the kernel accepts before EAGAIN.                                       *)

RECURSIVE FlushLoop(_, _)
FlushLoop(S, room) ==
    LET m == S.k.currentLine IN
    CASE Halted(S) \/ ~S.k.writeReady -> S
         \* write(fd, "", 0) returns 0: writeReady_ drops, errno is that of
         \* the last EAGAIN, and the empty line is replaced on the next flush
      [] m.size = 0 -> [S EXCEPT !.k.writeReady = FALSE, !.k.currentLine = Nil]
      [] S.n.kernel \in {"up", "fin"} /\ room > 0 ->
            Then(OnWriteResult(Deliver(S, m), m.size), LAMBDA S1 :
                CASE Halted(S1) -> S1
                  [] S1.k.buffer # <<>> ->
                        FlushLoop([S1 EXCEPT !.k.currentLine = Head(S1.k.buffer),
                                             !.k.buffer = Tail(@)], room - 1)
                  [] OTHER -> [S1 EXCEPT !.k.currentLine = Nil])
         \* EWOULDBLOCK, also on a socket still connecting
      [] S.n.kernel \in {"up", "fin", "pending"} -> [S EXCEPT !.k.writeReady = FALSE]
         \* EPIPE, ECONNRESET, EBADF: handleWriteResult(errno) reaches
         \* HttpConnection::onWriteResult, which throws "unhandled error"
      [] OTHER -> Crash([S EXCEPT !.k.writeReady = FALSE])

Flush(S, room) ==
    CASE S.k.currentLine # Nil -> FlushLoop(S, room)
      [] S.k.buffer = <<>> -> S
      [] OTHER -> FlushLoop([S EXCEPT !.k.currentLine = Head(S.k.buffer),
                                      !.k.buffer = Tail(@)], room)

-----------------------------------------------------------------------------
(* The synchronous call chain.  o is the sequence of outcomes of the       *)
(* ::connect() calls the chain makes, first to last.                       *)

RECURSIVE Perform(_, _, _), Connect(_, _), OnConnectionResult(_, _, _),
          HandleEndOfRq(_, _, _), HandleHttpConnectionDone(_, _)

\* stores the connection before decrementing nextAvail_
ReleaseConnection_swapped(S) ==
    IF S.pool.nextAvail > 0
    THEN [S EXCEPT !.pool.avl[S.pool.nextAvail] = S.c, !.pool.nextAvail = @ - 1]
    ELSE S

\* HttpClient::releaseConnection(): does nothing when nextAvail_ is 0
ReleaseConnection(S) ==
    IF S.pool.nextAvail > 0
    THEN [S EXCEPT !.pool.nextAvail = @ - 1, !.pool.avl[S.pool.nextAvail - 1] = S.c]
    ELSE S

\* always returns the connection to the pool
HandleHttpConnectionDone_release(S, o) == ReleaseConnection(S)

\* HttpClient::handleHttpConnectionDone(): perform the front of
\* inThreadQueue_ (moved from, so the entry left behind is empty) and pop the
\* front once perform() has returned; pop_front() on an empty deque is
\* undefined, taken as a crash.
HandleHttpConnectionDone(S, o) ==
    IF S.pool.inThread # <<>>
    THEN Then(Perform([S EXCEPT !.pool.inThread[1] = NoReq], Head(S.pool.inThread), o),
              LAMBDA S1 : CASE Halted(S1) -> S1
                            [] S1.pool.inThread = <<>> -> Crash(S1)
                            [] OTHER -> [S1 EXCEPT !.pool.inThread = Tail(@)])
    ELSE ReleaseConnection(S)

\* HttpConnection::handleEndOfRq(code): callbacks() of an empty request is a
\* null shared_ptr, so onDone crashes; the connection's onDone is the pool's
\* handleHttpConnectionDone
HandleEndOfRq(S, code, o) ==
    LET S1 == IF code # "OK" THEN RequestClose(S) ELSE S
        r == S1.k.request
    IN IF r = NoReq THEN Crash(S1)
       ELSE HandleHttpConnectionDone(
                Clear([S1 EXCEPT !.ghost.done[r] = IF @ < DoneCap THEN @ + 1 ELSE @]), o)

\* HttpConnection::onConnectionResult()
OnConnectionResult(S, result, o) ==
    IF result = "SUCCESS" THEN SockWrite(S, Msg(S.k.request, "head", HeadSize(S.k.request)))
    ELSE HandleEndOfRq(S, result, o)

\* ClientTcpSocket::connect().  The cleanup guard runs when connect() returns
\* after a synchronous failure: it closes socket_ (whatever socket the
\* callbacks left there) and sets DISCONNECTED.  After an immediate success
\* the callback runs while the state is still CONNECTING.  ::socket() makes
\* a fresh TCP connection: nothing sent, nothing to read.  It is assigned to
\* socket_ over whatever descriptor socket_ still holds (a DISCONNECTING
\* socket that doClose has not closed yet).
Connect(S, o) ==
    LET outcome == IF o = <<>> THEN "pending" ELSE Head(o)
        S1 == [S EXCEPT !.k.state = "CONNECTING", !.k.socketOpen = TRUE,
                        !.ghost.leaked = @ \/ S.k.socketOpen,
                        !.n = [kernel |-> "none", inbox |-> <<>>, responses |-> <<>>, early |-> {}]]
    IN CASE S.k.state \in {"CONNECTING", "CONNECTED"} -> Crash(S)
         [] outcome = "fail" ->
              Then(OnConnectionResult([S1 EXCEPT !.n.kernel = "none"], "HOST_UNKNOWN", Tail(o)),
                   LAMBDA S2 : IF Halted(S2) THEN S2
                               ELSE [S2 EXCEPT !.k.state = "DISCONNECTED", !.k.socketOpen = FALSE,
                                               !.k.sockReg = "none", !.n.kernel = "none"])
         [] outcome = "ok" ->
              Then(OnConnectionResult([S1 EXCEPT !.n.kernel = "up"], "SUCCESS", Tail(o)),
                   LAMBDA S2 : IF Halted(S2) THEN S2
                               ELSE [S2 EXCEPT !.k.state = "CONNECTED", !.k.sockReg = "inout"])
         [] OTHER -> [S1 EXCEPT !.k.sockReg = "inout", !.n.kernel = "pending"]

\* leaves responseState_ IDLE while the request is sent
Perform_noHeaders(S, r, o) ==
    LET S1 == [S EXCEPT !.k.request = r,
                        !.ghost.started = IF r = NoReq THEN @ ELSE Append(@, r)]
    IN CASE S.k.responseState # "IDLE" -> Crash(S)
         [] CanSendMessages(S1.k) -> SockWrite(S1, Msg(r, "head", HeadSize(r)))
         [] OTHER -> Connect(S1, o)

\* HttpConnection::perform(): abort() unless IDLE; write the request when the
\* socket can send, else connect
Perform(S, r, o) ==
    LET S1 == [S EXCEPT !.k.request = r, !.k.responseState = "HEADERS",
                        !.ghost.started = IF r = NoReq THEN @ ELSE Append(@, r)]
    IN CASE S.k.responseState # "IDLE" -> Crash(S)
         [] CanSendMessages(S1.k) -> SockWrite(S1, Msg(r, "head", HeadSize(r)))
         [] OTHER -> Connect(S1, o)

\* drops the request when no connection is free
HandleQueueEvent_drop(S, r, o) ==
    IF S.pool.nextAvail < N THEN Perform([S EXCEPT !.pool.nextAvail = @ + 1], r, o) ELSE S

\* HttpClient::handleQueueEvent() with getConnection()
HandleQueueEvent(S, r, o) ==
    IF S.pool.nextAvail < N
    THEN Perform([S EXCEPT !.pool.nextAvail = @ + 1], r, o)
    ELSE [S EXCEPT !.pool.inThread = Append(@, r)]

\* ClientTcpSocket::handleConnectionResult(): SO_ERROR 0 is SUCCESS,
\* ENETUNREACH is HOST_UNKNOWN (socket closed, queued strings dropped),
\* anything else throws
HandleConnectionResult(S, o) ==
    CASE S.n.kernel \in {"up", "fin"} ->
            OnConnectionResult([S EXCEPT !.k.state = "CONNECTED"], "SUCCESS", o)
      [] S.n.kernel = "unreach" ->
            OnConnectionResult([S EXCEPT !.k.sockReg = "none", !.n.kernel = "none",
                                         !.k.socketOpen = FALSE,
                                         !.k.state = "DISCONNECTED", !.k.buffer = <<>>],
                               "HOST_UNKNOWN", o)
      [] OTHER -> Crash(S)

\* handleWriteReady()
HandleWriteReady(S, o, room) ==
    Then(IF S.k.state = "CONNECTING" THEN HandleConnectionResult(S, o) ELSE S,
         LAMBDA S1 : IF Halted(S1) \/ S1.k.state = "DISCONNECTED" THEN S1
                     ELSE Flush([S1 EXCEPT !.k.writeReady = TRUE], room))

\* the parser consumes every complete response read; each one ends with
\* onParserDone, that is handleEndOfRq(0)
RECURSIVE DeliverResponses(_, _)
DeliverResponses(S, o) ==
    IF Halted(S) \/ S.n.responses = <<>> THEN S
    ELSE Then(HandleEndOfRq([S EXCEPT !.n.responses = Tail(@)], "OK", o),
              LAMBDA S1 : DeliverResponses(S1, o))

\* handleReadReady(): read until EWOULDBLOCK (or EBADF on socket_ == -1);
\* read() returning 0 at end of stream is passed on as empty data and the
\* loop reads again, forever; any other error throws
HandleReadReady(S, o) ==
    CASE Halted(S) -> S
      [] S.n.kernel \in {"up", "pending"} -> DeliverResponses(S, o)
      [] S.n.kernel = "none" -> S
      [] S.n.kernel = "fin" -> [DeliverResponses(S, o) EXCEPT !.spinning = TRUE]
      [] OTHER -> Crash(S)

-----------------------------------------------------------------------------
(* Initial state: the HttpClient constructor (connections init()ed, each   *)
(* wakeup fd registered one-shot, avlConnections_ in stash order).         *)

InitConn == [state |-> "DISCONNECTED", buffer |-> <<>>, currentLine |-> Nil,
             writeReady |-> FALSE, wakeup |-> "armed", wakeupSignaled |-> FALSE,
             sockReg |-> "none", request |-> NoReq, responseState |-> "IDLE",
             uploadOffset |-> 0, socketOpen |-> FALSE]

Init ==
    /\ conn = [c \in Conns |-> InitConn]
    /\ net = [c \in Conns |-> [kernel |-> "none", inbox |-> <<>>,
                               responses |-> <<>>, early |-> {}]]
    /\ pool = [queue |-> <<>>, inThread |-> <<>>, nextAvail |-> 0,
               avl |-> CHOOSE f \in [Slots -> Conns] : Range(f) = Conns]
    /\ ghost = [admitted |-> <<>>, started |-> <<>>, done |-> [r \in Requests |-> 0],
               leaked |-> FALSE]
    /\ crashed = FALSE
    /\ spinning = FALSE

-----------------------------------------------------------------------------
(* Steps of the caller threads                                             *)

\* enqueueRequest(): queue_.tryPush(); a full queue returns false and
\* changes nothing
EnqueueRequest(r) ==
    /\ ~crashed
    /\ r \notin Range(ghost.admitted)
    /\ Len(pool.queue) < QueueSize
    /\ pool' = [pool EXCEPT !.queue = Append(@, r)]
    /\ ghost' = [ghost EXCEPT !.admitted = Append(@, r)]
    /\ UNCHANGED <<conn, net, crashed, spinning>>

-----------------------------------------------------------------------------
(* Steps of the loop thread: one event of one source                       *)

LoopRuns == ~crashed /\ ~spinning

\* sequences of ::connect() outcomes one chain may meet
Outcomes == [1 .. 2 -> SyncConnect]

\* queue_ delivers its oldest request to handleQueueEvent
\* takes the newest message of queue_ instead of the oldest
QueueEvent_newest ==
    /\ LoopRuns
    /\ pool.queue # <<>>
    /\ \E o \in Outcomes :
          LET c == pool.avl[pool.nextAvail]
              S0 == Snap(IF pool.nextAvail < N THEN c ELSE CHOOSE x \in Conns : TRUE)
              q == pool.queue
          IN \E S \in {HandleQueueEvent([S0 EXCEPT !.pool.queue = SubSeq(q, 1, Len(q) - 1)],
                                          q[Len(q)], o)} : Apply(S)

QueueEvent ==
    /\ LoopRuns
    /\ pool.queue # <<>>
    /\ \E o \in Outcomes :
          LET c == pool.avl[pool.nextAvail]   \* used only when nextAvail_ < N
              S0 == Snap(IF pool.nextAvail < N THEN c ELSE CHOOSE x \in Conns : TRUE)
          IN \E S \in {HandleQueueEvent([S0 EXCEPT !.pool.queue = Tail(@)],
                                          Head(pool.queue), o)} : Apply(S)

\* does not re-arm the wakeup fd while CONNECTED
AfterWakeup_noRearm(S) ==
    CASE Halted(S) -> S
      [] S.k.state = "DISCONNECTING" ->
           IF S.k.buffer # <<>> \/ S.k.currentLine # Nil
           THEN [S EXCEPT !.k.wakeup = "armed", !.k.wakeupSignaled = TRUE]
           ELSE DoClose(S)
      [] OTHER -> S

\* the tail of handleWakeupEvent(): re-arm while CONNECTED; while
\* DISCONNECTING re-arm and signal again until the strings are flushed,
\* then doClose(); in any other state the wakeup stays disarmed
AfterWakeup(S) ==
    CASE Halted(S) -> S
      [] S.k.state = "CONNECTED" -> [S EXCEPT !.k.wakeup = "armed"]
      [] S.k.state = "DISCONNECTING" ->
           IF S.k.buffer # <<>> \/ S.k.currentLine # Nil
           THEN [S EXCEPT !.k.wakeup = "armed", !.k.wakeupSignaled = TRUE]
           ELSE DoClose(S)
      [] OTHER -> S

\* ClientTcpSocket::handleWakeupEvent(): the eventfd is drained and the
\* socket flushed only when writeReady_
HandleWakeupEvent(S, room) ==
    Then(IF S.k.writeReady THEN Flush([S EXCEPT !.k.wakeupSignaled = FALSE], room) ELSE S,
         AfterWakeup)

WakeupEvent(c, room) ==
    /\ LoopRuns
    /\ conn[c].wakeup = "armed" /\ conn[c].wakeupSignaled
    /\ \E S \in {HandleWakeupEvent([Snap(c) EXCEPT !.k.wakeup = "off"], room)} : Apply(S)

\* the epoll bits socket_ reports: writable once connected or once the
\* connect has failed, readable with data, at end of stream or on error,
\* hung up on error or reset
Events(c) ==
    LET kern == net[c].kernel IN
    {e \in {"OUT"} : conn[c].sockReg = "inout" /\ kern \in {"up", "fin", "unreach", "refused", "rst"}}
    \cup {e \in {"IN"} : (kern = "up" /\ net[c].responses # <<>>)
                         \/ kern \in {"fin", "unreach", "refused", "rst"}}
    \cup {e \in {"HUP"} : kern \in {"unreach", "refused", "rst"}}

\* the tail of handleSocketEvent(): handleDisconnection() on EPOLLHUP, else
\* re-arm unless DISCONNECTED
AfterSocketEvent(S, hup) ==
    CASE Halted(S) -> S
      [] hup -> HandleDisconnection(S)
      [] S.k.state # "DISCONNECTED" -> RestartSocket(S)
      [] OTHER -> S

\* ClientTcpSocket::handleSocketEvent(): EPOLLOUT, then EPOLLIN, then EPOLLHUP
HandleSocketEvent(S, ev, o, room) ==
    Then(Then(IF "OUT" \in ev THEN HandleWriteReady(S, o, room) ELSE S,
              LAMBDA S1 : IF "IN" \in ev THEN HandleReadReady(S1, o) ELSE S1),
         LAMBDA S2 : AfterSocketEvent(S2, "HUP" \in ev))

SocketEvent(c, room) ==
    /\ LoopRuns
    /\ conn[c].sockReg \in {"in", "inout"}
    /\ Events(c) # {}
    /\ \E o \in Outcomes :
          \E S \in {HandleSocketEvent([Snap(c) EXCEPT !.k.sockReg = "off"], Events(c), o, room)} :
              Apply(S)

-----------------------------------------------------------------------------
(* Steps of the kernel and the server                                      *)

\* a pending connect completes
ConnectCompletes(c) ==
    /\ ~crashed
    /\ net[c].kernel = "pending"
    /\ \E res \in AsyncConnect : net' = [net EXCEPT ![c].kernel = res]
    /\ UNCHANGED <<conn, pool, ghost, crashed, spinning>>

\* the server reads the next string; it answers a request once it has its
\* text and its body, or, as "early", once it has the text of a request
\* with a body, and then ignores that body
ServerReceive(c) ==
    /\ ~crashed
    /\ net[c].kernel = "up"
    /\ net[c].inbox # <<>>
    /\ LET m == Head(net[c].inbox)
           answer == m.req \in Requests /\ m.req \notin net[c].early
                     /\ (m.part = "body" \/ m.req \notin WithBody)
       IN \/ /\ answer
             /\ net' = [net EXCEPT ![c].inbox = Tail(@), ![c].responses = Append(@, m.req)]
          \/ /\ ~answer
             /\ net' = [net EXCEPT ![c].inbox = Tail(@)]
          \/ /\ "early" \in ServerFaults
             /\ m.part = "head" /\ m.req \in WithBody
             /\ net' = [net EXCEPT ![c].inbox = Tail(@), ![c].responses = Append(@, m.req),
                                   ![c].early = @ \cup {m.req}]
    /\ UNCHANGED <<conn, pool, ghost, crashed, spinning>>

\* the server closes its side, or resets the connection
PeerClose(c) ==
    /\ ~crashed
    /\ net[c].kernel = "up"
    /\ \E f \in ServerFaults \cap {"fin", "rst"} : net' = [net EXCEPT ![c].kernel = f]
    /\ UNCHANGED <<conn, pool, ghost, crashed, spinning>>

-----------------------------------------------------------------------------

Next ==
    \/ \E r \in Requests : EnqueueRequest(r)
    \/ QueueEvent
    \/ \E c \in Conns, room \in Rooms : WakeupEvent(c, room)
    \/ \E c \in Conns, room \in Rooms : SocketEvent(c, room)
    \/ \E c \in Conns : ConnectCompletes(c)
    \/ \E c \in Conns : ServerReceive(c)
    \/ \E c \in Conns : PeerClose(c)

\* the most room the kernel offers
MaxRoom == CHOOSE m \in Rooms : \A x \in Rooms : x <= m

\* The loop thread handles every ready event; the kernel completes a pending
\* connect and eventually accepts a write (the server reads its socket); the
\* server reads what reaches it.  Callers are not obliged to call.
Fairness ==
    /\ WF_vars(QueueEvent)
    /\ \A c \in Conns :
          /\ WF_vars(WakeupEvent(c, MaxRoom))
          /\ WF_vars(SocketEvent(c, MaxRoom))
          /\ WF_vars(ConnectCompletes(c))
          /\ WF_vars(ServerReceive(c))

Spec == Init /\ [][Next]_vars /\ Fairness

-----------------------------------------------------------------------------
(* Properties                                                              *)

\* the connections handleQueueEvent can still hand out
FreeConns == {pool.avl[i] : i \in pool.nextAvail .. N - 1}

\* The pool (getConnection / releaseConnection / handleHttpConnectionDone):
\* no connection is on the free part of avlConnections_ twice, and every
\* connection there is idle with no request, so perform() never meets a busy
\* connection.  Spec: |busy| + |idle| = numParallel.
PoolConsistent ==
    ~crashed =>
        /\ Cardinality(FreeConns) = N - pool.nextAvail
        /\ \A c \in FreeConns : conn[c].request = NoReq /\ conn[c].responseState = "IDLE"

\* handleQueueEvent's "BAD" message: a request never waits in
\* inThreadQueue_ while a connection is free.
NoIdleWhileWaiting ==
    ~crashed => (pool.nextAvail < N => pool.inThread = <<>>)

\* Every request enqueueRequest accepted is still in queue_, waits in
\* inThreadQueue_, is held by a connection, or has had its onDone.
NoLostRequest ==
    ~crashed =>
        \A r \in Range(ghost.admitted) :
            \/ ghost.done[r] > 0
            \/ r \in Range(pool.queue) \cup Range(pool.inThread)
            \/ \E c \in Conns : conn[c].request = r

\* Requests are performed in the order enqueueRequest accepted them
\* (queue_ then inThreadQueue_, both FIFO).
DispatchInOrder == IsPrefix(ghost.started, ghost.admitted)

\* uploadOffset_ never passes the end of the content onWriteResult sends
\* from.  onWriteResult takes every write result as request_'s, so the
\* result of an earlier request's body, still queued in the socket when
\* clear() ran, advances the next request's upload
\* (MC_HttpClient_upload_oob.cfg).
UploadInBounds ==
    \A c \in Conns : conn[c].uploadOffset <= ContentSize(conn[c].request)

\* No socket descriptor is lost: every descriptor ::socket() returns to
\* ClientTcpSocket::connect() is ::close()d (by doClose, the connect cleanup
\* or a failed connection result) before socket_ is overwritten or reset to
\* -1 by handleDisconnection.
NoSocketLeak == ~ghost.leaked

\* The client never aborts: connection failures reach the request's
\* callbacks (spec: CouldNotConnect, HostUnknown), they do not escape the
\* loop thread.
NoCrash == ~crashed

\* Every request enqueueRequest accepted eventually gets its onDone.
RequestsComplete ==
    \A r \in Requests : (r \in Range(ghost.admitted)) ~> (ghost.done[r] > 0)


\* The client seen by its callers: ghost.admitted, ghost.started and the
\* onDone counts are RequestService's variables.
Service == INSTANCE RequestService
               WITH admitted <- ghost.admitted, started <- ghost.started,
                    done <- ghost.done

\* HttpClient implements RequestService: whatever the sockets, the server
\* and the kernel do, every step of the loop thread starts requests in the
\* order enqueueRequest accepted them and calls onDone at most once per
\* request, and only for one it has performed.
ImplementsRequestService == Service!Safety

=============================================================================
