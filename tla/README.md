# Verification of the xkim message handler

TLA+ specifications of the instant-messaging server in `src/msg_handler`,
checked with TLC on small instances and, where the prover reaches, proved with
TLAPS for all sizes.

`PROJECT.json` lists the components, the runs, the lines each definition
models, the findings, the hazards and the theorems.

## The system

A client connects over TCP, logs in with an AUTH frame, keeps its entry alive
with TOUCH frames and sends MSG frames. The server is a set of threads that
pass pointers to `IMessage` objects through queues:

| part | threads | state | operations |
|---|---|---|---|
| acceptor (`io_accept`, `io_app_accept_service`) | 1 | next connection id | accept a socket, choose an IO thread, dispatch |
| IO threads (`io_app`, `io_connection`, `io_app_connection`) | n | socket queue and message queue with a socketpair each; register of connections; cache of connection objects; push list, current frame, read buffer, session state of each connection | newConnection, push, readSocket, writeSocket, reset/close |
| dispatcher and workers (`message/`) | auth n, app m | a blocking queue, a priority queue | process AUTH, TOUCH, MSG; update the table; answer |
| user table (`im_user_channel_register_table_local`) | - | user -> (IO thread, connection) under a mutex | set, get, getOrUnset |
| local router (`ms_message_router_local`) | 1 | queue | sort a batch by IO thread, dispatch |
| pending collector (`ms_message_collector`, `im_pending_message_collector_core`) | 1 | queue | group by user, re-route or free |
| broker (`thrift/broker`) | k | queue | send MSG to the message server by RPC; deliver messages from it |
| RPC client (`thrift/pilot`) | callers + 1 | pools of connections per server, health, list of update tasks | acquire, release, retry, refresh |
| registration (`server_cluster`, `zookeeper_client`) | zookeeper's | session, watches | join, rejoin |
| route publisher (`route_info_publisher`, `redis_operator`) | auth workers | redis connections | set, publish, reconnect |

Interactions: acceptor -> IO thread (socket queue + byte); IO thread ->
dispatcher -> worker queues; worker -> table and router; router -> IO thread
(message queue + byte); IO thread -> collector (message for a closed
connection, push list of a closing one); collector -> table and router.

Hard behaviours: wakeup bytes and queues that are updated separately;
connection objects that are recycled while events and messages for their last
connection are under way; users who reconnect while messages to the old
connection fail; messages that are linked into one list while another thread
still walks it; workers that finish out of order; condition variables with
several consumers; retries and stale replica lists in the RPC client.

What correctness means here: no work is left in a queue with its thread
asleep; an object belongs to one connection; a message is sent only on the
connection it was routed to, whole, once and in order, or ends in the
collector; a message reaches only connections of its user; the table does not
lose the entry of a live connection and does not keep that of a dead one.

## Modules

| module | models | detail |
|---|---|---|
| `IoNotify` | `io_app.cpp`, `io_app_cluster.cpp` | the queue and socketpair by which a thread is handed work |
| `IoAccept` | `io_accept.cpp`, `io_app_accept_service.cpp`, `io_app_cluster.cpp` | accepting, choosing an IO thread, the limit `io_max` |
| `ConnLifecycle` | `io_app.cpp`, `connection_cache.inl`, `connection_register.h` | connection objects of an IO thread |
| `IoApp` (extends `ConnLifecycle`) | `io_app*.cpp`, `io_connection.cpp`, `io_push_list.h` | pushing, sending, closing |
| `IoFraming` | `io_connection.cpp` | cutting the byte stream into frames |
| `IoSampling` | `io_sampling.cpp`, `io_app_connection.cpp` | the rate limit |
| `ImSession` | `message/im_message_*` | from a frame to its answer: dispatcher, workers, session state |
| `ImMessageParser` | `im_message_parser.cpp`, `ms_message.cpp` | the packs that are made of packs |
| `ProtoMessage`, `ImProto`, `PackObjects` | `proto/im.pb.*` | the classes of `im.proto`: objects and fields; the eight messages; their use |
| `UserRouting` | `im_user_message_router.cpp`, the table, `ms_message_router_local.cpp`, `ms_message_collector.cpp`, the collector core | from a user to a connection and back |
| `BrokerInbound` | `thrift/broker`, `im_user_message_router.cpp` | messages from the message server |
| `MessageRpc` | `thrift/broker`, `thrift/gen` | the call that hands a message to the message server |
| `ConnPool`, `PooledClient` | `thrift/pilot`: `conn_pool`, `thrift_client`, `pooled_client`, `thrift_proxy.h`, `update_task_manager` | pools, retries, the list of replicas and its updates |
| `ZkRegistration` | `thrift/pilot`: `server_cluster.h`, `watcher_action.h`, `zookeeper_client.cc` | the server's own registration |
| `RoutePublisher` | `route_info_publisher.cpp`, `redis_operator.cpp` | publishing where a user is |
| `MsMessageBlockQueue`, `MsMessagePriorityQueue` | `framework/ms` queues | linked lists, mutex, condition variable |
| `FifoQueue` | - | what `MsMessageBlockQueue` implements |
| `UtilQueues`, `StringAlgorithms`, `StringInputs`, `IniFileReader` | `framework/lib` | library classes; reference definitions of the string functions |
| `IoAppLifecycle` | - | the refinement mapping from `IoApp` to `ConnLifecycle` |
| `IoNotifyProofs`, `ConnLifecycleProofs`, `IoAppStreamProofs`, `IoAppProofs`, `MsMessageBlockQueueProofs`, `ImSessionProofs`, `CoordinationProofs`, `UserRoutingProofs` | - | theorems and their lemmas |
| `MC...` | - | constants and scenes of the runs |

Definitions whose comment begins with "Mutant of" or "A slip" are wrong
versions of the definition that follows. They are not part of a specification;
putting one in the place of the definition must break a property, which shows
that the property depends on that code.

### From the socket to the frame

**IoNotify.** `queue` counts elements, `bytes` the unread bytes of the
socketpair. `Put` and `Notify` are the two steps of dispatchConnection or
dispatchPushList, `Take` and `ReadBytes` those of newConnection or push. A byte
stands for one socket on the socket channel (`Batches = {1}`) and for a whole
list on the message channel.

**IoAccept.** dispatchConnection reads the counts of the threads one by one,
which is a step each, while connections open and close. newConnection first
takes the whole queue (`taken`) and then counts the sockets one by one; until
then a scan sees nothing of them. `late` is the largest number of such sockets
when a scan began, and `MaxHeld` and `Balanced` are stated with that many sockets
of slack; `Balanced` is also stated only while no connection has closed.

**ConnLifecycle.** One action per callback of the event loop: `Accept` (the
acceptor), `StartNew`/`InitConn`/`EndNew` (newConnection, socket by socket),
the ways a connection is reset, `NextIteration`. `recycle` keeps closed objects
with the loop count at which they were closed. `Leftover` says whether a client
may leave the header of another frame in the buffer of a socket that fails,
the one case in which readSocket resets a connection twice.

**IoApp.** Adds the push lists, the frame being sent, the write event, the
session state and the collector's queue. A frame is sent in `FrameLen` units,
so that a connection can close in the middle of one. It implements
`ConnLifecycle`.

**IoFraming.** A byte is its offset in the stream; the buffer holds consecutive
bytes, so `got`, `rpos` and `rsize` determine it. recv returns any number of the
bytes sent, a full buffer makes it return 0, and a callback runs to its end.
Lengths are small naturals: a header whose length plus four does not fit the
unsigned int of the code is not covered.

**IoSampling.** Seconds and minutes share cells, as in the union of the code. A
frame is tested before it is handled and counted after it, at two readings of
the clock.

### From the frame to the answer

**ImSession.** A frame is stamped with the state its connection has when it is
read; workers check it against that stamp; the IO thread switches the state when
it pushes the answer. A `Polite` client logs in first, waits for that answer and
then sends legal frames.
Frames are records of what the checks look at. Between workers and IO thread
lies the router as a FIFO queue. The table is written by workers and erased by
the collector, when it finds no connection newer than the one that failed;
`entered` remembers the connection that was last entered for a user.

**ImMessageParser** works on packs as `ImProto` defines them, since its
questions are what is left in a reused object and whether the answer fits the
buffer. A serialised pack is a sequence of tokens (field number, wire type,
number or length), a string is its length. The targets are copied into an array
of `TARGET_MAX` entries without a test. Between a sender, an id and a type, 999
targets of one byte fill a frame of `FRAME_MAX_SIZE` bytes; the run reads a frame
with 999 and refuses one with 1000, so the array of 1024 suffices there.

**ProtoMessage, ImProto, PackObjects.** Stored values, has-bits and unknown
fields of an object; every method for each of the eight messages; and two
`ImPack` objects under any short sequence of accessors, parsing, merging,
copying, swapping and clearing.

**UserRouting.** `inHand` holds what a worker has decided and not yet routed:
the table's lock is not held in between. The IO threads are those of `IoApp`
reduced to push lists. When the collector has found a newer connection,
`RouteAgain` hands the list to the router, and `FreeRouted` then frees it along
`_next` as it is at that time. Reading a freed message gives any value. Bound:
the model ends where the collector takes up a message it has freed. Connection
ids are at most `IntMax` (`IdsFitInt`): failureRoute passes them through an int. Error
answers that only close a connection are left to `IoApp`.

**BrokerInbound.** A request is answered when it is queued; a worker makes one
message for each target and routes those whose user is in the table, while users
log in and out. `live` holds the messages that are allocated. A target beyond
the array of `TargetMax` entries could be any user; the requests have no more
targets than that.

### Other servers

**ConnPool, PooledClient.** A pool's methods run under its lock and are
operators on its value. Callers, the update thread and zookeeper interleave
between them; the index of a pool is used after the lock of the list was
released, as in the code. A call that uses a pool destroyed in between may find
another pool, none, or never come back (`Gone`). An update task that finds no
free node is dropped (`dropped`), and a replica that cannot be connected to when
the list is made is left out of it (`skipped`). Zookeeper, replicas and their sockets are external:
return codes, values and one-time watches.

**MessageRpc.** What is written to a connection stays there until it is read,
also by a processor that is slow, so that an answer can come after the caller
has given up. Structures are written and read field by field as the generated
code does.

**ZkRegistration.** Each call of join is a step. Sessions are lost, expire and
are reopened, the node is edited or removed by others, and the process may
restart while its old session lives. `raced` records that another process
created a node between join's test and its creation, or removed the node while
no watch was set.

**RoutePublisher.** SET and PUBLISH with one repetition each over a connection
of the worker's own. Connecting and each command are steps of their own, between
which redis may go, come back or drop a connection; a command may be refused, and
one without a reply may have been carried out. `calm` and `kicks` record whether
redis stayed up and refused nothing during a call, and how many connections it
lost.

### Library

**MsMessageBlockQueue, MsMessagePriorityQueue, UtilQueues.** The fields of the
lists as they are; one step for each critical section. Woken consumers compete
with those that come back from work; in the two message queues a wait may also
end without a signal.

**StringAlgorithms** are the loops of the code as folds and recursive
functions, **StringInputs** what they are to compute, stated without loops. Split
has a set of results for a string shorter than its delimiter, where the code
compares the memory before it as well.
**IniFileReader** reads one classified line a step; the regular expressions that
classify it are external.

## Runs

A run with several *scenes* instantiates several modules; the variable `scene`,
chosen initially, says which of them takes steps.

| run | asks |
|---|---|
| `io_front` | Are sockets and messages handed to an IO thread without being left behind (`NoLostWakeup`, `QueuedArrives`), spread over the threads within `io_max` (`SocketsPlaced`), the bytes cut into the frames that were sent (`FramesCut`, `AllDelivered`) and the rate limits held (`RatesHeld`)? |
| `io_app` | With connections that close and objects that are recycled: does every object belong to one connection (`OneOwner`, `NoReuseInIteration`, `RecycledClean`), does a client get whole messages, once and in order (`StreamIntact`), is no message both sent completely and collected (`NotSentAndCollected`), does every push list drain or its connection close (`PushListDrains`)? `ImplementsLifecycle` is the refinement of `ConnLifecycle`. |
| `routing` | When users move between connections: are messages sent in the order they were routed (`RouteOrder`), only to their user (`RightUser`), is the entry of an open connection kept (`OpenEntryKept`) and that of a failed one dropped (`StaleEntryDropped`)? |
| `session` | Is a client that keeps to the protocol never answered with a close (`PoliteNeverKicked`), every frame answered at most once (`OneAnswer`) and eventually dealt with (`WorkEnds`), a logged-in user in the table, and still there while the connection entered last is open (`AnsweredIsRouted`)? Do packs hold what is meant (`PacksAsMeant`), do publications reach the subscribers and agree with what is stored (`KickedSucceeds`, `HeardIsStored`), does each target of a request get one message (`EachTargetOnce`)? |
| `pilot` | Is an empty healthy pool waiting for a caller (`HealthyPoolUsable`), is the list of replicas what zookeeper has (`ListSound`), does every call return (`CallsReturn`) with the answer to its own message (`DispatchExact`), and is the server registered (`RegisteredAndWatched`, `RegisteredAgain`)? |
| `library` | The blocking queue: do its pointers describe its content (`QueueSound`), is it a FIFO queue (`Fifo`, the refinement of `FifoQueue`), and is every message taken (`EveryMessageTaken`)? The other queues under several consumers (`NobodySleepsOver`, `ListsWhole`, `ServedInSequence`), string functions against their definitions (`StringsAsDefined`), configuration files (`FileAnswers`), protobuf objects (`PacksAgree`). |
| `reset_once`, `pushlist_collected`, `route_assert`, `edit_distance`, `list_follows`, `pool_recovers` | Violations, see Findings. |

What the passing runs do not say:

- `NoLostWakeup` is about the socket channel. On the message channel, where one
  byte stands for a whole list, it does not hold: an element can stay queued with
  no byte written. `NextPushRescues`, in `QueuedArrives`, says that the next push
  takes it along.
- Everything about `ConnLifecycle` and `IoApp` is for `Leftover = FALSE`. With
  `TRUE`, `reset_once` shows that objects are shared.
- `IoApp` says of a message whose connection closes that it is not both sent
  completely and collected. One that was sent in part may be collected, and sent
  again from its start on another connection; one may be neither sent nor
  collected (`pushlist_collected`).
- `PoliteNeverKicked` is about answers that close. The rate limits and the read
  timeout also end connections.
- `AnsweredIsRouted` excepts a user whose older connection was touched after a
  newer one had logged in: when the newer one closes, the collector erases the
  entry of the older one.
- `KickedSucceeds` is about calls that lose at most one connection while redis is
  up, `HeardIsStored` about publications that do not overlap.
- `RightUser` and `StaleEntryDropped` are about messages that were not freed
  (`route_assert` shows that freed ones are used).
- `RegisteredAndWatched` and `RegisteredAgain` except the windows `raced`
  records.
- `HealthyPoolUsable` is checked where the list of replicas is fixed (share,
  rotate).
- `ListSound` assumes that the path of the service exists when the client starts
  (`list_follows`). The list has settled only when no task was dropped since it
  was read, and replicas that could not be connected to are missing from it.
- `CallsReturn` excepts, in the scene mixed, a call whose pool was destroyed
  between look-up and use.
- `NobodySleepsOver` excepts a consumer in `PriorityQueue::getM`.

### Bounds

| run | instance |
|---|---|
| `io_front` | sock: `ReadMax = NotifyCap = MaxQueue = 6`. push: lists of 1..3, `ReadMax` and `NotifyCap` 4, `MaxQueue` 6. life: 3 connections, 3 objects, `MaxLoop` 3. framing: header 2, frames to 8, buffer 4 growing by 2, `Limit` 4, four scripts. sampling: 3 minutes of 2 seconds, limits 1, 2 and 3, `MaxNow` 9. accept: 3 threads, `SocketMax` 3, 5 clients |
| `io_app` | 2 connections, 2 objects, 3 messages of `FrameLen` 2, `MaxLoop` 2 |
| `routing` | moves: one user, two connections on two IO threads. users: two users, three connections on one. 3 messages each |
| `session` | alone: 1 connection, 8 kinds of frame, 3 frames, 1 + 1 workers. waits: a polite client, 2 + 2 workers. pair: two connections of one user, 2 frames of 3 kinds each, 1 + 2 workers. publish: 2 threads, 2 logins, 2 faults. broker: 4 requests, 2 workers, 2 users, `TargetMax` 3. parser: one pack after another, `FrameMax` and `TargetMax` 1024 |
| `pilot` | share: 1 replica, 2 callers, 2 connections. rotate: 2 replicas, the calls with retries and by id. update: 2 changes, 1 lost session. mixed: a caller during 1 change. register: 3 sessions, 2 losses, 2 edits. dispatch: 2 callers, 3 attempts, 1 fault. `MaxErr` 1, `TaskPool` 2 (5 in `list_follows` and `pool_recovers`) |
| `library` | blocking queue: 4 messages; 3 workers with get(1), or one router with lists of up to 3. 3 operations on each other queue, strings of up to 3 letters, files of up to 4 lines, one long number and one long string, 8 streams of bytes |

Small is enough where one step has few partners. Two connections and two objects
let an object serve both in turn and let a message for the first arrive while
the second has its object; a third message lets one be sent, one be on the push
list and one be queued. Frames of two units close a connection in mid-frame. Two
connections on two IO threads give the collector a newer connection to find and
a table entry to keep; two users tell whether a message can change hands. Three
consumers let one be woken, one come back from work and one sleep. The sizes of
buffers are such that they overflow, wrap or fill within the run. Queues, loop
counters, faults, sessions and changes are bounded in guards, by constants with
`Max` in their name. What is proved below holds for every value of these bounds.

### Deadlock

TLC's test for deadlock is off: the instances end. The clients have sent what
they send, the bounded faults have happened, and the server waits for more, as it
does in reality. That nobody waits for what is already there is stated by
`NoLostWakeup`, `NobodySleepsOver` and the liveness properties.

### Fairness

Weak fairness only, of steps the server takes by itself:

- `io_front`: the event loop's callbacks, the acceptor's loop and the second step
  of a dispatch. In the scene framing also the client's sending and the read
  event of a socket with bytes in it, since `AllDelivered` is about a client that
  goes on.
- `io_app`: the callbacks, and for each object progress of its write: the socket
  takes bytes or the write times out. `IoAppCluster::initialize` replaces a
  timeout that is not positive by ten seconds, so there always is one.
- `routing`: the collector's thread alone.
- `library`: the consumers.
- `session`: the IO thread's push and reset, each worker, each broker worker,
  each step of a publication.
- `pilot`: the steps of a caller and of an RPC, zookeeper's watcher thread,
  connecting, and the expiry of sessions nobody uses any more. `pool_recovers`
  also assumes the thread of the update tasks, delivery of zookeeper's events and
  the clock.

Nothing is assumed of clients, of failures, or of the order among threads.

## Findings

Each is a run in which TLC finds the property violated; `PROJECT.json` quotes the
lines.

- `reset_once`: after a recv error `IoConnection::readSocket` resets the
  connection and leaves the switch with `break`. With the header of another frame
  in the buffer it resets the connection again; the object is recycled twice and
  two later connections get it.
- `pushlist_collected`: `whenClosed` hands the chain of unsent messages to
  `collect`, which is `put` and takes the first; the rest is in no queue.
- `route_assert`: `failureRoute` returns -1 also after it has routed the list, so
  the collector frees messages that are queued. One that is allocated again has
  `_io = -1`, and the router's assertion on `io` fails.
- `edit_distance`: the loop of the edit distance looks for a swap of neighbours
  only from the third character on, so that "ab" and "ba" have distance 2.
- `list_follows`: the event for a service path that did not exist is looked up
  under the parent of the path; no task manager has that key, and the client's
  list stays empty.
- `pool_recovers`: a pool with too many errors is dead for good while its replica
  stays registered, though a comment expects zookeeper to report it.

## Proofs

A theorem holds for every value of the constants that satisfies the assumption of
its module: any number of connections, objects, users, messages, frames,
consumers, workers, sessions and faults. Each invariant is proved from an
inductive one: it holds initially, each action keeps it, and it implies the
invariant stated. Below, *inductive* is what had to be added, and why.

**IoNotifyProofs** (from `IoNotifyAssumption`). `TypeCorrect` for both channels.
For the socket channel, `Batches = {1}`: `NoLostWakeup` is not inductive, since it
does not say how many bytes there are. `BytesCoverQueue` is: the bytes written and
owed are at least the sockets queued and the bytes the running handler will read.
From it `SocketNeverStranded`. `NoByteBuildup`, at most one byte too many, needs
`MaxQueue <= ReadMax`.

**ConnLifecycleProofs** (from `ConnAssumption` and `Leftover = FALSE`). `ConnInv`
holds the types, `OneOwner`, that open connections are registered under their
ids, which objects newConnection and the recycle list hold, and that an object
closed in this iteration is not ripe. From it `ObjectsNotShared`,
`OpenConnectionsFound`, `ConnCountExact` and the action property `NoEarlyReuse`.

**IoAppStreamProofs, IoAppProofs** (from `IoAppAssumption`, `ConnAssumption`).
`LifecycleImplemented` shows every step of `IoApp` to be a step of `ConnLifecycle`
or none, so `ConnInv` carries over. `CleanInv` adds that closed objects hold
nothing and an open one only messages for its connection: `RecycledObjectsClean`.
`StreamInv` adds the order: a message is in one of the queue, the batch being
pushed, a push list, the frame being sent, the wire and the collector, these hold
messages in the order of dispatching, each once, and the write position continues
where the wire ends. From it `StreamsStayIntact` and `CollectedAreUnsent` (what is
collected was not sent completely). All but the
refinement need `Leftover = FALSE`.

**MsMessageBlockQueueProofs** (from `QueueAssumption`). `Covered`: while somebody
waits, there are as many woken consumers as messages, or one woken by a whole
list; `NobodySleepsOverMessages`. `QueueInv` says that there are sequences, the
queue and the batch of each consumer, of which head, tail, size and `_next` are
the links: `QueueStaysSound`. The chain from the head is determined by the
links (`ChainIs`, by the least index at which two chains would differ), which
gives the refinement mapping to `FifoQueue`: `QueueIsFifo`.

**ImSessionProofs** (from `SessionAssumption`). `Vouched`: an answer to a login or
a touch that is under way had its user entered before. `TableSound`: an entry
names the connection entered last or is missing, and it is missing while that
connection is open only when a later one has closed; for this the collector must
have messages of closed connections only. Both give `AnsweredUsersRouted`.
`Switched` and `PoliteWay`: what a polite client has sent so far, the stamps of
its frames in the queues and the state of its connection fit together;
`PoliteClientsStay`. `OnePlace`: a frame is in one queue, worker, list or inbox;
with `AckedInv`, `FramesAnsweredOnce`.

**CoordinationProofs** (from `PublisherAssumption`, `RegistrationAssumption`).
`LostSoFar`, with `AtMostTwice` (a route is told at most twice), says for each
step of a call during which redis stayed up how many connections it must have
lost to be there; `KickedWorkersPublish`. `Sequential` says what is stored and
was heard at each step of publications that do not overlap; `LastHeardIsStored`.
`Settling`, with `SessionsKept` (which sessions live, and whose the node is), says
of each call of join and each pending event what it still has to repair;
`StaysRegistered`.

**UserRoutingProofs** (from `RoutingAssumption`). `RightUser` and `RouteOrder`
speak of the end of the way, the sockets, so the invariant follows each message
from the table through the router, the sorting, the IO thread and the collector
and back. `RoutingInv` has the types; `Known`, that the table and the messages in
a worker's hand name connections the user has used; and `Tracked`, that there
are a place for each message and a number for each routed one such that

- every list holds the messages whose place it is, each once;
- the lists to a connection, and those that feed them, rise in that number;
- the connection a message names fits its place: it was used by the message's
  user, it is the one of the list, and it has closed for messages the collector
  has.

The place, list and number are quantified in the invariant and no variables of
the model: each action's lemma names those after the step. Sorting a batch
(`SubSeqAt`) and the newest connection of a group (`MaxConn`) are choices from
finite sets; what is needed of them is proved by an induction up to
a number (`Climbs`), which follows from the well-foundedness of inclusion on
finite sets. From `RoutingInv` follow `RightUserAlways`, `SentInRouteOrder` and the
action property `OpenEntriesStay`.

The inductive invariants of `IoApp` and `UserRouting` were also checked with TLC
on the instances of `io_app` and `routing` before they were proved.

## Only model-checked

- Liveness, which the prover does not reach: `QueuedArrives`, `AllDelivered`,
  `PushListDrains`, `StaleEntryDropped`, `EveryMessageTaken`, `WorkEnds`,
  `RegisteredAgain`, `CallsReturn`, `ServedInSequence`.
- Algorithms over sequences, written with folds, recursive functions and recursive
  operators: what they compute would need induction over data. These are `StringAlgorithms`,
  `IniFileReader`, `ProtoMessage`, `ImProto`, `PackObjects`, `ImMessageParser`.
- Safety of components for which no proof was written: `IoFraming`, `IoSampling`,
  `IoAccept`, `ConnPool` and `PooledClient`, `MessageRpc`, `BrokerInbound`, the
  priority queue and the queues of the library.

## Not modelled

- Code `main.cpp` does not start: `io_backend*`, `ms_message_router_remote`,
  `ms_message_block_queue_limit`, `im_user_channel_register_table_remote`, the
  test clients.
- Starting threads and servers: `main.cpp`, `io_manager`, the worker clusters'
  start, the thrift server. The order is fixed and sequential.
- Operations nobody calls: redis `MSet`, `Get`, `MGet`, `Keys`; timed_get of the
  wait list; the parser's other `create*Pack`; `TIMED_REFRESH_ALL`, which no one
  makes; `monitor_proc`, which no one starts; `stop`; code under `#if 0`.
- `ServerCluster`'s quit: the end of the session removes the node as well.
- Wrappers of the operating system and conversions: `posix_thread_factory`,
  `TLS.h`, `thread.h`, `util.cpp`, the numeric getters of the configuration
  reader. Its regular expressions are external.
- Descriptors and reflection of the generated `im.pb.cc`; the headers of the JSON
  library.
