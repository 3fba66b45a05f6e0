# TLA+ verification of TPP

TPP is a C++ client library for Twitch: an application creates a `tpp::conduit`,
starts it, opens an EventSub conduit with a number of websocket shards, subscribes
to events and receives them in hooks. This directory holds TLA+ modules of the
library, the TLC configurations that check them, and TLAPS proofs.

Run from this directory:

    tlc -config DispatchPool.cfg MCDispatchPool.tla     # any .cfg, with its module, see section 4
    tlapm DispatchPoolProofs.tla                        # and the other *Proofs.tla, see section 6

`PROJECT.json` lists the runs, the source lines of every definition (`map`), the
faults each property is tried against (`mutants`), the hazards of the code and the
findings. All source paths below are relative to `src/`.

## 1. Inventory

Threads: the application's own, one IO thread (`conduit::worker_loop`), and four
dispatch threads (`conduit::dispatch_worker_loop`). Almost everything of the
library happens in callbacks on the IO thread; hooks run on the dispatch threads.

| Component | State | Operations | Talks to | What makes it correct |
|---|---|---|---|---|
| Dispatch pool (`src/conduit.cpp` 183-205) | `dispatch_queue_`, `dispatch_stop_`, the threads, `dispatch_cv_` | `enqueue_dispatch`, worker loop, start, stop | event handlers push, `stop()` drains | nothing lost, repeated, overtaken or stranded; stop waits for all of it and never blocks |
| Timers (`src/timer.cpp`) | `next_timer` heap, `deleted_timers` | `start_timer`, `stop_timer`, `tick_timers`, `oneshot_timer` | `prune()` of the socket engine calls the pass; connections and tokens own timers | no timer lost, doubled or early; a stopped timer stays stopped; each due timer is reached |
| Lifecycle and deferred queue (`src/conduit.cpp` 46-181, 213-257) | `running_`, `socketengine`, `deferred_`, `consumers_`, `pending_app_requests_`, `pending_requests_` | `start`, `join`, `stop`, `defer`, `run_deferred`, `add_consumer`, `remove_consumer` | everything | no closure, iterator or connection outlives what it refers to |
| EventSub conduit (`src/conduit.cpp` 259-635, `src/eventsub_client.cpp`) | `conduit_id_`, `conduit_ready_`, `shards_`, the pending subscriptions | open, delete, subscribe, unsubscribe, welcome, reconnect | Helix requests, Twitch | each call is answered once; no subscription is forgotten; shards agree with Twitch |
| Token rotation (`src/conduit.cpp` 784-961) | app token, consumers' tokens, their expiry and timers | schedule, refresh, ensure | timers, Helix, the application's references | a token is replaced before it expires; nothing is written to a consumer that is gone |
| Socket engine (`src/socketengine.cpp`, `src/socketengine_poll.cpp`) | `fds`, `poll_set`, flags | register, update, modify, delete, `process_events` | connections, any thread | no event for a dead connection, no lost flag, no entry kept for ever |
| TLS connection (`src/ssl_connection.cpp`) | buffers, handshake state, descriptor, timer | connect, read, write, close, retry | socket engine, timers, DNS | everything written is sent; each connection closes its own descriptor, once |
| TLS context cache (`src/ssl_context.cpp`) | contexts by port | look up or make, release | TLS connection on any thread, HTTP server | a connection's context exists until its handshake; a server shows its own certificate |
| HTTPS client (`src/https_client.cpp`) | parser state, `completed`, timeout | `handle_buffer`, `one_second_timer`, `close` | TLS connection, callers | the caller is told once, in time, and has the whole body however reads cut it |
| WebSocket client (`src/websocket.cpp`) | `ws_state`, buffer, timers | upgrade, frames, pings, timeouts | TLS connection, EventSub client | frames handled once, in order, none held back |
| HTTP server (`src/http_server*.cpp`, `inc/tpp/socket_listener.h`) | request being parsed; connections by descriptor | accept, parse, respond, erase on close | socket engine, handler | one answer for a request; a connection lives until it closes, and no longer |
| OAuth redirect server (`src/auth_server.cpp`) | server, nonce, look-up in flight | `start`, `stop`, `generate_auth_url`, redirects | HTTP server, HTTPS client | sign-ins in order, none after `stop()` |
| DNS cache (`src/dns.cpp`) | `dns_cache` under a mutex | `resolve_hostname` | every connecting thread | a caller never holds a freed or stale entry; failure is reported |
| Event router (`inc/tpp/event_router.h`) | handlers by handle | attach, detach, call | dispatch threads, application | who is attached hears everything; who is detached hears at most what was under way |
| Event handlers (`src/events/*.cpp`, `src/eventsub_events.cpp`, `inc/tpp/dispatcher.h`, `inc/tpp/event.h`) | none | JSON to structs, type to handler, factories | router, dispatch pool | each of 77 types has its handler, which fills the declared struct and survives missing fields |
| Scopes and intents, sockets and utilities | none, or plain data | tables, wrappers | everything | not modelled |

Hard behaviours: a condition variable notified outside its lock; a timer pass
that lets go of its lock around callbacks; closures that carry raw pointers and
list iterators to a later tick; `stop()` racing all of it; chains of requests that
may time out at any link; check-then-act on the conduit's readiness; descriptors
that the operating system gives again while two tables still hold the old owner;
socket flags that are copied, changed and written back without the lock; input cut
at any byte; callbacks that throw through the event loop. `PROJECT.json` lists each
hazard at its line, with the properties that would catch it.

## 2. Plan

Built in this order:

1. `WorkQueue`, `DispatchPool`, `DispatchPoolProofs`: what every event passes through.
2. `TimerQueue`, `TimerQueueProofs`: what every timeout and retry rests on.
3. `ConduitLifecycle`: composes the IO thread, the deferred queue and `stop()`; the
   dispatch pool is abstracted to what `DispatchPoolProofs` proves of it.
4. `EventSubConduit`: the protocol with Twitch; the deferred queue is abstracted to
   the order `ConduitLifecycle` gives it.
5. `SocketEngine`, and `SslConnection` on top of it, checked as one composition.
6. `HttpsClient`, `WebsocketClient`, `HttpServerRequest`: the parsers and timeouts
   above a connection, whose buffers they take from `SslConnection`.
7. `DnsCache`, `SslContext`, `SocketListener`, `AuthServer`. `Connections` composes 6, 7 and
   the progress of 5; `MCConnections` gives it inputs.
8. `TokenRotation`, which takes its timers as `TimerQueue` promises them.
9. `EventPayload`, `EventTypes`, `EventHandlers`, `EventRouter`: a notification from the
   socket to the listeners, for all types.

10. `ConduitLifecycleProofs`, `EventSubProofs`, `TokenRotationProofs`,
   `SslConnectionProofs`, `EventRouterProofs`, `ConnectionProofs`.

All of it is done; what the proofs leave to TLC is at the end of section 6.
No module has a recursive operator.

## 3. Modules

### WorkQueue and DispatchPool

`WorkQueue` is what the pool promises: submitted items wait in order, begin in that
order, and finish. `DispatchPool` has the code's threads: a producer pushes under
`dispatch_mutex_` (`Push`) and notifies after the unlock (`NotifyOne`); a
worker evaluates the predicate and takes (`Take`), sleeps (`Wait`) or leaves (`Exit`)
in one critical section; `SpuriousWake` is what the standard allows; `SetStop`,
`NotifyAll`, `Join`, `Stopped` are the steps of `stop()`. Producers are the IO thread,
application threads, and hooks, which may enqueue themselves; the IO thread no longer
pushes once `stop()` has joined it. `ImplementsWorkQueue` is the refinement: queue to
queue, held items to running ones.

### TimerQueue

One entry of `next_timer` is a handle and its `next_tick`. A pass is `TickBegin` (reads
the clock and the size), then per iteration `Pop`, `Check`, `Call`, `Requeue` or
`Retire`, each a critical section of `timer_guard` or the code between two of them, so
`StartTimer` and `StopTimer` of other threads fall in between; `TickEnd` is the early
break. Ties of `next_tick` are broken either way. `Throw` is an `on_tick` that throws
through the pass into the handler in `prune()`. `Construct` and `AssignHandle` are the
two halves of the constructor of `oneshot_timer`. The clock (`NewSecond`) moves while
the pass runs, up to `MaxTime`.

### ConduitLifecycle

The IO thread (`Loop`, `RunDeferred`, `Complete`, `Notify`, `PollEnd`), the hooks
(`HookBegin` to `HookEnd`), the application (`Start`, `AppRequest`, `AddConsumer`,
`AppRemove`, `AppDrop`) and `stop()` step by step in the code's order (`StopBegin`,
`StopJoined`, `StopDeferred`, `StopDispatch`, `StopClear`, `StopReset`). A consumer exists
while anything holds a `shared_ptr` to it: `consumers_`, the application, a hook, or
the closure `remove_consumer()` deferred (`Alive`). An `https_client` exists while its
list does (`LiveClients`); `Complete` is its response or timeout, and defers its
erasure. A call like `send_message(user)` looks the consumer up, holds a `shared_ptr` of its
own and inserts later, when the consumer may have been removed or replaced (`AppLookup`,
`HookLookup`, `NewUserRequest`). `loose` records the consumers for which that matters: those that
lost the reference of `consumers_` by replacement, or while somebody held another one, or
that were used by who held one later; for these the library keeps no promise, since the last
reference then dies wherever it is dropped. `CompleteThrows` is a `completed` that throws
and is called again; `thrown` has its clients. An erasure that finds nothing
(`RunDangling`) is undefined behaviour, after which the thread makes no step. The variable
`uses`, chosen from the constant `Uses` and never changed, says what
the application does: each property names the uses under which it holds. All consumers are of one user, because entries of
`consumers_` do not interact.
`InductiveInvariant` is at the end of the module, and likewise in the next ones.

### EventSubConduit

Every Helix call is a request that Twitch serves (`Serve`) and that is answered, or
that fails before or after it took effect (`Fail`, `LoseAnswer`); `Handle` runs the
closure the code passed as `completed`. `ensure_app_access_token()` is `EnsureToken`
and `Continue`. `finish_opening_conduit()` is split where other threads can see it:
`Publish` sets `conduit_id_` without the lock, `TakeLists` sets the flag and takes the
waiting subscriptions under it, `SendTaken` sends them one by one, `OpenShard` appends a shard
and `FinishEnd` calls the callback; other threads go on between any two of these. `Subscribe` and `SubscribeSend` are
the two sides of the unlock in `subscribe()`. `Reconnect` makes the replacement and defers
its move, `RunDeferred` moves it. With "throw" in `uses` any handler may throw
(`HandleThrows`, `FinishThrows`, `SubscribeThrows`, `ShardThrows`), see below. Twitch is external: it keeps the conduits of the
client in order of creation, and rejects requests that name a conduit it does not
have or a session that is closed. The calls `start()` itself makes are calls of the
application here. The variable `uses`, chosen from the constant `Uses`, says what the
application and Twitch do (`UseKinds`); where a property needs some of it not to happen it
says so.

### SocketEngine and SslConnection

`SocketEngine` holds the two tables (`fds` under `fds_mutex`, `poll_set` under
`poll_set_mutex`) and one operator per critical section; a call that takes both mutexes
in turn is two operators. `SslConnection` composes them: the IO thread's
`process_events()` reads `poll_set`, looks each ready descriptor up, calls the handler with
the pointer `get_fd()` returned, and uses it again after the call (`Loop`); the handler is
`on_read()`, `on_write()`, `on_error()` or the retry timer, down to `close()`; an
application thread is inside `socket_write()` (`Write`), and another one inside the
constructor of a connection (`Open`, `OpenOn`), as `send_message()`, `helix_post()` and `subscribe()`
are on threads of the application and of the dispatch pool; `Openers` says which threads
construct. `inplace_modify_fd()` is split into its copy and its write-back.
OpenSSL is external: a call asks for reading or writing, succeeds or fails. `Faulty`
says which peers refuse, send in parts or break.

Two things the code cannot promise are recorded instead of assumed away. `raced` holds
the connections that `inplace_modify_fd()` mixed up: it wrote a stale copy over an entry of
theirs, or set the flag of one in an entry of the other, or they have a descriptor that a
connection mixed up before closed or registered;
the properties about flags are stated for all the others. `foreign` holds the connections
whose descriptor another one closed; `ClosesItsOwn` says that this happens to no
connection outside `raced`. On the IO thread a connection is constructed from a timer, from a
handler of data, where the callbacks of requests and frames run, or from the `completed`
that `close()` calls (`Construct`). `crossed` is set when a thread of the application gets a number
that is still remembered (`Known`): by a table of the engine, by the IO thread that has it
to visit, or by a connection that is closing or retrying. From then on two connections share
a number and nothing is claimed; that this does happen is what `transport_safe` shows. A
retry waits for its first write event, or connects at once and sends, or fails
(`RetryConnect`). What its `on_write()` hands to `update_socket()` when it connects at once is
left out: `MakeEntry`, which follows on the same thread, replaces that entry.

### HttpsClient, WebsocketClient, HttpServerRequest

The peer's bytes arrive in pieces cut anywhere; a turn of the parser's loop is a step.
In `HttpsClient` a token is a line, a header field, CR, LF or a unit of the body, so that
every cut the parser can tell apart is there; it is known by its position in the answer,
the buffer is what lies between `consumed` and `arrived`, and the body is compared unit by
unit with the one sent. In `WebsocketClient` a byte is its offset in the stream, and the real sizes
of headers (126, 65536) are kept. In `HttpServerRequest` units are counted against the
limits of header and body, and the response passes `obuffer` and
`client_to_server_buffer` as `SslConnection` sends them. `completed` of a request and the
handler of a server may throw.

### DnsCache, SslContext, SocketListener, AuthServer

`DnsCache` has the critical sections of `dns_cache_mutex` with `getaddrinfo()` between
them, callers on several threads, expiry, and the exception of a failed lookup up to
`std::terminate()`. `SslContext` has those of `context_mutex` in the same way, with clients
constructed by any thread and the connections of servers by the IO thread; a port has the
sequence of the contexts made for it, a connection holds a plain pointer to one from its
constructor to `NewSession`, and `StopServer` releases what belongs to its port.
`SocketListener` keeps, in the record `sockets`, the listener's map of connections, the engine's
table and the operating system's descriptors, which are given again at once: to another
connection of the server, to a new server's listening socket or to an `https_client`.
Everything in it runs on the IO thread, so a callback is a step. `AuthServer` is the
handler on top: redirects in any order and more than once, a look-up that a later redirect
or `stop()` replaces.

### Callbacks that throw

A `completed` calls functions of the application, reads values that may have another type,
or constructs further clients, which may fail to connect: it may throw. `process_events()`
catches that and calls `on_error()`, and `https_client::close()` calls the same `completed` again
(`https_client.cpp` 269-271, 316-321), or never, when a timer called it. What the modules make
of it:

- `HttpsClient`: `completed` throws up to `MaxThrows` times; one that throws out of `close()` itself
  ends the process. `HttpsAnswersOnce` says that it is called again only after a throw;
- `ConduitLifecycle`: `delete_conduit()`, `create_conduit()`, `subscribe()` and `unsubscribe()` defer
  the erasure of their client before they call what may throw (`conduit.cpp` 339-349, 380-389,
  598-601, 629-631), so that the second call defers a second erasure of the same list
  iterator, which is undefined behaviour. `EraseSafe` holds of every client whose
  `completed` did not throw, while others throw and are erased twice, and not of those;
- `EventSubConduit`: an exception between any two steps of `finish_opening_conduit()` loses the
  subscriptions that were taken and not sent, leaves the shards opened so far, and the
  second call opens them again from ID 0. The model has one throw a call: `CallsKept` says
  which calls that may lose (`lost`) or answer twice (`thrown`), and that it
  meets no other; `ShardsInOrder` gives up the index of a shard, and `ShardsAssigned` all of it,
  when a call threw. A welcome or reconnect that throws closes its shard
  without a replacement (`ShardThrows`);
- `AuthServer`: the look-up throws before or after listeners of `on_authenticate` were called
  (`CompletedThrows`), and these are then called again for the same redirect; `SignInsInOrder`
  allows a repetition exactly there.

### TokenRotation

The app token and two consumers of one user, whose lifetime is that of their
references: `consumers_`, the application, a deferred function, a running callback. A
request is answered in any order, fails, or is destroyed by `stop()`. `expires` is what the
library believes, `valid` what the service does; the two differ by when a request was sent
and when its answer came.

### EventPayload, EventTypes, EventHandlers, EventRouter

`EventPayload` gives the accessors (`string_not_null()` and its kin) and the
`fill_from_json()` of the payload types by what they make of each kind of JSON value.
`EventTypes` is `dispatcher.h`: for each struct the subscription type and router its comment
names and the type of every member. `EventHandlers` is the 77 files of `src/events`: which
keys each handler reads, by which accessor, into which member; and the table and factories.
Neither is derived from the other, so `AsDocumented` compares two readings of the
source. The table is the set of its rows, as the source lists them (`EventMapRows`), and
`event_map` the function they make. `EventRouter` is the way of a notification: `Notification` on the IO thread,
`Take`, `Fill`, `Copy` and `CallListener` on a worker, with `Attach` and `Detach` of other threads in
between. The queue keeps its order here, as `DispatchPool` shows of it.

### Connections

One class in each behaviour: `HttpsClient`, `WebsocketClient`, `HttpServerRequest`, `DnsCache`,
`SslContext`, `SocketListener`, `AuthServer`, or `SslConnection` with peers that neither break
nor block, for its progress; the variables of the others are None. The classes do not share
state in the code either: what connects them is `SslConnection`, whose events are their
actions. Its safety is checked in `transport` on a larger instance, its progress here on a
small one, in which connections are constructed on the IO thread, none is retried and no send
is partial. `ConnectionsAssumption` is the assumption of every class.

### MC modules

They say what TLC explores of a module whose constants and initial states allow more, and
which fairness goes with it. `SslConnection` needs none.

| Module | What it explores |
|---|---|
| `MCTimerQueue` | `shared`: any thread uses timers; and without it, only the IO thread does, with progress |
| `MCConduitLifecycle` | by `uses`: none of the optional uses, and functions that throw, with two clients; each of the other three, and all of them at once, with one client; a second consumer only where one replaces another; the application holds one consumer at a time |
| `MCEventSubConduit` | by `uses`: failing calls and subscriptions, one shard; two shards, four connections, reconnects, one deletion; two shards, subscriptions and a deletion with at most two throws, one call that opens and one connection that is welcomed |
| `MCConnections` | what the peers of the classes of `Connections` send |
| `MCTokenRotation` | the constraint `Apart`: the app token and the consumers share only the clock and `stop()`, so they are explored apart |
| `MCEventRouter` | every subscription type in turn |

## 4. Runs

| Run | Question | Size |
|---|---|---|
| `dispatch_pool` | order, loss, stranding, joins; `InductiveInvariant`; refinement of `WorkQueue`; every item runs and `stop()` returns | 3 workers, the IO and one application thread, 2 items, 2 starts |
| `timers` | conservation, pace, calls after `stop_timer()`; `InductiveInvariant`; the promises of `oneshot_timer` and each due timer taken, on the IO thread | a repeating timer that may throw and a oneshot, frequencies 1 and 2, clock to 3 |
| `lifecycle` | erasures find what they erase; nothing is left when the engine is reset; erasures run, `stop()` ends; a `completed` that throws | 2 clients, 2 consumers, 1 hook, 2 starts, 2 deferred when one is removed or throws |
| `lifecycle_start_wait` | finding: `start(true)` and `stop()` | 1 client, 1 consumer, 1 hook |
| `eventsub` | calls and subscriptions are answered, parked and sent; shards against Twitch | 2 opens, 2 subscriptions, one of them of a consumer, failures, 2 starts; 2 shards, 4 connections; 2 throws |
| `transport` | entries in use, descriptors, flags, while another thread opens connections | a TLS and a plaintext connection whose peer is faulty, 2 descriptors, 1 retry, 1 read, 1 write besides the request, buffers of 2 units |
| `transport_safe` | finding: an entry replaced under the IO thread | 2 connections, 2 descriptors, opened by a thread of the application |
| `connections` | one answer, whole and in time; frames; addresses and contexts; served connections; sign-ins; what is written is sent, marked entries leave | the inputs of `MCConnections`; 2 threads, 1 host, 3 TLS connections, 1 TLS port, 2 certificates; 2 accepted connections, 1 client, 3 descriptors, 2 servers; 3 redirects, 2 URLs, 2 starts, 2 throws; a TLS and a plaintext connection, 2 descriptors, 1 write, buffers of 1 unit |
| `dns_failure` | finding: a lookup that fails on a retry | the same |
| `http_flush` | finding: a response sent in parts | the same |
| `tokens` | a token stays valid and scheduled; consumers that go away | app token, 2 consumers, one refreshable; lifetime 3, margin 3, latency 1, clock to 4, 2 requests |
| `events` | declared structs against handlers; missing fields; who hears what | all 77 types, 2 listeners, 1 worker, 2 notifications |

Bounds. Three workers are the least with one asleep, one in a hook and one between
notify and wake-up; two items are the least that can overtake each other. Two starts
show what one run of a conduit leaves to the next. Two timers, one of each kind, are
enough for ties and for one taking the other's turn; a clock that goes to 3 lets a timer
be two periods late, and the clock stands for all later times when it is there. Two
clients allow one whose erasure is in the batch and one in flight. Four connections are
two shards opened and a reconnect of each, or one reconnect and a shard opened again after
the deletion. The calls that fail are explored without `delete_conduit()`: a subscription
that races one is discussed below. Two connections and two descriptors let each take the
number the other gave up; a buffer of two units is the least that can be sent in part, and
one retry the least that closes and opens. The inputs of the parsers have each branch
of `handle_buffer()` at least once: with and without a length, chunks, trailers, numbers
that are none, a body too long or too short; lengths of frames on both sides of 126 and
of 65536. A lifetime and a margin of 3 are the least above twice the latency of 1, which
`TimeAssumption` asks for: an answer is late by 1, and the refresh after it again. Two
listeners let one be detached while the other is called. In `events` there is one worker, so that hearing a
notification twice across workers rests on the proof of `CallsBoundedHolds`. Every member of every
struct is filled with one field at a time missing, null or of another kind, because
accessors do not depend on one another.
`CHECK_DEADLOCK FALSE` is set throughout: the conduit may stay stopped, and the bounded
counters run out.

What was found. Four runs end in a violation of what a comment or header says; the quoted
lines are under `findings`:

- `lifecycle_start_wait`: `start(true)` and `stop()` join one thread twice;
- `transport_safe`: `delete_socket()` says that an entry goes "as soon as is safe", but once the
  descriptor is closed another thread that opens a connection gets its number and replaces
  the entry while `process_events()` uses it;
- `dns_failure`: a failed lookup throws a `std::string`, which ends the process when it
  happens in a retry;
- `http_flush`: a plaintext response that is sent in part is cut.

Noticed while modelling, without a run of their own:

- timers: the bound of a pass counts iterations, so a timer of frequency 0 takes every
  turn of every pass; a `oneshot_timer` made off the IO thread can fire twice; `cancel()` of
  another thread may be followed by one call (`OneLateCall` is the exact promise);
- lifecycle: a hook that removes its consumer can defer after the only drain in `stop()`;
  a hook or an application that keeps a consumer beyond `stop()` keeps its `https_client`s
  beyond the engine (`EngineOutlivesClients` is checked without those uses);
- conduit: a lookup that fails makes `open_conduit()` create a second conduit; a second
  `open_conduit()` adds shards whose position no longer is their id; `get_shard_count()`
  counts shards that were closed; a subscription sent while `delete_conduit()` clears the
  id names no conduit; when calls of `delete_conduit()` overlap, the answer to a stale one
  forgets a conduit that was opened since (`conduit.cpp` 338-346), and with three of them the
  library can end with a conduit that Twitch no longer has (the kind "overlap" of `UseKinds`);
- engine: the comment on `prune()` in `socketengine.h` describes more than
  it does; `on_socket_close` handlers run under `poll_set_mutex` or `fds_mutex`;
- TLS contexts: two threads can make two client contexts, which `ssl_context.h` calls the
  single one; a server made with port 0 would release the clients' context when it is
  destroyed (`SslContext` has servers on other ports only); key files that cannot be loaded
  throw a string out of the IO thread;
- listener: `~socket_listener()` closes its descriptor and leaves the engine's entry, whose
  callbacks refer to the listener; `poll()` reports it at once on every turn until the
  descriptor is given again;
- HTTPS: a connection that ends in the middle of a body is reported with the status of
  its header (`https_client.cpp` 317), so `StatusMeansComplete` does not hold although
  `https_client.h` says that 0 means not completed;
- WebSocket: an upgrade response that comes in two reads closes the connection; frames
  in the same read as it wait for the next; a masked frame is never consumed, and keeps the parser's loop turning without an end;
  `fill_header()` may write more than its array holds;
- HTTP server: a malformed request line reaches the handler too;
- sign-in: loading the page again repeats it, and a second one drops the look-up of the
  first;
- events: a boolean or an integer of another kind makes the getters throw out of the dispatch
  worker, which ends the process, although `event.h` 193-194 promises a zero value for a value of
  the wrong type (`MissingIsHarmless` says that nothing else does);
- connections: the rest of a plaintext `send()` that took the last of `obuffer` has no write event
  (`ssl_connection.cpp` 498-517): `OutputIsArmed` is about `obuffer` and says nothing of it,
  nor does `WrittenIsSent`, whose peers take all that is sent; `http_flush` is where it bites;
- DNS: `SharedUntilExpired` ends with the expiry of an entry; that `connect()` still uses the
  pointer when another thread erases the expired entry is not excluded by any property.

## 5. Fairness

Weak fairness of single threads, never of choices of the environment:

- `DispatchPool`: each thread's steps, and hooks return; wake-ups need no fairness of
  their own, since a notification makes the worker's step enabled for good.
- `TimerQueue`: the IO thread and the clock; `poll()` has a timeout of one second, so
  `prune()` is reached.
- `ConduitLifecycle`: the IO thread, `stop()`, and hooks that begin and return; nothing is
  assumed of the network or of the application.
- `EventSubConduit`: a request is answered or fails, which `CompletedAtAll` of `HttpsClient`
  shows as long as timers tick (`NoTimerStarves`); answers are handled; threads in
  `subscribe()` proceed.
- `SslConnection`: the IO thread, and the threads inside the constructor and
  `socket_write()`; that peers take what they are sent is the instance that
  `Connections` has (`Faulty` is empty), not an assumption of the specification.
- `HttpsClient`, `WebsocketClient`, `HttpServerRequest`: what has been read is parsed and
  `close()` runs to its end (the IO thread), and the timer of one second ticks. Of the peer
  only `HttpServerRequest` assumes something: `Progress`, that the kernel takes what is sent
  in the end or reports an error.
- `SocketListener`: the IO thread's loop. `AuthServer`: a look-up completes, which is
  `HttpsCompletes`.
- `EventRouter`: workers are scheduled and listeners return; notifications need not come.

`TokenRotation`, `DnsCache` and `SslContext` state safety only: that a refresh is begun in time is part
of `TokenStaysValid`, with the clock held until what is due has run, as long as the IO
thread lags by no more than `Latency`.

## 6. Proofs

`DispatchPoolProofs` proves, for every set of workers, application threads and items
and every number of starts, assuming only `ThreadsAssumption`, `NoneAssumption` and
`MaxStartsAssumption` (finite disjoint sets of threads, and a natural number):

- `InductiveInvariantHolds`: `Spec => []InductiveInvariant`. The invariants one wants are not
  inductive: that no work is stranded depends on the notifications that are still to
  come, and that stop's join finds no sleeper depends on the order of flag and
  notify. The conjuncts of `InductiveInvariant` say which thread may be where in each phase of
  `start()` and `stop()`, what each thread holds, and that an item is in exactly one of
  the queue, a worker's hands and the past;
- from it `TypeCorrect`, `FirstInFirstOutHolds`, `AtMostOnceHolds`, `NoStrandedWorkHolds`,
  `NoSleeperAtJoinHolds`, `DrainedWhenDownHolds`;
- `Refinement`: `Spec => ImplementsWorkQueue`, the initial states and every step mapped.

`TimerQueueProofs` proves, for every set of timers, frequency, bound of the clock and of
the counters, with and without application threads, assuming `TimersAssumption` and
`NumbersAssumption`:

- `InductiveInvariantHolds`, in four parts. `Placed` says in which one place each timer is
  (an entry of the heap, the hands of `tick_timers()`, retired, lost to an exception) and
  is what `InOnePlace` sums up. `StopsKept` says that a stop stays in `deleted_timers` until
  the timer is retired, and that only a stop of another thread can fall between check and
  call: `OneLateCall` alone is not inductive, because nothing in it says that the next
  check will see the stop. `Paced` says that a waiting entry is one period ahead of the
  calls made, and what the entry in hand owes at each point of the pass. `OncePerObject`
  says that a `oneshot_timer` that has called is stopped, or about to be, when no other
  thread uses timers;
- from it `InOnePlaceHolds`, `NeverAheadHolds`, `OneLateCallHolds`, `OneshotOnceAloneHolds` and
  the action properties `IoStopIsExactHolds` and `StoppedForGoodHolds`.

`ConduitLifecycleProofs` proves, for every set of clients, consumers and hooks, every `Uses`
and every bound, assuming only `LifecycleAssumption` (None is no consumer):

- `InductiveInvariantHolds`. That an erasure finds its client needs to know that nothing else
  erases it (`ErasedOnce`: one erasure of a client in the queue and what is left of the batch
  together, unless its `completed` threw), that it was told from a list the client is still in
  (`OneList`, `ErasureOwned`), and that the consumer of the list lives until the batch gets
  there (`OwnersKept`), unless it is one of `loose`. The exceptions are per client and per
  consumer: whatever throws, is replaced or becomes undefined for others, the promise to
  the rest stands. That
  nothing outlives the engine needs to know where each thread is in each phase of `stop()`
  (`Places`), and that from its last run of the queue on only hooks defer anything
  (`LateItems`);
- from it `EraseSafeHolds`, `EngineGoesLastHolds`; and `JoinNeedsWaiter`, that only a
  `start(true)` makes a join fail, which is as far as `lifecycle_start_wait` leaves it.

`EventSubProofs` proves, for any calls of each kind, any number of shards, connections and
starts and every `Uses`, assuming only `EventSubAssumption` (the kinds of calls are disjoint,
and None is none of them):

- `InductiveInvariantHolds`. `AccountedFor` and `PendingOnlyUnready` are inductive, but that no
  subscription is sent without a conduit needs `Named`: between `subscribe()` and its request
  the conduit stays. That an index of `shards_` is an id needs `OpensAlone` (nothing is
  pushed to a list that is not empty) and `Replacing` (a deferred move puts a connection of
  the same shard in place), as long as no call that opens the conduit threw. What Twitch knows (`KnownToTwitch`) needs `Patching` and
  `DeletesAlone`: a request that is under way names the conduit there is. With handlers that
  throw, a call is in exactly one of the requests, the answers, the pending lists, the lists
  that were taken and the lost (`AccountedFor`, `TakenAlone`), and a callback that was called
  is one of a call that is over unless its `completed` threw (`HeardOnce`);
- from it `CallsKeptHolds`, `ShardsInOrderHolds`, `ShardsAssignedHolds`.

`TokenRotationProofs` proves, for any consumers, lifetimes, clock and number of requests,
assuming `TokenAssumption` and `TimeAssumption`, that margin and lifetimes are more than
twice what a request takes and the IO thread lags (the margin is 60 seconds, a request is
given up after 10, or 10 after its headers came, and tokens live for hours):

- `InductiveInvariantHolds`. `TokenStaysValid` says nothing of who will refresh; `InTime`
  does (the timer, its callback or a request, each by when the token is still good), with
  `AlmostValid` (the library believes in a token no longer than a request takes beyond the
  service) and `RequestsFresh`. `Scheduled` is `NeverStranded` already while
  `add_consumer()` is about to insert;
- from it `TokensKeptHolds`, and the action properties `GoneIsUntouchedHolds` and
  `TimerOutlivesCallbackHolds`.

`SslConnectionProofs` proves, for any connections and descriptors, peers, buffer size, retries
and bounds and whichever threads open connections, assuming `EngineAssumption` and
`ConnectionAssumption`:

- `InductiveInvariantHolds`. `Control` says where the IO thread may be and return to,
  `Closing`, `Making` and `Serving` how the connection it closes, opens or serves is related
  to the descriptor it holds, `Owning` that a descriptor remembered is owned. `InUse` alone is
  not inductive: an entry is replaced only through a descriptor that was given again, so
  one has to know that the descriptor visited is still its connection's until a handler
  closes it (`Serving`), and that closing marked the entry first (`Closing`, `DeletionIsFinal`).
  `Opening` and `OpenedApart` say that a thread of the application that constructs a
  connection is the only one to know it and its descriptor. The theorem is
  `crossed \/ InductiveInvariant`: a number that is still remembered is the one thing that
  breaks it, and `CrossedOnce` makes that exception final. The steps of the opening thread are
  split from all others (`NextSplits`), which leave `opener` and `crossed` alone; `OpenStep` and
  `OpenOnStep` keep all parts of the invariant at once, `OpenOutput` those about output;
- from it `EntryInUseLivesHolds` and `DescriptorsOwnedHolds`;
- `OutputInvariantHolds`. That output is armed is about `poll_set`, and the code changes `fds`
  first and `poll_set` after it, skipping the second where the flag was set already. So the
  invariant has to say that the two agree (`Agreeing`), up to what a thread is about to do
  or what a handler of a handshake or of a full TLS buffer has put off (`SeenTo`); that
  output not asked for is in the hands of somebody who will ask (`Arming`); what flags a handler
  can hand on (`Handing`) and `socket_write()` can write back (`Writing`, and `Numbered`: a copy is
  never of an entry registered later); and that a connection with a descriptor is in both
  tables (`Registered`), once (`PolledOnce`);
- from it `OutputIsArmedHolds`.

`EventRouterProofs` proves, for any listeners, workers and notifications, assuming
`RouterAssumption` (finitely many workers):

- `InductiveInvariantHolds`. How often a listener is called after its `detach()` is bounded
  by adding up the calls made and the workers that have still to make one (`LateCounted`);
  that none hears a notification twice needs the order of the queue, that no two workers have
  the same job (`InOrder`), and that who is still to be called has not heard it (`Unheard`);
- from it `CallsBoundedHolds`;
- `SubscribedIsHandledHolds`: whatever a factory of subscriptions asks Twitch for has a handler,
  and a type that is in no documentation has none, row by row of the table;
- `RoutedHolds`, and from it `AsDocumentedHolds` and `MissingIsHarmlessHolds`, under the
  hypothesis `TablesAgree`. That one is about the tables alone, which are constants: TLC
  finds it true, type by type, in `events`; what is proved is that no interleaving gives a
  listener what the tables do not.

`ConnectionProofs` proves, for any inputs of any length, descriptors, threads, hosts, keys,
timeouts and bounds, assuming only `ConnectionsAssumption` (chunks and frames follow one
another, a service that has a page of its own answers, and the like: what is a well-formed
input of each class):

- `InductiveInvariantHolds`, one class at a time, since a behaviour keeps its class.
  `HttpsClient`: that the body is whole says nothing of a parser that is in the middle of it;
  `Parsed` says where in which chunk it is and that the body has the units up to there,
  `OverForGood` and `StillSet` that a connection that has answered, or is closing, is done
  with, `Incomplete` that a parser that waits lacks something. `WebsocketClient`: `Upgrading`
  and `CloseStays` say what was consumed before and after the upgrade, so that `TakenInOrder`
  is the list of the frames before `consumed`. `HttpServerRequest`: `Progressing` counts what was
  taken of a request in each state and that it is answered when that was all of it.
  `DnsCache`: `NewEntries` says that an address no thread has put in the cache is in one
  thread's hands, `Recent` that what was put in since a call began is good for it.
  `SslContext`: `Pointing` says that a connection that has not begun its handshake points to a
  context of its port, `OfTheServer` that those live as long as the server, `MakingNew` who
  may construct what. `SocketListener`: `Remembered` and `Mapped` tie the descriptor a
  connection remembers to the operating system's, the engine's and the server's tables.
  `AuthServer`: `LookingUpTheLatest`;
- from it `HttpsAnswersOnceHolds`, `FramesInOrderHolds`, `NothingWaitsHolds`,
  `ServerAnswersOnceHolds`, `CachedIsGoodHolds`, `ServedAreKeptHolds`.

What is true of all frames or chunks up to one is induction over data, which the provers
cannot do in general; here a frame or chunk that breaks the rule has a first one before it
(`WFMin` of the library), and that one is the contradiction (`Chain`).

All proofs have one step per action and one lemma for each part of the invariant; frame
lemmas deal with the actions that leave a part alone. TLC has checked each inductive
invariant before it was proved; `dispatch_pool` and `timers` check theirs in every run.

Only model-checked: liveness (fairness and ENABLED are out of the prover's reach), which is
every property stated with `~>` or `<>`; and `TablesAgree`, which compares the tables of 77
types.

## 7. Not modelled

- Scopes, intents, exceptions, string and URL helpers, wrappers of system calls: pure
  functions and tables; they are modelled only by what their callers do with them.
- `fill_header()` and `write()` of the WebSocket client beyond the control frames it sends
  itself, and frames with a mask, which a server does not send.
- OpenSSL, `poll()`, `getaddrinfo()`, Twitch and its clock are external.
- JSON and HTTP as text: values are kinds, header fields are tokens. The choices of a
  handler by the value of a field are not kept.
- Statistics of the socket engine, and its wake-up sockets (`poll()` returns at any time).
- Data races on `pending_app_requests_` and `conduit_id_`: they are hazards, and the models
  treat those accesses as atomic. `stop()` called by a hook, or that of an `auth_server` by the
  handler it is running, is misuse that the models leave out.
