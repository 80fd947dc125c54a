# webvirtd in TLA+

webvirtd is an HTTP and websocket front end to libvirt.  A request names a
system user; webvirtd opens that user's libvirt session (over ssh), answers
queries about its domains, starts and stops them, and forwards libvirt's
lifecycle events to the user's websockets.  It is a multi-threaded C++ program:
the main thread and `--threads` workers run one Boost.Asio `io_context`, and one
more thread runs libvirt's event loop.

This directory models the parts of webvirtd in which that concurrency, and the
failures of links, clients and guests, can go wrong.

## 1. Inventory

| Component (files under `src/src/`) | State | Operations | Modelled in |
|---|---|---|---|
| Websocket subscriptions: `app.cpp` (`websocket`, `add_events`, `remove_events`) | `events_` under `events_mutex_` | on_handshake, on_close, add, remove | `Subscriptions`, `Topic` |
| `websocket::pool`: `ws/pool.cpp` | `map_`, a set of websockets per user | add, remove, size, broadcast | `Subscriptions` |
| libvirt events: `virt/event.cpp`, `virt/events.cpp`, `virt/events/lifecycle.cpp` | callback ids, one `lifecycle_event` per entry | register, deregister in the destructor, dispatch | `Subscriptions`, `AppLifecycle` |
| `websocket::connection`: `ws/connection.cpp` | stream, buffers | run, accept, read, write, close | `Session`, and what its handlers do in `Subscriptions` |
| libvirt connections: `virt/connection.cpp`, `virt/connection_pool.cpp` | `conn_`, `closed_`, `user_` per user, under `connection_mutex_` | get, connect, close callback | `VirtPool`, and in less detail `Subscriptions` |
| Request retry: `util/retry.hpp`, `http/router.cpp` | `retry_` | run, retry, give up | `VirtPool`, `DomainOps` |
| HTTP connection: `http/connection.cpp` | socket, deadline, response, `websock_` | start, read, route, write, upgrade, deadline | `HttpConnection`, `Session` |
| Clients: `http/client.cpp`, `ws/client.cpp` | socket, request, response, frames | connect, request, handshake, read, close | `Session` |
| HTTP server: `http/server.cpp` | acceptor, worker pool | accept, run, destructor | `HttpConnection`, `AppLifecycle` |
| Routes and middleware: `http/router.cpp`, `http/middleware.cpp`, `app.cpp` | none | the status each route answers | `HttpConnection` (`RouterRun`) |
| Domain operations: `views/domains.cpp`, `virt/domain.cpp`, `data/domain.cpp` | locals of a request; the domain in libvirt | start, shutdown, metadata, boot menu, autostart; show | `DomainOps`; `ShowDomain` |
| XML to JSON: `util/json.cpp` | none | `xml_to_json` | `Json`, `XmlLevel`, `XmlJson` |
| Configuration: `main.cpp`, `util/config.cpp` | `vm_`, the logger's flags | parse, has, get, change | `Config`, `Daemon` |
| Process start and stop: `main.cpp`, `app.cpp`, `http/server.cpp`, `thread/*.cpp`, `util/signal.cpp`, `http/io_context.cpp` | threads, `event_cv_`, the stop handler | run, event_loop, SIGINT, destructors | `AppLifecycle`, `Daemon` |
| Host views, logging, libvirt wrappers, stubs and mocks | little or none | formatting and delegation | not modelled (section 8) |

How the parts interact.  The server accepts a socket and makes an
`http::connection`, which reads one request and calls the router.  The router
runs the route through `retry`; a route for a user takes that user's
`virt::connection` from the pool, which is shared by all requests of the user
and may be found closed and reopened.  libvirt reports a dead link by a callback
that runs on whichever thread notices, throws `retry_error` and so makes the
router run the route again.  The websocket route upgrades the connection; the
new websocket joins `websocket::pool`, and its `on_handshake` makes sure that
the user has a `lifecycle_event` in `events_`.  libvirt calls that event on the
event thread, which broadcasts to the user's bucket in the pool.  The `on_close`
of the last websocket removes the event again.

What is hard.  `events_` is looked up without its lock; `on_close` reads the
bucket's size between two locked sections; connections are reopened under
objects that remember ids of the old link; a callback throws through libvirt;
the deadline of a connection races with its read, write and upgrade; requests on
one domain interleave between their libvirt calls, and are retried after calls
that took effect; and at the end everything is joined and destroyed in an order
that the threads in it depend on.  Broadcasts are written to a websocket by a
thread that does not own it, from buffers that do not live as long as the write;
and the JSON of a domain is put together from several calls while the domain
changes.  `PROJECT.json` lists these hazards with
their lines.

What makes each part correct:

* subscriptions: an open websocket is subscribed, exactly once, on the libvirt
  connection in use; nothing is left behind when the last one closes; libvirt
  never calls into a destroyed event;
* connection pool: one connect at a time, a working link is kept, a dead one is
  noticed and replaced, and every request gets an answer within its retries;
* HTTP connection: ends for a reason and always ends; an upgrade is safe;
* session: no upgrade is half done, every client gets an answer, every broadcast
  becomes a message to a client that goes on reading, and none overtakes another;
* domain operations: an answer tells what happened to the domain, or what it was
  at one time;
* configuration: the command line before the file before the defaults;
* process: it comes up as configured, goes down on SIGINT, and destroys nothing in use.

## 2. Modules

`Topic` is the abstract specification of a subscription service.
`Subscriptions` is the detailed one, and is compared with it by a refinement
mapping.  `VirtPool`, `HttpConnection`, `DomainOps` and `AppLifecycle` are each a
component with its environment.  `Session` composes `HttpConnection` with the
client at one end and the websocket at the other, `Daemon` composes `Config` with
`AppLifecycle`; both extend what they compose and conjoin its actions with their
own, so that each implements its parts without a refinement mapping, which is
proved.  `XmlLevel` is one call of the conversion from XML and `XmlJson` its recursion over a
document; `ShowDomain` takes the conversion as a constant operator that is one such call
at every node, and `MCShowDomain` gives it the one of `XmlJson`.  All of them use the
values of `Json`.  A module `XProofs` extends `X` with its theorems (`DaemonProofs` has those of
`AppLifecycle`, too); the inductive invariants themselves are definitions of `X`.
`MCSubscriptions`, `MCDaemon` and `MCShowDomain` give constants their values for TLC.

Definitions whose comment begins with "Mutant" are variants of a definition
with a plausible bug.  No specification uses them: they are the mutants of
`PROJECT.json`, by which each checked property is shown to depend on the code.

### Subscriptions

State: `ws[s]` is the progress of websocket `s` (a socket is a process, because
each of its handlers starts the next operation as its last step); `map_` is
`websocket::pool::map_`, keyed by user names and the empty name; `bucket[s]` is the
`user` that its `on_close` captured; `entries` and `lifecycle` are `app::events_` (keys, and
the event under each key); `holder` is `app::events_mutex_`; `conn` is the user's
`virt::connection` with `conn_`, `closed_` and whether `user_` is set;
`connecting` is the user inside `connection_pool::get`; `callbacks`,
`callback_id_` and `nextId` are libvirt's registrations and ids; `topic[s]` is the
`user` that the handler of the event captured; `dispatch` is the event thread's
libvirt event and the callbacks left for it.

| Action | Code |
|---|---|
| `Websocket` | `connection_pool::get` has returned, the middleware calls `app::websocket` |
| `CaptureUser`, `AddSocket` | `conn.user()` copied for `on_close`; `websockets_.add` under `conn.user()` read again; upgrade or not |
| `AcceptFails` | `async_accept` with an error: `on_error_` only |
| `OnHandshake` | accepted; the unlocked `events_.find` |
| `AddEvents`, `Register`, `RegisterFails`, `SetEvent` | `add_events`: lock and capture `conn.user()`; construct the event, which registers it; `events::set` under `conn.user()` read again |
| `ReadFails`, `OnClose`, `CheckEmpty` | end of the read; `websockets_.remove`; the unlocked size |
| `OnCloseMisses` | the same when the websocket is in another bucket: `pool::remove` erases `end()` |
| `RemoveEvents`, `EraseEntry` | `remove_events`: lock, find by `conn.user()`, remove the event (its destructor deregisters), erase the entry |
| `DomainEvent`, `EnterCallback`, `Broadcast`, `BroadcastFreed` | libvirt hands an event to its callbacks; `on_event_handler` and `pool::broadcast` |
| `ResetConnection`, `Connected`, `ConnectFails`, `LinkLost` | `connection_pool::get` in any request of the user; the close callback |

At most `Threads` handlers are active at once (`Free`).  A data race is a choice
over its outcomes: when `find` runs while another handler writes `events_`, it
may return either answer (`FindOutcomes`); when a callback runs on an event that
is being destroyed it may work or end the process.  `virt::connection` is a
reference into the pool, and a request on another thread may replace what it
refers to at any time, so that every read of `conn.user()` is a step of its own:
the one that `on_close` captures, the one under which the websocket is added, the one
that the event's handler captures and the one under which the event is stored.

Left out here: the order of the messages on one websocket, and what two
overlapping `async_write`s do (`Session`).  A link is lost on a request's thread
here; the event thread's case is in `VirtPool`.

### VirtPool

State: `conn_` and `closed_` of each entry, `connection_mutex_`, the links with
their owner and whether they are alive, watched by a close callback and noticed,
and per thread the request with its `retry_` and the `connect_ptr` it copied
into a libvirt call.  Actions: `Request`; `GetOpen` and `GetStale`
(`connection_pool::get` with and without a usable entry); `Connect`,
`ConnectThrows` and `Watch` (`connection::connect`: open, clear `closed_`, register
the callback); `Call`, `CallReturns`, `CallRetries`, `CallExhausts`, `CallFails`
(a libvirt call that returns, that runs the close callback on the caller's
thread, and that fails because another thread has run it); `Die` (the peer goes
away) and `LoopNotices` (the event thread finds out first).

Every query of `virt::connection` is the same step to the pool, so `Call` stands
for all of them, one per request.

### HttpConnection

State per connection: the read or write (`io`), the wait for the deadline
(`timer`), the socket's place (`socket_`: the connection's, the websocket's,
shut down or closed), the response's status, `websock_`, and counters of
`on_error_` and `on_close_`.  `Accept` and `CheckDeadline` are the two halves of
`start()`, which runs outside the strand, so that the read's handler may run
between them.  `RunRoute` is `on_request_`: it takes one of `Answers`, the set of
results of `RouterRun` over all requests (route, method, upgrade, valid body) and
all worlds (user exists, libvirt connects, domain found, the operation
succeeds, the view throws).  `RouterRun` is the router with its middleware,
composed as in the code.  `RunWebsocket`, `WriteResponse`, `WriteFails`,
`WriteDone`, `ReadFails`, `DeadlineCloses` and `DeadlineAborted` are the handlers;
`ReadCompletes`, `WriteCompletes` and `Expire` are the network and the clock.

The public `http::connection::close` is left out: only tests call it
(`server.test.cpp:178` and `:212`).

### Session

`HttpConnection` lets clients do anything.  `Session` adds the client (`client`,
`requested`, and `kind`: an `http::client`, or a `websocket::client`, whose request
asks for an upgrade) and the `websocket::connection` (`ws`), and restricts the
network: a read completes with a request the client has written, and fails when
the client is gone.  The actions `Accepts`, `Reads`, `Writes`, `Routes`, `Upgrades`,
`Expires` and `Serves` are those of `HttpConnection` under these conditions.

| Action | Code |
|---|---|
| `AsyncRun`, `AsyncAccept`, `AsyncRead`, `AsyncWrite` | the handlers of `ws/connection.cpp` of these names |
| `Broadcast` | `pool::broadcast` on the event thread: `connection::write` for a websocket in the pool |
| `Connect`, `WriteRequest` | `async_connect`, `client_on_connect`, `client_on_write`, the start of the handshake |
| `ReadResponse`, `Handshake`, `ReadFrame`, `ReadError` | `client_on_read` and `client_on_handshake` with and without an error |
| `HandshakeTimeout`, `Close`, `Leave` | Beast's suggested timeout; `close()`; a client that ends or stops taking part |

`connection::write` gives Beast a buffer over the temporary string of
`json::stringify`, and does not wait for the previous write.  What Beast
(external) makes of it: if the text fits the write buffer of the stream (4096 bytes
by default), no other write holds the stream and the socket has room, the frame is
in the socket before `write` returns (`WriteNow`).  A longer text is sent in
fragments (`auto_fragment` is on by default), of which all but the first are read
when the string is gone, whatever the state of the stream; so is the text of a
write that has to wait (`WriteLater`, `Unstick`).  What such a write sends is the text
if the memory is untouched, the latest text if that took its place, or anything.
`held` is the text of the write that holds the stream, `waiting` the one that waits
for it; a third overlapping write trips an assertion.  Before `async_accept` has run,
the frame is written to a stream that does not know its role yet (`WriteEarly`), or
not at all, which the history variable `lost` counts.

Broadcasts are numbered per websocket; a message is the number of its text, or
`Garbage`.  A client that closes and then ends is `left`: the server still reads its
close frame.  The races on the stream's own memory between the event thread and the
strand are not modelled: each operation on the stream is atomic.

### DomainOps

One domain and the requests that change it.  `pc[t]` is the next libvirt call of
the request on thread `t`; calls are atomic, requests are not.  `Create`,
`Shutdown`, `PollEnds`/`PollAgain`/`PollGivesUp` (the two polling loops of
`domain::shutdown`), `Report`, `GetMetadata`, `SetMetadata`, `GetXML`,
`DefineXML`, `SetAutostart` and their failures; `LinkLost` is the retry of the
route by the router; `GuestShutsDown` and `GuestOff` are the guest.  `polls`,
`wasOff` and `changed` are history variables: no guard reads them.

libvirt keeps two definitions of a domain: `saved`, from which it is started, and
`live`, while it is not off.  The code passes no flags, so that texts are read and set in,
and the XML is taken from, `Current`: the live one of a domain that runs.
`virDomainDefineXML` writes `saved` in every state (`Effect`).  A metadata request may
name members that are no strings (`unfit`); it is answered with a 500 when the code
comes to the first of them, which may be after the title was set.

Abstractions: time is counted in polls of 20 ms; `virDomainLookupByName` is part
of the first call (a missing domain is a route outcome of `HttpConnection`); a
domain runs, is shutting down or is off (paused, blocked and crashed behave like
running here: the loops compare with "shutdown" and "shutoff" only); one set of
texts serves title and description.

### ShowDomain, XmlLevel and XmlJson

One GET of a domain, call by call: `ReadText` (title, description), `ReadState`
(state, autostart), `ReadXml`, and `BlockInfo` or `SkipDisk` per disk, then `Show`;
each may fail in the way the wrappers of `libvirt.cpp` let it fail, and `LinkLost`
runs the route again.  `ChangeText` and `ChangeDisks` are everyone else.  `output`
is the JSON document as far as these members go: texts, devices and metadata.
`xml`, `held`, `removed` and `sizes` are history variables.

An XML node (`Json`) is an element or a text; texts are children like elements, in any
number and order.  `FirstText` is `node.text().as_string()`, all that the conversion
takes of them: later texts of an element are dropped (`json.cpp:68`).

`XmlLevel` is one call of `json::xml_to_json`, for a node whose children have been
converted to given values: `Own` (attributes and first text), `AddChild` (one pass of the loop),
`Loop` (the members after each pass, a recursive function) and `Members` (what the call
returns).  `IsGrouped` is the reference: which keys there are, and that the value of
the i-th child is found under its name, at the place in the array that its number among
the children of that name gives it.  `Walk` follows a path of children from a root
through the XML and the JSON side by side (`Descend` is one step of it), and `ShowsNode`
says when the value reached shows the node reached.  `XmlToJson` of `XmlJson` applies `Members` to a tree.

`ShowDomain` knows the conversion as the constant `Convert`.  Nothing is assumed of it
but the equation of one call (`ConvertAssumption`): what it makes of a domain's texts and
devices is proved from that.  `Nodes` are the XML nodes that a user may have put into
`<metadata>`, closed under children, `Paths` the paths that `MetadataKept` looks at.
The run sets `Convert` to `XmlToJson`, so that TLC evaluates the equation for the recursive definition, on every node of the instance.

Abstractions: of the devices only disks, one graphics device (an array key that
occurs once) and the emulator (no array key) are there; of the three sizes of
`block_info` only the capacity; documents are trees of records, not text.  `index`
makes the first calls of `show` for each domain.

### Config and Daemon

`Config` is `main()` up to `webvirt_main`.  `argv` and `file` are what the command
line and the file hold, `vm_` what `boost::program_options` has stored, and `final_`
its set of options with an explicit value, which a later `store` does not
overwrite.  `ParseArgv`, `CheckVersion`, `SetLogger`, `CheckHelp`, `ParseFile`,
`NoFile`, `ParseAgain` and `Launch` are the statements of `main()` in their order,
`ParseArgvFails` and `ParseFileFails` their exceptions.  `Daemon` runs the actions of
`AppLifecycle` once `main()` has launched, and gives `CheckError` the number of
workers that `server::run` asks the configuration for.

### AppLifecycle

The main thread from `main` to the end of `~app`, the event thread, the workers,
`SIGINT` and the stop handler it posts.  `Wait` and `Notify` are `event_cv_`:
a notification with nobody waiting is lost, and `SpuriousWakeup` is a wait that
returns by itself.  `DestroyMember` destroys `events_`, `websockets_`, `pool_`
and `server_` in the reverse of their declaration.

## 3. Runs

All runs say `CHECK_DEADLOCK FALSE`: requests, links and sockets are bounded, and
webvirtd really may be at rest when there is nothing left to do.  That nothing is
stuck is stated by the liveness properties.

### Passing

| Run | Instance | Shows |
|---|---|---|
| `SubsThreads` | 1 user, 2 websockets, 2 threads, 2 links | `RemoveFindsEvent`: `events::remove` never erases `end()`. `LiveCallbackHasEvent`: no callback of the current link belongs to a destroyed event. `NoOrphanEvents`: on the first link, no event outlives the last websocket. `CloseFindsSocket`: on the first link, `on_close` removes its websocket from the bucket it is in. `HandlersFinish`: no handler waits for ever |
| `SubsSerial` | 2 users, 3 websockets, 1 thread, 1 link | `Subscribed`, `CurrentLinkWatched`, `ExactlyOnce`, `EventDelivered`, and the refinement `TopicSpec` |
| `PoolShared` | 2 users, 2 threads, 3 links, 1 retry, 3 requests | `NeverConnectTwice`, `ClosedTracksLink`, `NoLinkDropped`, `RetryBudget`: a request gives up only after more dead links than retries, and retries no more often than that. `BrokenAnswer`: a route takes the error of a dead link for an answer only if its entry was reset, another thread was first to notice, or the link can never be noticed. `RequestAnswered` |
| `Session` | 1 connection, room for 2 frames, 4 broadcasts | `CloseAccounted`, `NoSilentDrop`, `UpgradeOutlivesDeadline`, `Finishes`: the connection. `NoHalfUpgrade`: no client reads a 101 as its response, or is open without a websocket. `TextsInOrder`: whatever overlapping writes and late reads of dead strings do, no text comes after a later one and there are no more messages than broadcasts. `FramesArrive`: every broadcast after the handshake becomes a message, also one that waited, met a full socket or was sent in fragments. `ClientAnswered` |
| `DomainOps` | 2 threads, 2 texts, timeouts of 2 and 1 polls, 1 retry, 2 requests, 2 faults | `ShutdownWasOff`, `PollsBounded`, `RefusedIsClean`, `RequestAnswered` |
| `ShowDomain` | 1 request, 3 disks of which 2 share a name, 3 kinds of metadata (repeated names, elements called `text` and `attrib`, texts between elements), paths of up to 2 children, 1 retry, 2 changes, 2 faults | `OneSnapshot`: title and description belong together. `DevicesListed`, `SizesHeld`. `MetadataKept`: every element of the metadata is in the answer, with its attributes and its first text, and nothing else is |
| `Daemon` | 2 options, 2 values, up to 2 workers | `Precedence`, `WorkersAsConfigured`, `MembersOutliveCallbacks`, `ServesRegistered`, `LastHandlers`: from `~app` on no worker starts a handler. `InterruptEndsProcess` |

`SubsThreads` and `Session` (for `HttpConnection`) also check the module's `TypeOK`; those of
`VirtPool`, `DomainOps` and `AppLifecycle` are proved and not run.

### Violations: where the code differs from what it says

| Run | Property | What TLC finds |
|---|---|---|
| `SubsRace` | `Subscribed` | with two threads, `on_close` of one websocket removes the events that the unlocked `find` of another's `on_handshake` has just seen; the second stays open without events |
| `SubsRelink` | `HandshakeRegisters` | one websocket is open when the link is lost and opened again; `on_handshake` of a second one finds the entry of `events_` with the event of the old link and registers nothing on the new one |
| `SubsLeak` | `GoneSocketsLeave` | a websocket whose handshake or read fails is never removed from the pool |
| `AppWakeup` | `RunStarts` | the event thread notifies before `app::run` waits; the server never runs |
| `HttpUpgrade` | `WebsockIsValid` | an upgrade request that does not get through the websocket route calls `run()` on a null `websock_` |

The comments that state the opposite are quoted in `PROJECT.json`, "findings".
`Subscribed` is thus checked twice: it holds without the second thread that violates
it.  In the same way `CurrentLinkWatched` holds without a reconnect, and with one not
even a handshake establishes it.  `SubsSerial` is the program started with `--threads 0`,
as long as no link has to be reopened: `Subscribed`, `CurrentLinkWatched` and `TopicSpec`
are checked there for several websockets and users, and the races of `on_handshake` with
`on_close`, and the event of an old link, are not met by it but by `SubsRace` and
`SubsRelink`.

### Bounds

* `Sockets`, `Threads` in the `Subs` runs: the races are between two handlers of
  one user; two sockets and two threads have all of them.  The second user of
  `SubsSerial` shows that topics do not mix, the third socket that a user's
  second websocket finds the events of the first.
* `MaxLinks` caps reconnects: 2 is the first value at which an event outlives its
  link and ids start again.
* `Links`, `Retries`, `MaxRequests` in `PoolShared`: with `Retries` = 1 a request is
  exhausted by two links, leaving a third to recover on; the code's 5 would need
  six links and shows no new order of steps.
* `MaxRequests`, `MaxFaults`, the timeouts of `DomainOps`: two requests on one
  domain, each call of which may fail or lose the link; different timeouts tell
  the loops apart.
* `Conns`: connections share only the acceptor, which `CheckDeadline` frees again;
  one connection has all orders of its own steps, and the theorems of
  `HttpConnectionProofs` and `SessionProofs` are about any number.
* `Nodes`, `Paths`: every kind of element and text that `xml_to_json` tells apart is in
  one of the documents, and a path of two children reaches every node of them.
* `Room`, `MaxBroadcasts`: with room for two frames, four broadcasts are enough to
  fill the socket, to make a write wait, to make another wait behind it and to
  trip the assertion.
* `Texts`, `MaxDisks`, `MaxChanges`, `MaxFaults` in `ShowDomain`: two changes between the
  calls set both texts, or replace a disk by one of the same name; no, one and two
  disks are the cases that `xml_to_json` and `ARRAY_KEYS` tell apart.
* `Settings`, `Values`: `threads` and one more, each given by the command line, the
  file, both or neither.
* `Workers`: two, so that one may be in a handler while the other has returned.

No symmetry is used: all passing runs check liveness, or end soon without it.

### Fairness

* `Subscriptions`, `VirtPool`, `DomainOps`: weak fairness of the steps of a handler
  that has started.  The operating system runs runnable threads.  That a
  libvirt call returns, with a result or an error, is an assumption on libvirt:
  webvirtd calls it synchronously and sets no timeout or keep-alive.  Weak fairness is enough
  for the mutexes because in the bounded instance they are not contended for ever.
* `Session`: weak fairness of the queued handlers (`io_context` threads run), of
  `Expires` (time passes) and of the socket between two ends that take part: a
  request that was written is read, a response that is waited for is written.  A
  client that takes part reads what has arrived; it may stop taking part at any
  time (`Leave`), and nothing else is assumed of it, in particular not that its
  handshake times out.
* `Daemon`, for `AppLifecycle`: weak fairness of each thread and of the end of a handler; strong
  fairness of `RunStop`, because the queue of the `io_context` is first in, first
  out: a posted handler is run although others keep the threads busy.
* New requests, signals, spurious wakeups, guests and dying links are never fair.

## 4. Theorems

TLAPS proves the following for all values of the constants.  Every proof shows
that an invariant `IndInv` holds initially and is preserved by each action, and
that it implies the property (or, for an action property, that it makes every
step satisfy it).

**SubscriptionsProofs**, from `SocketsAssumption`, `ThreadsAssumption`,
`LinksAssumption`: `TypeCorrect`, `RemovalIsDefined` (`RemoveFindsEvent`),
`CallbacksAreSafe` (`LiveCallbackHasEvent`), `NoEventsAreOrphaned`
(`NoOrphanEvents`), `RemoveFindsSocket` (`CloseFindsSocket`).  None of the four is
inductive: an event may be removed under another key than the one it was stored
under, a callback id may be reused after a reconnect, the last `on_close` may be
overtaken, and `conn.user()` may change between two reads.  The invariant adds
who holds the lock (`LockInv`), that the pool mirrors the sockets' progress, each
socket in one bucket (`PoolInv`), that on the first link every copy of `conn.user()` names
the user (`BucketInv`), that an entry is empty only inside `remove_events` and holds an event
of its user or of the empty name (`EntryInv`), how links, names and `closed_`
relate (`LinkInv`), that a callback of the current link carries the id its event
remembers (`CallbackInv`), and that an event is always wanted by a pooled
websocket or by an `on_close` on its way to remove it (`OrphanInv`).

Three more theorems follow from the same invariant.  `EventsMutexIsReturned`
(`EventsMutexInUse`) is the safety half of `HandlersFinish`.  `FailedSocketsStay`
(`OnlyFailedStay`) tells how far the violation of `SubsLeak` goes: a websocket that was
closed is never in the pool, one that failed always is.  `FailedSocketPinsEvents`
(`PinnedOnFirstLink`, an action property) is the consequence, for any number of threads:
as long as the user's first link is in place, the bucket with a failed websocket is never
empty again, and no `on_close` removes the user's events.

**SubscriptionsSerialProofs**, with the further hypothesis `Threads = 1`:
`SerialIsSubscribed` (`Subscribed`) and `TopicRefined` (`TopicSpec`): each step is a
step of `Topic` or leaves its variables alone.  `SerialInv` adds that handlers do
not overlap and that the empty bucket seen by `on_close` is still empty in
`remove_events`.  The hypothesis cannot be dropped: `SubsRace` is the
counterexample.  Unlike the run, these theorems allow any number of reconnects.
`CaptureInv` says that no reconnect comes between two reads of `conn.user()`, so that
every copy of it names the user.  Hence `SerialPinsForever` (`PinnedForever`): with one
thread a failed websocket keeps the events for ever, over all reconnects.  With two
threads it does not: a websocket that a reconnect on the other thread put into the bucket
of the empty name finds that one empty, and removes the user's events.

`SerialIsWatched` (`CurrentLinkWatched`) and `SerialDeliversOnce` (`ExactlyOnce`) hold in
every state in which no user's link has been opened a second time
(`NeverReopened`); `SubsRelink` is the counterexample to the first after a reconnect, and the run
`SubsSerial` has one link, so that it checks the same states.  `SerialNeverRepeats` is what
remains of `ExactlyOnce` with any number of reconnects: an event may be lost, but
no open websocket gets it twice (`AtMostOnce`).  `SingleInv` says that a user has at
most one event, that libvirt has a callback for it, and that `add_events` finds no
event that was stored since the unlocked `find`; `DeliveryInv` that an event
which is being handed out has its user's one callback before it, or has been
written once to each websocket that was open when it occurred and still is.

**VirtPoolProofs**, from `LinksAssumption`, `RetriesAssumption`: `TypeCorrect`,
`ConnectsOnce`, `ClosedIsAccurate`, `WorkingLinkIsKept`, `RetriesAreGranted`.  `IndInv` adds the lock
(`LockInv`), that an entry without link is closed and one with a link has its own
user's (`EntryInv`), and that a link stays the one in the pool until its close callback has
run (`LinkInv`): this is why the callbacks of old
links, which share `closed_` by address, never reach a newer link's flag.  For
`RetriesAreGranted` (`RetryBudget`), `BudgetInv` counts: a request is retried only by the
close callback of the link that it uses, which runs once per link, so that the number of
links of the user that were noticed dead (`Lost`) is never below the retries of
any of its requests, and that those never exceed `Retries`; the lemmas `LostGrows` and
`LostOneMore` are about this set.

`MutexIsReturned` (`MutexInUse`) is the safety half of `RequestAnswered`.  `BlindLinkStays`
(`BlindForever`) is about the gap in `connect()`: if the link dies after `closed_` is cleared
and before the callback is registered (`Blind`), every later step leaves the entry as it is,
because `get` finds it open and the callbacks of older links have all run.  `BrokenOnlyIf`
(`BrokenAnswer`) uses `LinkInv` for a link that was never noticed: it is still the pool's.

**HttpConnectionProofs**: `TypeCorrect`, `ClosesAreAccounted`, `NothingIsDropped`,
`UpgradedIsKept`.  `TimerInv` (the wait ends once, by expiry or cancellation),
`CloseInv` (the exact number of `on_close_` calls), `EndInv`, `SocketInv`.

**DomainOpsProofs**, from `TextsAssumption`, `NumbersAssumption`: `TypeCorrect`,
`ShutdownIsReal`, `ShutdownIsBounded`, `RefusedRequestsAreClean`.  `OffInv` relates what a poll returned to the domain's
history, `PollInv` bounds polls by the loop's clock, `CleanInv` says that an effect
of a first attempt is past the calls that may refuse it.

**ShowDomainProofs**, from `ShowAssumption` and `ConvertAssumption`: `ShowsOneSnapshot`
(`OneSnapshot`), `ListsTheDevices` (`DevicesListed`), `ShowsHeldSizes` (`SizesHeld`),
`KeepsMetadata` (`MetadataKept`), for any texts, disks, metadata and paths and any number
of disks, changes, faults and retries.

They rest on `ConversionGroups`, which is about `XmlLevel` alone: for any node with any number
of children, `Members` is grouped as `IsGrouped` says.  This is an induction over the children,
made without an induction rule: the lemma `Least` says that a set of numbers which is not
empty has a least one, and a least pass after which the members are not grouped would be
neither the start (`LoopInit`) nor one after a pass that left them grouped (`LoopStep`).
`LoopExists` and `LoopIs` show in the same way that the recursive function `Loop` is
well defined.  From it, lemma by lemma, comes what `Convert` makes of a target, a disk, the
devices, and the domain (`ConvertIs`).

`KeepsMetadata` is about every node that a path from the root of the metadata reaches.
`WalkIs` is the equation of the recursive `Walk`, by `Least` again; `WalkPlaced` says that
each step of a walk that is at a node and its conversion arrives at one of its children
and the conversion of that (`DescendPlaced`, from `IsGrouped`), and `NodeShown` that the
conversion of a node shows it.  `MetadataInv` says that the answer has the conversion of
the metadata, and that the loop over the disks leaves it alone.

`TextsInv` is why three calls show one snapshot: the XML replaces both texts by a pair
of one moment, except for an empty one, which it does not have; then the one that
`simple_domain` has read is empty as well, or a text was removed.  `DisksInv` relates the
array of disks to that of the XML and says how far the loop has come (`DiskInv`), and
`SizesInv` that the sizes since the XML was read include the present ones.  Lemmas
about `Set`, `Merge`, `Arrays` and `WithBlockInfo` say which members each of them changes.

**DaemonProofs**, about `AppLifecycle`: `TypeCorrect`, `CallbacksEndFirst`
(`MembersOutliveCallbacks`) by `JoinInv`, `RegisteredFirst` (`ServesRegistered`) by `WakeInv`,
`NoHandlerStarts` (`LastHandlers`, an action property) and `NoThreadIsLeft` (`ExitsAlone`: at
exit the event thread and all workers have ended) by `StopInv`, for any set of workers.  `StopInv`
says that `~app` begins only once the `io_context` is stopped, or before any worker exists.  About `Daemon`, from `DefaultAssumption` and `ThreadsAssumption`: `DaemonImplements`
(every behaviour of the process is one of `AppLifecycle`, whose theorems it so
inherits), `CommandLineFirst` (`Precedence`), `WorkersConfigured`
(`WorkersAsConfigured`).  `StoredInv` says that the final options are the ones that a
source has given so far, and that `vm_` has the expected value of each at every
stage; `LaunchInv` that the application runs only with a complete configuration
and that the workers created are among the configured ones.

**SessionProofs**, from `RoomAssumption`: `SessionImplements` (every behaviour of a
session is one of `HttpConnection`), `UpgradesAreWhole` (`NoHalfUpgrade`),
`TextsStayInOrder` (`TextsInOrder`).  `OwnSocket` says that a connection with a
websocket writes no response, `StreamInv` that a websocket which has accepted has
the socket.  `OrderInv` is why late reads do not reorder texts: a write that waits has the
latest text of all, the one that holds the stream has none older than what was sent, and
each write that has not made its message yet is a broadcast without one (`Owed`).

Only model-checked: the liveness properties (`HandlersFinish`, `EventDelivered`,
`RequestAnswered`, `Finishes`, `ClientAnswered`, `FramesArrive`,
`InterruptEndsProcess`), which need fairness and ENABLED and so are out of the
prover's reach.  Every other property of a passing run is stated by a theorem.  That the
RECURSIVE `XmlToJson` satisfies `ConvertAssumption`, its own equation, is what TLC evaluates
for the nodes of the instance: the prover cannot use such definitions.

## 5. Behaviour worth knowing

These are consequences of the code that the models contain.  No comment or test
says otherwise, so that no run states them as disagreements.

* After a failed reconnect `conn.user()` is empty; `remove_events` looks under the
  empty name, and the user's event stays in `events_` (hence the first-link
  condition of `NoOrphanEvents`).
* `app::websocket` reads `conn.user()` twice.  With two threads and a reconnect between
  the reads, a websocket is in another bucket than the one its `on_close` looks in, and
  `pool::remove` erases `end()` (`OnCloseMisses`; hence the first-link condition of
  `CloseFindsSocket`).  A websocket in the bucket of the empty name gets no broadcasts.
* `connect` clears `closed_` before it registers the close callback.  A link that
  dies between the two is never noticed, and `get` hands it out for ever
  (`CallFails` repeats; theorem `BlindLinkStays`).
* Two requests in a call on one dying link: the first to notice is retried, the
  other is answered with libvirt's error (`outcome` "broken").
* A websocket that failed keeps the events of its user registered: as long as the first
  link is in place with any number of threads (theorem `FailedSocketPinsEvents`), and
  until the process ends with one (theorem `SerialPinsForever`).
* A failed registration of an event leaves `io_context::run` as an exception and
  ends the process (`RegisterFails`).
* A callback that is running when its event is destroyed uses freed memory
  (`BroadcastFreed`).
* A spurious wakeup lets `app::run` serve before, and whatever, the registration.
* `pool_`, `websockets_` and `events_` are destroyed before `~server` joins the
  workers, which may still be in a handler (but start none, `LastHandlers`).
* A request that outlasts the deadline has its socket closed under its response;
  a deadline that expires while the response is written makes `on_close_` run
  twice.
* A GET of the websocket route without an upgrade moves the socket away, leaves a
  websocket in the pool that never runs, and writes the response to the
  moved-from socket.  The websocket keeps the socket open, so that a client
  without a timeout waits for ever (hence the exception in `ClientAnswered`).
* libvirt runs the close callback on the thread that notices a dead link.  When
  that is the event thread, `retry_error` leaves `app::event_loop`, where nothing
  catches it, and ends the process (`LoopNotices`).
* A broadcast that meets a busy stream or a full socket sends what is in freed
  memory by then, and so do the later fragments of one that is longer than Beast's write
  buffer, also on a free stream; two that wait at once trip an assertion of Beast
  (`WriteLater`).
* `client_on_connect` of `websocket::client` ignores its error and goes on to the
  handshake.
* `verbose`, `disable-timestamp` and `version` have no effect in the configuration
  file, because `main()` looks at them before it parses the file; the help text says
  that program options can be set there.
* A fault in the configuration file, or a faulty value on the command line, ends
  the process by an exception; only an unknown option of the command line is
  reported.
* A title or description that is removed while a domain is shown appears in the
  answer: the XML has no element that would replace it.
* A failed `virDomainGetBlockInfo` shows as size zero, and sizes are divided by 1000
  although their unit is called KiB.
* A retried `start` or `shutdown` may answer 400, and a retried metadata request
  304, although its first attempt took effect.
* `bootmenu` writes the whole document back: a text set since it was read is lost.  Of a
  domain that runs it reads the live definition and writes the persistent one, whose
  texts are overwritten by the live ones although nobody changed anything in between.
* A metadata request with a member that is no string is answered with a 500, also after
  its title was set.
* `xml_to_json` keeps the first text of an element; a text after a child element is lost.
* `metadata` and `autostart` report a change although the call failed.

## 6. Reading the map

`PROJECT.json` "map" gives the lines of every definition.  Names follow the
source (`map_`, `closed_`, `connection_mutex_`, `retry_`, `websock_`...), actions
follow its functions and handlers.  What is libvirt's, the guest's, the kernel's
or a client's is marked external and modelled from how the code uses it.

## 7. Plan

Done: the modules above.  Next, in this order:

1. The route of a request end to end: `VirtPool` with `DomainOps`, so that a
   retry's reconnect and the calls on the domain are in one specification.
2. The event thread of `Subscriptions` with the writes of `Session`: broadcasts to
   several websockets of one user.

## 8. Not modelled

* `views/host.cpp`, `data/host.cpp`, `virt/network.cpp`, `virt/util.cpp`: stateless
  formatting of what one libvirt call returns; as routes they are in `RouterRun`.
* `util/json.cpp` but for `xml_to_json`: calls of jsoncpp.
* `libvirt.cpp`, `syscall.cpp`: delegation; what a wrapper does with a failure is
  part of the actions that call it.
* `util/logging.cpp` but for its two flags, `util/util.cpp`, `util/bench.hpp`: output
  and helpers.
* `stubs/`, `mocks/`: replacements of libvirt for the tests.
* Messages that a `websocket::client` writes: the server only logs them.
* What the options mean: paths, groups and permissions of the socket.
* The `SIGINT` handler calls `io_context` functions from signal context; what that
  does depends on Boost.Asio's internals, which are not in this repository.
