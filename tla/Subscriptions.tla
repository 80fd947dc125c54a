--------------------------- MODULE Subscriptions ---------------------------
(***************************************************************************)
(* Websocket subscriptions to libvirt lifecycle events.                     *)
(*                                                                          *)
(* The state is shared by the threads that run the io_context (the main     *)
(* thread and the worker pool) and by the libvirt event thread:             *)
(*   - websocket::pool (ws/pool.cpp): the websockets of each user;          *)
(*   - app::events_ and the virt::events in it (app.cpp, virt/events.cpp);  *)
(*   - the libvirt connection of each user, which every lifecycle_event     *)
(*     refers to (virt/connection_pool.cpp, virt/event.cpp);                *)
(*   - the callbacks registered with libvirt (external).                    *)
(*                                                                          *)
(* The handlers of one websocket never overlap: each starts the next        *)
(* asynchronous operation as its last step.  A socket is therefore a        *)
(* process, and ws[s] its program counter.  Each lifecycle_event is created *)
(* by the on_handshake handler of one socket and is named by it.            *)
(***************************************************************************)
EXTENDS Naturals, FiniteSets

CONSTANTS
    Users,      \* libvirt user names
    NoUser,     \* the empty user_ of a virt::connection that is not connected
    Sockets,    \* websocket connections
    UserOf,     \* the user named in each websocket's request URI
    Threads,    \* threads in io_context::run: the main thread and --threads workers
    MaxLinks    \* bound: libvirt connections opened per user

ASSUME SocketsAssumption ==
    /\ IsFiniteSet(Sockets)
    /\ UserOf \in [Sockets -> Users]
    /\ NoUser \notin Users
ASSUME ThreadsAssumption == Threads \in Nat \ {0}
ASSUME LinksAssumption == MaxLinks \in Nat

VARIABLES
    ws,          \* progress of each websocket, see WsState
    bucket,      \* per websocket, the `user` that its on_close captured
    map_,        \* websocket::pool::map_, per key
    entries,     \* the keys that have an entry in app::events_
    lifecycle,   \* per key, the lifecycle_event in that entry (none or one)
    holder,      \* the socket whose handler holds app::events_mutex_ (none or one)
    it,          \* the entry that the latest remove_events found
    conn,        \* per user, the virt::connection of the pool: conn_, closed_, user_
    connecting,  \* the user that connection_pool::get is connecting (none or one)
    opened,      \* per user, number of libvirt connections opened so far
    nextId,      \* per user, next callback id of the current libvirt connection
    callbacks,   \* external: callbacks libvirt has, as [link, id, ev]
    callback_id_,\* per lifecycle_event, the id virConnectDomainEventRegisterAny gave
    topic,       \* per lifecycle_event, the `user` that its handler captured
    dispatch,    \* event thread: the lifecycle event being handed to callbacks
    got,         \* per socket, how often the event in dispatch was written to it
    fatal        \* the process has been terminated

vars == <<ws, bucket, map_, entries, lifecycle, holder, it, conn, connecting,
          opened, nextId, callbacks, callback_id_, topic, dispatch, got, fatal>>

poolVars  == <<bucket, map_>>
eventVars == <<entries, lifecycle, holder, it, callbacks, callback_id_, topic, nextId>>
connVars  == <<conn, connecting, opened>>
loopVars  == <<dispatch, got>>

(***************************************************************************)
(* The progress of a websocket.                                             *)
(*   none       not requested yet                                           *)
(*   route      connection_pool::get has returned, app::websocket starts    *)
(*   captured   on_close is set, about to add the socket to websockets_     *)
(*   added      in websockets_, handshake pending                           *)
(*   plain      in websockets_, but the request was no upgrade: never run   *)
(*   register   handshake done, found no events, about to call add_events   *)
(*   construct  in add_events, about to register the callback               *)
(*   publish    in add_events, callback registered, about to store the event*)
(*   open       handlers idle, reading                                      *)
(*   emptycheck on_close removed it from websockets_, about to read size()  *)
(*   unregister on_close saw size() = 0, about to call remove_events        *)
(*   erase      in remove_events, event destroyed, about to erase the entry *)
(*   closed     on_close has returned                                       *)
(*   failed     the handshake or a read failed: on_error_ was all that ran  *)
(***************************************************************************)
MidHandler == {"route", "captured", "register", "construct", "publish",
               "emptycheck", "unregister", "erase"}
WsState == {"none", "added", "plain", "open", "closed", "failed"} \cup MidHandler

\* The handlers in the middle of their work, each on a thread of its own.
Active == {s \in Sockets : ws[s] \in MidHandler}

\* A thread of the io_context is free to start another handler.
Free == Cardinality(Active) + Cardinality(connecting) < Threads

\* The keys of app::events_ and of websockets_.
Keys == Users \cup {NoUser}

\* conn.user(): empty from the time connection_pool::get replaces a stale
\* connection until connect() has succeeded.
User(u) == IF conn[u].named THEN u ELSE NoUser

\* The handshake is complete, so that frames can be written to the socket.
Streaming(s) == ws[s] \in {"register", "construct", "publish", "open"}

\* The lifecycle_event object created for s exists.
Alive(s) == (\E k \in Keys : s \in lifecycle[k]) \/ ws[s] = "publish"

\* A default-constructed virt::connection: no pointer, closed_, no user_.
Disconnected == [ptr |-> 0, closed |-> TRUE, named |-> FALSE]

\* Calls on the user's current connection succeed.
Usable(u) == conn[u].ptr # 0 /\ ~conn[u].closed
----------------------------------------------------------------------------
Init ==
    /\ ws = [s \in Sockets |-> "none"]
    /\ bucket = [s \in Sockets |-> NoUser]
    /\ map_ = [k \in Keys |-> {}]
    /\ entries = {}
    /\ lifecycle = [k \in Keys |-> {}]
    /\ holder = {}
    /\ it = NoUser
    /\ conn = [u \in Users |-> Disconnected]
    /\ connecting = {}
    /\ opened = [u \in Users |-> 0]
    /\ nextId = [u \in Users |-> 0]
    /\ callbacks = {}
    /\ callback_id_ = [s \in Sockets |-> 0]
    /\ topic = [s \in Sockets |-> NoUser]
    /\ dispatch = [todo |-> {}, cur |-> {}, expect |-> {}, target |-> FALSE]
    /\ got = [s \in Sockets |-> 0]
    /\ fatal = FALSE
----------------------------------------------------------------------------
(***************************************************************************)
(* The libvirt connection of a user, as connection_pool::get and the close  *)
(* callback leave it.  get() holds connection_mutex_ while it connects.     *)
(***************************************************************************)

\* A request of user u finds no open connection and replaces it ...
ResetConnection(u) ==
    /\ ~fatal
    /\ Free
    /\ connecting = {}
    /\ conn[u].closed
    /\ connecting' = {u}
    /\ conn' = [conn EXCEPT ![u] = Disconnected]
    /\ UNCHANGED <<ws, poolVars, eventVars, opened, loopVars, fatal>>

\* ... by a new one, which numbers its callbacks from the start again.
Connected(u) ==
    /\ ~fatal
    /\ u \in connecting
    /\ opened[u] < MaxLinks
    /\ connecting' = {}
    /\ conn' = [conn EXCEPT ![u] =
                   [ptr |-> opened[u] + 1, closed |-> FALSE, named |-> TRUE]]
    /\ opened' = [opened EXCEPT ![u] = @ + 1]
    /\ nextId' = [nextId EXCEPT ![u] = 0]
    /\ UNCHANGED <<ws, poolVars, entries, lifecycle, holder, it, callbacks,
                   callback_id_, topic, loopVars, fatal>>

\* virConnectOpen fails: the request is answered with a 500.
ConnectFails(u) ==
    /\ ~fatal
    /\ u \in connecting
    /\ connecting' = {}
    /\ UNCHANGED <<ws, poolVars, eventVars, conn, opened, loopVars, fatal>>

\* libvirt closes the connection while a request is in a libvirt call: the
\* close callback runs on that request's thread, which retries the request.
LinkLost(u) ==
    /\ ~fatal
    /\ Free
    /\ Usable(u)
    /\ conn' = [conn EXCEPT ![u].closed = TRUE]
    /\ UNCHANGED <<ws, poolVars, eventVars, connecting, opened, loopVars, fatal>>
----------------------------------------------------------------------------
(***************************************************************************)
(* libvirt's registry of callbacks (external).  Ids are handed out by the   *)
(* connection a callback is registered with.                                *)
(***************************************************************************)
\* Mutant: a destructor that leaves the callback registered.
DeregisteredNothing(e) == {}

\* virt::event::~event deregisters callback_id_ of event e with the connection
\* that the pool has for e's user at that time.
Deregistered(e) ==
    {c \in callbacks : /\ UserOf[c.ev] = UserOf[e]
                       /\ c.link = conn[UserOf[e]].ptr
                       /\ c.id = callback_id_[e]}

\* The events that have a callback on the user's current connection.
Registered(u) ==
    {s \in Sockets : \E c \in callbacks :
        c.ev = s /\ UserOf[s] = u /\ c.link = conn[u].ptr}
----------------------------------------------------------------------------
(***************************************************************************)
(* app::websocket: the HTTP handler of /users/<user>/websocket/.  The       *)
(* middleware calls it with the connection that connection_pool::get has    *)
(* returned; from then on nothing keeps another thread from replacing it.   *)
(***************************************************************************)
Websocket(s) ==
    /\ ~fatal
    /\ Free
    /\ ws[s] = "none"
    /\ connecting = {}
    /\ ~conn[UserOf[s]].closed
    /\ ws' = [ws EXCEPT ![s] = "route"]
    /\ UNCHANGED <<poolVars, eventVars, connVars, loopVars, fatal>>

\* Mutant: on_close captures a `user` that has been moved from.
CaptureUserMoved(s) ==
    /\ ~fatal
    /\ ws[s] = "route"
    /\ bucket' = [bucket EXCEPT ![s] = NoUser]
    /\ ws' = [ws EXCEPT ![s] = "captured"]
    /\ UNCHANGED <<map_, eventVars, connVars, loopVars, fatal>>

\* on_close gets a copy of conn.user() ...
CaptureUser(s) ==
    /\ ~fatal
    /\ ws[s] = "route"
    /\ bucket' = [bucket EXCEPT ![s] = User(UserOf[s])]
    /\ ws' = [ws EXCEPT ![s] = "captured"]
    /\ UNCHANGED <<map_, eventVars, connVars, loopVars, fatal>>

\* ... and the socket is added to websockets_, under conn.user() read again,
\* before the handshake.  A request without an Upgrade header gets no run().
AddSocket(s) ==
    /\ ~fatal
    /\ ws[s] = "captured"
    /\ map_' = [map_ EXCEPT ![User(UserOf[s])] = @ \cup {s}]
    /\ \E upgrade \in BOOLEAN :
          ws' = [ws EXCEPT ![s] = IF upgrade THEN "added" ELSE "plain"]
    /\ UNCHANGED <<bucket, eventVars, connVars, loopVars, fatal>>

\* connection::async_accept with an error: on_error_ and nothing else.
AcceptFails(s) ==
    /\ ~fatal
    /\ Free
    /\ ws[s] = "added"
    /\ ws' = [ws EXCEPT ![s] = "failed"]
    /\ UNCHANGED <<poolVars, eventVars, connVars, loopVars, fatal>>

\* Mutant: on_handshake that adds events without looking for them first.
FindMisses(u) == {FALSE}

\* The unlocked events_.find of on_handshake.  While another thread changes
\* events_ the search is a data race and may miss an entry that is there.
FindOutcomes(u) ==
    {User(u) \in entries} \cup (IF holder = {} THEN {} ELSE {FALSE})

\* connection::async_accept: on_handshake looks for the user's events.
OnHandshake(s) ==
    /\ ~fatal
    /\ Free
    /\ ws[s] = "added"
    /\ \E found \in FindOutcomes(UserOf[s]) :
          ws' = [ws EXCEPT ![s] = IF found THEN "open" ELSE "register"]
    /\ UNCHANGED <<poolVars, eventVars, connVars, loopVars, fatal>>

\* app::add_events: lock, and capture conn.user() for the event's handler ...
AddEvents(s) ==
    /\ ~fatal
    /\ ws[s] = "register"
    /\ holder = {}
    /\ holder' = {s}
    /\ topic' = [topic EXCEPT ![s] = User(UserOf[s])]
    /\ ws' = [ws EXCEPT ![s] = "construct"]
    /\ UNCHANGED <<poolVars, entries, lifecycle, it, callbacks, callback_id_,
                   nextId, connVars, loopVars, fatal>>

\* ... construct the event, which registers its callback.
Register(s) ==
    LET u == UserOf[s] IN
    /\ ~fatal
    /\ ws[s] = "construct"
    /\ Usable(u)
    /\ callbacks' = callbacks \cup
                       {[link |-> conn[u].ptr, id |-> nextId[u], ev |-> s]}
    /\ callback_id_' = [callback_id_ EXCEPT ![s] = nextId[u]]
    /\ nextId' = [nextId EXCEPT ![u] = @ + 1]
    /\ ws' = [ws EXCEPT ![s] = "publish"]
    /\ UNCHANGED <<poolVars, entries, lifecycle, holder, it, topic, connVars,
                   loopVars, fatal>>

\* The registration fails: the exception leaves the handler and the thread.
RegisterFails(s) ==
    /\ ~fatal
    /\ ws[s] = "construct"
    /\ fatal' = TRUE
    /\ UNCHANGED <<ws, poolVars, eventVars, connVars, loopVars>>

\* The rest of add_events: virt::events::set emplaces the event unless one is
\* there; an event that is not stored is destroyed, which deregisters it.
\* The key is conn.user() read again.
SetEvent(s) ==
    LET k == User(UserOf[s]) IN
    /\ ~fatal
    /\ ws[s] = "publish"
    /\ entries' = entries \cup {k}
    /\ IF lifecycle[k] = {}
       THEN /\ lifecycle' = [lifecycle EXCEPT ![k] = {s}]
            /\ UNCHANGED callbacks
       ELSE /\ callbacks' = callbacks \ Deregistered(s)
            /\ UNCHANGED lifecycle
    /\ holder' = {}
    /\ ws' = [ws EXCEPT ![s] = "open"]
    /\ UNCHANGED <<poolVars, it, callback_id_, topic, nextId, connVars, loopVars,
                   fatal>>

\* connection::async_read with any error but "closed": on_error_ only.
ReadFails(s) ==
    /\ ~fatal
    /\ Free
    /\ ws[s] = "open"
    /\ ws' = [ws EXCEPT ![s] = "failed"]
    /\ UNCHANGED <<poolVars, eventVars, connVars, loopVars, fatal>>

\* Mutant: on_close that erases the bucket of the user, not the socket in it.
OnCloseDropsBucket(s) ==
    /\ ~fatal
    /\ Free
    /\ ws[s] = "open"
    /\ map_' = [k \in Keys \ {bucket[s]} |-> map_[k]]
    /\ ws' = [ws EXCEPT ![s] = "emptycheck"]
    /\ UNCHANGED <<bucket, eventVars, connVars, loopVars, fatal>>

\* connection::async_read sees the close: on_close removes the socket from the
\* bucket of the user that it captured ...
OnClose(s) ==
    /\ ~fatal
    /\ Free
    /\ ws[s] = "open"
    /\ s \in map_[bucket[s]]
    /\ map_' = [map_ EXCEPT ![bucket[s]] = @ \ {s}]
    /\ ws' = [ws EXCEPT ![s] = "emptycheck"]
    /\ UNCHANGED <<bucket, eventVars, connVars, loopVars, fatal>>

\* ... and pool::remove erases end() of that bucket's list, a node that was
\* never allocated, when the socket is in another one: the process aborts.
OnCloseMisses(s) ==
    /\ ~fatal
    /\ Free
    /\ ws[s] = "open"
    /\ s \notin map_[bucket[s]]
    /\ fatal' = TRUE
    /\ UNCHANGED <<ws, poolVars, eventVars, connVars, loopVars>>

\* Mutants: on_close that compares with the size before the removal, and one
\* that removes the events whether or not sockets are left.
BucketEmptyBefore(k) == Cardinality(map_[k]) = 1
BucketIgnored(k) == TRUE

\* The size() of a bucket is zero, read without the pool's lock.
BucketEmpty(k) == map_[k] = {}

\* on_close then looks whether it was the last socket of the bucket ...
CheckEmpty(s) ==
    /\ ~fatal
    /\ ws[s] = "emptycheck"
    /\ ws' = [ws EXCEPT ![s] =
                 IF BucketEmpty(bucket[s]) THEN "unregister" ELSE "closed"]
    /\ UNCHANGED <<poolVars, eventVars, connVars, loopVars, fatal>>

\* ... and calls app::remove_events: without an entry for conn.user() there is
\* nothing to do; otherwise virt::events::remove destroys the event.
RemoveEvents(s) ==
    LET k == User(UserOf[s]) IN
    /\ ~fatal
    /\ ws[s] = "unregister"
    /\ holder = {}
    /\ IF k \in entries
       THEN /\ holder' = {s}
            /\ it' = k
            /\ lifecycle' = [lifecycle EXCEPT ![k] = {}]
            /\ callbacks' = callbacks \ UNION {Deregistered(e) : e \in lifecycle[k]}
            /\ ws' = [ws EXCEPT ![s] = "erase"]
       ELSE /\ ws' = [ws EXCEPT ![s] = "closed"]
            /\ UNCHANGED <<holder, it, lifecycle, callbacks>>
    /\ UNCHANGED <<poolVars, entries, callback_id_, topic, nextId, connVars,
                   loopVars, fatal>>

\* Mutants: remove_events that keeps the empty entry, or the lock.
EraseEntryKeepsEntry(s) ==
    /\ ~fatal
    /\ ws[s] = "erase"
    /\ holder' = {}
    /\ ws' = [ws EXCEPT ![s] = "closed"]
    /\ UNCHANGED <<poolVars, entries, lifecycle, it, callbacks, callback_id_,
                   topic, nextId, connVars, loopVars, fatal>>
EraseEntryKeepsLock(s) ==
    /\ ~fatal
    /\ ws[s] = "erase"
    /\ entries' = entries \ {it}
    /\ ws' = [ws EXCEPT ![s] = "closed"]
    /\ UNCHANGED <<poolVars, lifecycle, holder, it, callbacks, callback_id_,
                   topic, nextId, connVars, loopVars, fatal>>

\* The rest of remove_events: the empty entry is erased, the lock released.
EraseEntry(s) ==
    /\ ~fatal
    /\ ws[s] = "erase"
    /\ entries' = IF lifecycle[it] = {} THEN entries \ {it} ELSE entries
    /\ holder' = {}
    /\ ws' = [ws EXCEPT ![s] = "closed"]
    /\ UNCHANGED <<poolVars, lifecycle, it, callbacks, callback_id_, topic, nextId,
                   connVars, loopVars, fatal>>
----------------------------------------------------------------------------
(***************************************************************************)
(* The event thread: virt::event::run_one hands one domain event at a time  *)
(* to the callbacks of the connection it came from.                         *)
(***************************************************************************)
LoopIdle == dispatch.todo = {} /\ dispatch.cur = {}

\* libvirt has a lifecycle event for user u, of a type that app::add_events
\* forwards (target) or does not.
DomainEvent(u, target) ==
    /\ ~fatal
    /\ LoopIdle
    /\ Usable(u)
    /\ dispatch' = [todo |-> Registered(u), cur |-> {}, target |-> target,
                    expect |-> {s \in Sockets : UserOf[s] = u /\ ws[s] = "open"}]
    /\ got' = [s \in Sockets |-> 0]
    /\ UNCHANGED <<ws, poolVars, eventVars, connVars, fatal>>

\* libvirt calls on_event_handler for the next callback that it still has.
EnterCallback(s) ==
    /\ ~fatal
    /\ dispatch.cur = {}
    /\ s \in dispatch.todo
    /\ dispatch' = [dispatch EXCEPT
                       !.todo = @ \ {s},
                       !.cur = {c.ev : c \in {d \in callbacks : d.ev = s}}]
    /\ UNCHANGED <<ws, poolVars, eventVars, connVars, got, fatal>>

\* The handler of the event broadcasts to the websockets of the user it has
\* captured: one that has not shaken hands yet, or has failed, takes no frame.
Broadcast(s) ==
    /\ ~fatal
    /\ s \in dispatch.cur
    /\ dispatch' = [dispatch EXCEPT !.cur = {}]
    /\ got' = [t \in Sockets |->
                  IF dispatch.target /\ t \in map_[topic[s]] /\ Streaming(t)
                  THEN got[t] + 1 ELSE got[t]]
    /\ UNCHANGED <<ws, poolVars, eventVars, connVars, fatal>>

\* The event was destroyed while its handler runs: using it may end the process.
BroadcastFreed(s) ==
    /\ ~fatal
    /\ s \in dispatch.cur
    /\ ~Alive(s)
    /\ fatal' = TRUE
    /\ UNCHANGED <<ws, poolVars, eventVars, connVars, loopVars>>
----------------------------------------------------------------------------
Handler(s) ==
    \/ Websocket(s)   \/ CaptureUser(s) \/ AddSocket(s)
    \/ AcceptFails(s) \/ OnHandshake(s)
    \/ AddEvents(s)   \/ Register(s)    \/ RegisterFails(s) \/ SetEvent(s)
    \/ ReadFails(s)   \/ OnClose(s)     \/ OnCloseMisses(s)
    \/ CheckEmpty(s)  \/ RemoveEvents(s) \/ EraseEntry(s)

EventThread ==
    \/ \E u \in Users, target \in BOOLEAN : DomainEvent(u, target)
    \/ \E s \in Sockets : EnterCallback(s) \/ Broadcast(s) \/ BroadcastFreed(s)

Link(u) ==
    \/ ResetConnection(u) \/ Connected(u) \/ ConnectFails(u) \/ LinkLost(u)

Next ==
    \/ \E s \in Sockets : Handler(s)
    \/ EventThread
    \/ \E u \in Users : Link(u)

Spec == Init /\ [][Next]_vars

\* The threads of the io_context and the event thread are scheduled: a handler
\* that has started goes on, and so does a libvirt event being handed out.
Fairness ==
    /\ \A s \in Sockets :
          WF_vars(\/ CaptureUser(s) \/ AddSocket(s)
                  \/ AddEvents(s) \/ Register(s) \/ RegisterFails(s) \/ SetEvent(s)
                  \/ CheckEmpty(s) \/ RemoveEvents(s) \/ EraseEntry(s))
    /\ WF_vars(\E s \in Sockets :
                  EnterCallback(s) \/ Broadcast(s) \/ BroadcastFreed(s))

FairSpec == Spec /\ Fairness
----------------------------------------------------------------------------
(***************************************************************************)
(* Properties.                                                              *)
(***************************************************************************)
\* Every variable stays in the set of values that the data it models can have.
TypeOK ==
    /\ ws \in [Sockets -> WsState]
    /\ bucket \in [Sockets -> Keys]
    /\ map_ \in [Keys -> SUBSET Sockets]
    /\ entries \subseteq Keys
    /\ lifecycle \in [Keys -> SUBSET Sockets]
    /\ holder \subseteq Sockets
    /\ it \in Keys
    /\ conn \in [Users -> [ptr : Nat, closed : BOOLEAN, named : BOOLEAN]]
    /\ connecting \subseteq Users
    /\ opened \in [Users -> Nat]
    /\ nextId \in [Users -> Nat]
    /\ callbacks \subseteq [link : Nat, id : Nat, ev : Sockets]
    /\ callback_id_ \in [Sockets -> Nat]
    /\ topic \in [Sockets -> Keys]
    /\ dispatch \in [todo : SUBSET Sockets, cur : SUBSET Sockets,
                     expect : SUBSET Sockets, target : BOOLEAN]
    /\ got \in [Sockets -> Nat]
    /\ fatal \in BOOLEAN

\* virt::events::remove erases what find() returned without looking at it: when
\* remove_events can get the lock, every entry of events_ holds its event.
RemoveFindsEvent ==
    holder = {} => \A k \in entries : lifecycle[k] # {}

\* A callback that libvirt can still call, on the connection of the pool, has
\* an existing lifecycle_event as its opaque pointer, whichever handlers
\* registered, lost the race for the entry, or closed in the meantime.
LiveCallbackHasEvent ==
    \A c \in callbacks : c.link = conn[UserOf[c.ev]].ptr => Alive(c.ev)

\* Every websocket of user u that was ever requested has been closed.
AllClosed(u) == \A s \in Sockets : UserOf[s] = u => ws[s] \in {"none", "closed"}

\* On the user's first libvirt connection, on_close of the last websocket of a
\* user leaves no event behind, whatever other on_close and on_handshake
\* handlers ran between its steps.
NoOrphanEvents ==
    \A u \in Users : conn[u].ptr = 1 /\ AllClosed(u) => lifecycle[u] = {}

\* "On successful websocket handshake, add libvirt events for the connection
\* if they don't yet exist" (app::websocket): an open websocket has them.
Subscribed ==
    \A s \in Sockets : ws[s] = "open" => lifecycle[UserOf[s]] # {}

\* The same of the libvirt connection in use: libvirt hands the user's events
\* to some callback while one of its websockets is open.
CurrentLinkWatched ==
    \A s \in Sockets :
        ws[s] = "open" /\ Usable(UserOf[s]) => Registered(UserOf[s]) # {}

\* A forwarded libvirt event has been written once to each websocket that was
\* open when it occurred and still is when the event has been handed out.
ExactlyOnce ==
    LoopIdle /\ dispatch.target =>
        \A s \in dispatch.expect : ws[s] = "open" => got[s] = 1

\* The same without the promise that it arrives, while it is handed out, too.
AtMostOnce ==
    dispatch.target => \A s \in dispatch.expect : ws[s] = "open" => got[s] <= 1

\* "On successful websocket handshake, add libvirt events for the connection
\* if they don't yet exist" (app::websocket), of the libvirt connection that is
\* in use at the end of the handshake: libvirt has a callback of the user there.
HandshakeRegisters ==
    [][\A s \in Sockets :
          ws[s] # "open" /\ ws'[s] = "open" /\ Usable(UserOf[s])' =>
              Registered(UserOf[s])' # {}]_vars

\* As long as the user's first libvirt connection is in place, the websocket
\* that on_close hands to pool::remove is in the bucket that on_close captured,
\* and in no other: remove never erases the end() of its list.
CloseFindsSocket ==
    \A s \in Sockets :
        conn[UserOf[s]].ptr = 1 /\ ws[s] = "open" =>
            {k \in Keys : s \in map_[k]} = {bucket[s]}

\* "On closure, remove the ptr from websockets_" (app::websocket): a websocket
\* that is gone is not in the pool.
GoneSocketsLeave ==
    \A s \in Sockets :
        ws[s] \in {"closed", "failed"} => \A k \in Keys : s \notin map_[k]

\* What does hold of it: on_close takes its websocket out of the pool, and one
\* that is gone without it stays there.
OnlyFailedStay ==
    \A s \in Sockets :
        /\ ws[s] = "closed" => \A k \in Keys : s \notin map_[k]
        /\ ws[s] = "failed" => \E k \in Keys : s \in map_[k]

\* A failed websocket is in the bucket of user u, and no on_close of the user
\* has seen its bucket empty.
Pinned(u) ==
    /\ \E s \in Sockets : s \in map_[u] /\ ws[s] = "failed"
    /\ \A s \in Sockets : UserOf[s] = u => ws[s] \notin {"unregister", "erase"}

\* From then on no on_close of the user's other websockets ever will: the events
\* of the user are never removed again.
PinnedForever ==
    [][\A u \in Users : Pinned(u) => lifecycle[u] \subseteq lifecycle'[u] /\ Pinned(u)']_vars

\* The same while the user's first libvirt connection is in place.  (Afterwards
\* a websocket that another thread's reconnect put into the bucket of the empty
\* name may find that one empty and remove the events of the user.)
PinnedOnFirstLink ==
    [][\A u \in Users :
          conn[u].ptr = 1 /\ Pinned(u) =>
              lifecycle[u] \subseteq lifecycle'[u] /\ Pinned(u)']_vars

\* events_mutex_ is never leaked: whoever holds it is inside add_events or
\* remove_events, and only one handler is.
EventsMutexInUse ==
    /\ \A s \in holder : ws[s] \in {"construct", "publish", "erase"}
    /\ \A s, t \in holder : s = t

\* A handler that was started finishes: none waits for events_mutex_ for ever.
HandlersFinish ==
    \A s \in Sockets : ws[s] \in MidHandler ~> ws[s] \notin MidHandler \/ fatal

\* A forwarded event reaches each open websocket unless the client goes away.
EventDelivered ==
    \A s \in Sockets :
        ~LoopIdle /\ dispatch.target /\ s \in dispatch.expect
            ~> got[s] = 1 \/ ws[s] # "open" \/ fatal

\* The detailed specification keeps the promise of Topic: joining switches the
\* user's events on, and no step switches them off under a subscriber.
T == INSTANCE Topic WITH
        subs   <- [u \in Users |-> {s \in Sockets : UserOf[s] = u /\ ws[s] = "open"}],
        active <- [u \in Users |-> lifecycle[u] # {}]
TopicSpec == T!Spec
----------------------------------------------------------------------------
(***************************************************************************)
(* The inductive invariants behind the theorems of SubscriptionsProofs.     *)
(***************************************************************************)
Unborn == {"none", "route", "captured", "added", "plain", "register",
           "construct"}                                  \* no event made yet
Pooled == {"added", "plain", "register", "construct", "publish", "open", "failed"}

Wanting == Pooled \cup {"emptycheck", "unregister"}

\* events_mutex_ is held by the handler inside add_events or remove_events.
LockInv ==
    /\ \A s \in Sockets : ws[s] \in {"construct", "publish", "erase"} => holder = {s}
    /\ \A s \in holder : ws[s] \in {"construct", "publish", "erase"}

\* The pool holds a websocket from app::websocket until on_close removes it, in
\* one bucket: that of its user, or that of the empty name.
PoolInv ==
    \A s \in Sockets :
        /\ \A k \in Keys : s \in map_[k] =>
              /\ k \in {UserOf[s], NoUser} /\ ws[s] \in Pooled
              /\ \A j \in Keys : s \in map_[j] => j = k
        /\ ws[s] \in Pooled => \E k \in Keys : s \in map_[k]

\* conn.user() was never empty while the user's first connection is in place.
BucketInv ==
    \A s \in Sockets :
        conn[UserOf[s]].ptr = 1 =>
            /\ ws[s] \notin {"none", "route"} => bucket[s] = UserOf[s]
            /\ s \notin map_[NoUser]

\* An entry of events_ is empty only inside remove_events; what is stored under
\* a key was made by a websocket of that user, or under the empty name.
EntryInv ==
    /\ \A k \in entries :
          lifecycle[k] = {} => it = k /\ \E s \in Sockets : ws[s] = "erase"
    /\ \A k \in Keys : lifecycle[k] # {} => k \in entries
    /\ \A k \in Keys : \A s \in lifecycle[k] :
          k \in {UserOf[s], NoUser} /\ ws[s] \notin Unborn \cup {"publish"}

\* Links are numbered in the order in which they are opened; a connection that
\* has one knows its user, and websockets exist only where one was opened.
LinkInv ==
    \A u \in Users :
        /\ conn[u].ptr <= opened[u]
        /\ conn[u].ptr # 0 => conn[u].named
        /\ ~conn[u].closed => conn[u].ptr # 0
        /\ \A s \in Sockets : UserOf[s] = u /\ ws[s] # "none" => opened[u] # 0

\* A callback on the current connection is the one its event remembers.
CallbackInv ==
    \A c \in callbacks :
        /\ ws[c.ev] \notin Unborn
        /\ c.link # 0 /\ c.link <= opened[UserOf[c.ev]]
        /\ c.link = conn[UserOf[c.ev]].ptr =>
              Alive(c.ev) /\ c.id = callback_id_[c.ev]

\* The events of a user are still wanted by a websocket in the pool, or one of
\* its on_close handlers is on its way to remove them.
OrphanInv ==
    \A u \in Users :
        conn[u].ptr = 1 /\ lifecycle[u] # {} =>
            \E s \in Sockets : UserOf[s] = u /\ ws[s] \in Wanting

IndInv ==
    /\ TypeOK
    /\ LockInv
    /\ PoolInv
    /\ BucketInv
    /\ EntryInv
    /\ LinkInv
    /\ CallbackInv
    /\ OrphanInv

\* With one thread: no reconnect comes between two reads of conn.user(), so that
\* every copy of it that is ever used names the user.
CaptureInv ==
    /\ \A s \in Sockets :
          /\ ws[s] \in {"route", "captured"} => conn[UserOf[s]].named
          /\ ws[s] \notin {"none", "route"} => bucket[s] = UserOf[s]
          /\ ws[s] = "construct" => topic[s] = User(UserOf[s])
    /\ \A c \in callbacks : topic[c.ev] = UserOf[c.ev]
    /\ map_[NoUser] = {}

\* With one thread: handlers do not overlap each other or connection_pool::get,
\* so that the empty bucket on_close saw is still empty in remove_events.
SerialInv ==
    /\ IsFiniteSet(connecting)
    /\ \A s, t \in Active : s = t
    /\ connecting # {} => Active = {}
    /\ \A s \in Sockets :
          /\ ws[s] = "publish" => conn[UserOf[s]].named
          /\ ws[s] \in {"unregister", "erase"} => map_[UserOf[s]] = {}
    /\ CaptureInv
    /\ NoUser \notin entries
    /\ Subscribed

\* No libvirt connection has been lost and opened again.
NeverReopened == \A u \in Users : opened[u] <= 1

\* With one thread: a user has at most one event, libvirt has its callback, and
\* add_events never finds an event that another handler stored meanwhile.
SingleInv ==
    /\ \A u \in Users : \A e, f \in lifecycle[u] : e = f
    /\ \A u \in Users : \A e \in lifecycle[u] : \E c \in callbacks : c.ev = e
    /\ \A s \in Sockets :
          /\ ws[s] \in {"register", "construct"} /\ Usable(UserOf[s]) =>
                lifecycle[UserOf[s]] = {}
          /\ ws[s] = "publish" =>
                lifecycle[UserOf[s]] = {} /\ \E c \in callbacks : c.ev = s

\* With one thread: while a websocket of dispatch.expect is open, the event that
\* is being handed out waits for the one callback of its user, or was written.
DeliveryInv ==
    /\ \A s \in dispatch.expect : ws[s] \notin Unborn \cup {"publish"}
    /\ dispatch.todo \cap dispatch.cur = {}
    /\ \A s \in dispatch.expect :
          dispatch.target /\ ws[s] = "open" =>
              /\ dispatch.todo \cup dispatch.cur \subseteq lifecycle[UserOf[s]]
              /\ got[s] \in {0, 1}
              /\ ~LoopIdle => got[s] = 0
              /\ LoopIdle /\ opened[UserOf[s]] <= 1 => got[s] = 1
=============================================================================
