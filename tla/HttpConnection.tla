--------------------------- MODULE HttpConnection ---------------------------
(***************************************************************************)
(* HTTP connections: accept, read, route, answer, deadline and upgrade      *)
(* (http/server.cpp, http/connection.cpp), and what the router and its      *)
(* middleware answer (http/router.cpp, http/middleware.cpp, app.cpp).       *)
(*                                                                          *)
(* The handlers of a connection run in its strand, one at a time.  Only     *)
(* start() does not: it runs in the handler of the acceptor, on a thread of *)
(* its own.  One request is read from each connection.                      *)
(***************************************************************************)
EXTENDS Naturals

CONSTANT
    Conns       \* the connections that clients make

VARIABLES
    accepting,  \* an async_accept of the server is pending
    io,         \* per connection: its read or write, see Io
    timer,      \* per connection: the wait for deadline_, see Timer
    socket_,    \* per connection: where its socket is, see Socket
    upgrade,    \* per connection: the request asks for an upgrade
    status,     \* per connection: status of response_
    websock_,   \* per connection: whether websock_ is set
    running,    \* per connection: whether websock_->run() was called
    written,    \* per connection: whether the response was written completely
    expired,    \* per connection: whether deadline_ expired
    errors,     \* per connection: number of calls of on_error_
    closes,     \* per connection: number of calls of on_close_
    fatal       \* websock_ was used while it is null

ioVars == <<io, timer, socket_>>
requestVars == <<upgrade, status, websock_, running>>
callVars == <<written, errors, closes>>
vars == <<accepting, ioVars, requestVars, callVars, expired, fatal>>

(***************************************************************************)
(*   none     not accepted                                                  *)
(*   reading  async_read pending      readOk, readErr     its handler queued*)
(*   routed   on_request_ has returned                                      *)
(*   writing  async_write pending     writeOk, writeErr   its handler queued*)
(*   done     no operation is left                                          *)
(***************************************************************************)
Io == {"none", "reading", "readOk", "readErr", "routed", "writing", "writeOk",
       "writeErr", "done"}

\* none: no async_wait yet; fired and aborted: its handler is queued.
Timer == {"none", "waiting", "fired", "aborted", "done"}

\* http: owned by the connection; ws: moved to websock_; shut: no more writing.
Socket == {"http", "ws", "shut", "closed"}

Init ==
    /\ accepting = TRUE
    /\ io = [c \in Conns |-> "none"]
    /\ timer = [c \in Conns |-> "none"]
    /\ socket_ = [c \in Conns |-> "http"]
    /\ upgrade = [c \in Conns |-> FALSE]
    /\ status = [c \in Conns |-> 0]
    /\ websock_ = [c \in Conns |-> FALSE]
    /\ running = [c \in Conns |-> FALSE]
    /\ written = [c \in Conns |-> FALSE]
    /\ expired = [c \in Conns |-> FALSE]
    /\ errors = [c \in Conns |-> 0]
    /\ closes = [c \in Conns |-> 0]
    /\ fatal = FALSE
----------------------------------------------------------------------------
(***************************************************************************)
(* The routes.  A request is what the routes tell apart of it (Beast takes  *)
(* only a GET for an upgrade); the world is what the route meets: the user  *)
(* exists, libvirt connects, the domain is found, libvirt does what the     *)
(* view asks for in time, and nothing that the router has to catch is       *)
(* thrown.                                                                  *)
(***************************************************************************)
\* host stands for the routes without, show for the one with a domain's name.
Route == {"bare", "unknown", "websocket", "host", "show", "start", "shutdown",
          "bootmenu"}

Request == {req \in [route : Route, method : {"get", "post", "delete", "options"},
                     upgrade : BOOLEAN] : req.upgrade => req.method = "get"}
World == [user : BOOLEAN, connects : BOOLEAN, found : BOOLEAN, does : BOOLEAN,
          intime : BOOLEAN, throws : BOOLEAN]

WithMethods(methods, req, next) ==
    IF req.method = "options" THEN 200
    ELSE IF req.method \in methods THEN next ELSE 405

WithUser(world, next) == IF world.user THEN next ELSE 404

WithLibvirt(world, next) ==
    WithUser(world, IF world.connects THEN next ELSE 500)

WithLibvirtDomain(world, next) ==
    WithLibvirt(world, IF world.found THEN next ELSE 404)

\* A view answers, or an exception reaches the catch of router::run.
View(world, result) == IF world.throws THEN 500 ELSE result

\* router::run: a target without trailing slash is redirected, an unknown one
\* is not found, the others are the routes that app::app adds.
RouterRun(req, world) ==
    [bare      |-> 307,
     unknown   |-> 404,
     websocket |-> WithMethods({"get"}, req, WithLibvirt(world, 101)),
     host      |-> WithMethods({"get"}, req, WithLibvirt(world, View(world, 200))),
     show      |-> WithMethods({"get"}, req, WithLibvirtDomain(world, View(world, 200))),
     start     |-> WithMethods({"post"}, req, WithLibvirtDomain(world,
                       View(world, IF world.does THEN 201 ELSE 400))),
     shutdown  |-> WithMethods({"post"}, req, WithLibvirtDomain(world,
                       View(world, IF ~world.does THEN 400
                                   ELSE IF world.intime THEN 200 ELSE 504))),
     bootmenu  |-> WithMethods({"post", "delete"}, req, WithLibvirtDomain(world,
                       View(world, IF world.does THEN 200 ELSE 500)))][req.route]

\* What process_request may find once the route has returned.
Answers == {[upgrade |-> req.upgrade, status |-> RouterRun(req, world)] :
               req \in Request, world \in World}
----------------------------------------------------------------------------
(***************************************************************************)
(* The acceptor.                                                            *)
(***************************************************************************)
\* The handler of async_accept makes a connection and calls start(), whose
\* first step is read_request().
Accept(c) ==
    /\ ~fatal
    /\ accepting
    /\ io[c] = "none"
    /\ accepting' = FALSE
    /\ io' = [io EXCEPT ![c] = "reading"]
    /\ UNCHANGED <<timer, socket_, requestVars, callVars, expired, fatal>>

\* Mutant: a start() that does not wait for the deadline.
CheckDeadlineSkipped(c) ==
    /\ ~fatal
    /\ io[c] # "none"
    /\ timer[c] = "none"
    /\ timer' = [timer EXCEPT ![c] = "done"]
    /\ accepting' = TRUE
    /\ UNCHANGED <<io, socket_, requestVars, callVars, expired, fatal>>

\* The second step of start() is check_deadline(); then the server accepts
\* again.  Handlers of the read may have run before.
CheckDeadline(c) ==
    /\ ~fatal
    /\ io[c] # "none"
    /\ timer[c] = "none"
    /\ timer' = [timer EXCEPT ![c] = "waiting"]
    /\ accepting' = TRUE
    /\ UNCHANGED <<io, socket_, requestVars, callVars, expired, fatal>>
----------------------------------------------------------------------------
(***************************************************************************)
(* Completions (external): asio queues the handler of an operation.         *)
(***************************************************************************)
ReadCompletes(c) ==
    /\ ~fatal
    /\ io[c] = "reading"
    /\ \E result \in {"readOk", "readErr"} : io' = [io EXCEPT ![c] = result]
    /\ UNCHANGED <<accepting, timer, socket_, requestVars, callVars, expired, fatal>>

WriteCompletes(c) ==
    /\ ~fatal
    /\ io[c] = "writing"
    /\ \E result \in {"writeOk", "writeErr"} : io' = [io EXCEPT ![c] = result]
    /\ UNCHANGED <<accepting, timer, socket_, requestVars, callVars, expired, fatal>>

\* The deadline passes.
Expire(c) ==
    /\ ~fatal
    /\ timer[c] = "waiting"
    /\ timer' = [timer EXCEPT ![c] = "fired"]
    /\ expired' = [expired EXCEPT ![c] = TRUE]
    /\ UNCHANGED <<accepting, io, socket_, requestVars, callVars, fatal>>

\* deadline_.cancel(): a wait that has begun and has not ended is aborted.
Cancelled(c) == IF timer[c] = "waiting" THEN "aborted" ELSE timer[c]
----------------------------------------------------------------------------
(***************************************************************************)
(* The handlers in the strand of a connection.                              *)
(***************************************************************************)
\* async_read with an error: on_error_ and nothing else.
ReadFails(c) ==
    /\ ~fatal
    /\ io[c] = "readErr"
    /\ io' = [io EXCEPT ![c] = "done"]
    /\ errors' = [errors EXCEPT ![c] = @ + 1]
    /\ UNCHANGED <<accepting, timer, socket_, requestVars, written, closes, expired,
                   fatal>>

\* Mutant: an upgrade() that shares the socket with the websocket.
UpgradeShares(c) == socket_[c]

\* connection::upgrade moves the socket to the websocket.
Upgrade(c) == IF socket_[c] = "closed" THEN "closed" ELSE "ws"

\* async_read with a request: process_request runs the route.  The websocket
\* route, and no other, calls upgrade().
RunRoute(c) ==
    /\ ~fatal
    /\ io[c] = "readOk"
    /\ \E answer \in Answers :
          /\ upgrade' = [upgrade EXCEPT ![c] = answer.upgrade]
          /\ status' = [status EXCEPT ![c] = answer.status]
          /\ websock_' = [websock_ EXCEPT ![c] = answer.status = 101]
          /\ socket_' = [socket_ EXCEPT ![c] =
                            IF answer.status = 101 THEN Upgrade(c) ELSE @]
    /\ io' = [io EXCEPT ![c] = "routed"]
    /\ UNCHANGED <<accepting, timer, running, callVars, expired, fatal>>

\* The rest of process_request for an upgrade: cancel the deadline and run the
\* websocket, which only the websocket route has made.
RunWebsocket(c) ==
    /\ ~fatal
    /\ io[c] = "routed"
    /\ upgrade[c]
    /\ timer' = [timer EXCEPT ![c] = Cancelled(c)]
    /\ io' = [io EXCEPT ![c] = "done"]
    /\ IF websock_[c]
       THEN running' = [running EXCEPT ![c] = TRUE] /\ UNCHANGED fatal
       ELSE fatal' = TRUE /\ UNCHANGED running
    /\ UNCHANGED <<accepting, socket_, upgrade, status, websock_, callVars, expired>>

\* Mutant: a process_request that gives up on a socket it does not own.
WriteResponseDrops(c) ==
    /\ ~fatal
    /\ io[c] = "routed"
    /\ ~upgrade[c]
    /\ io' = [io EXCEPT ![c] = IF socket_[c] = "http" THEN "writing" ELSE "done"]
    /\ timer' = [timer EXCEPT ![c] = Cancelled(c)]
    /\ UNCHANGED <<accepting, socket_, requestVars, callVars, expired, fatal>>

\* The rest of process_request otherwise: async_write, which fails at once on a
\* socket that was closed, or moved to a websocket that nobody runs.
WriteResponse(c) ==
    /\ ~fatal
    /\ io[c] = "routed"
    /\ ~upgrade[c]
    /\ io' = [io EXCEPT ![c] = IF socket_[c] = "http" THEN "writing" ELSE "writeErr"]
    /\ UNCHANGED <<accepting, timer, socket_, requestVars, callVars, expired, fatal>>

\* async_write with an error: on_error_ and nothing else.
WriteFails(c) ==
    /\ ~fatal
    /\ io[c] = "writeErr"
    /\ io' = [io EXCEPT ![c] = "done"]
    /\ errors' = [errors EXCEPT ![c] = @ + 1]
    /\ UNCHANGED <<accepting, timer, socket_, requestVars, written, closes, expired,
                   fatal>>

\* async_write: the response is written.
WriteDone(c) ==
    /\ ~fatal
    /\ io[c] = "writeOk"
    /\ io' = [io EXCEPT ![c] = "done"]
    /\ timer' = [timer EXCEPT ![c] = Cancelled(c)]
    /\ socket_' = [socket_ EXCEPT ![c] = IF @ = "http" THEN "shut" ELSE @]
    /\ written' = [written EXCEPT ![c] = TRUE]
    /\ closes' = [closes EXCEPT ![c] = @ + 1]
    /\ UNCHANGED <<accepting, requestVars, errors, expired, fatal>>

\* No handler of the connection is running in its strand.
StrandFree(c) == io[c] # "routed"

\* Mutant: a close that treats the pending operation like the wait.
AbortedLikeWait(c) == "aborted"

\* Closing the socket makes the pending operation fail.
Aborted(c) ==
    CASE io[c] = "reading" -> "readErr"
      [] io[c] = "writing" -> "writeErr"
      [] OTHER -> io[c]

\* async_deadline after the deadline: the socket is closed if it is still the
\* connection's.
DeadlineCloses(c) ==
    /\ ~fatal
    /\ timer[c] = "fired"
    /\ StrandFree(c)
    /\ timer' = [timer EXCEPT ![c] = "done"]
    /\ IF socket_[c] = "ws"
       THEN UNCHANGED <<io, socket_>>
       ELSE /\ socket_' = [socket_ EXCEPT ![c] = "closed"]
            /\ io' = [io EXCEPT ![c] = Aborted(c)]
    /\ closes' = [closes EXCEPT ![c] = @ + 1]
    /\ UNCHANGED <<accepting, requestVars, written, errors, expired, fatal>>

\* Mutant: a handler that does not tell operation_aborted from the deadline.
DeadlineAbortedCloses(c) ==
    /\ ~fatal
    /\ timer[c] = "aborted"
    /\ StrandFree(c)
    /\ timer' = [timer EXCEPT ![c] = "done"]
    /\ closes' = [closes EXCEPT ![c] = @ + 1]
    /\ UNCHANGED <<accepting, io, socket_, requestVars, written, errors, expired, fatal>>

\* async_deadline with operation_aborted returns.
DeadlineAborted(c) ==
    /\ ~fatal
    /\ timer[c] = "aborted"
    /\ StrandFree(c)
    /\ timer' = [timer EXCEPT ![c] = "done"]
    /\ UNCHANGED <<accepting, io, socket_, requestVars, callVars, expired, fatal>>
----------------------------------------------------------------------------
Strand(c) ==
    \/ ReadFails(c) \/ RunRoute(c) \/ RunWebsocket(c) \/ WriteResponse(c)
    \/ WriteFails(c) \/ WriteDone(c) \/ DeadlineCloses(c) \/ DeadlineAborted(c)

Next ==
    \E c \in Conns :
        \/ Accept(c) \/ CheckDeadline(c) \/ Strand(c)
        \/ ReadCompletes(c) \/ WriteCompletes(c) \/ Expire(c)

Spec == Init /\ [][Next]_vars
----------------------------------------------------------------------------
(***************************************************************************)
(* Properties.                                                              *)
(***************************************************************************)
\* Every variable stays in the set of values that the data it models can have.
TypeOK ==
    /\ accepting \in BOOLEAN
    /\ io \in [Conns -> Io]
    /\ timer \in [Conns -> Timer]
    /\ socket_ \in [Conns -> Socket]
    /\ upgrade \in [Conns -> BOOLEAN]
    /\ status \in [Conns -> Nat]
    /\ websock_ \in [Conns -> BOOLEAN]
    /\ running \in [Conns -> BOOLEAN]
    /\ written \in [Conns -> BOOLEAN]
    /\ expired \in [Conns -> BOOLEAN]
    /\ errors \in [Conns -> Nat]
    /\ closes \in [Conns -> Nat]
    /\ fatal \in BOOLEAN

\* Nothing refers to the connection any more: it has been destroyed.
Released(c) == io[c] = "done" /\ timer[c] = "done"

\* A deadline that passes after the request was upgraded, late or because its
\* cancellation came before the wait, does not close the websocket's socket.
UpgradeOutlivesDeadline ==
    [][\A c \in Conns :
          websock_[c] /\ socket_[c] # "closed" => socket_'[c] # "closed"]_vars

\* on_close_ runs for a complete response and for an expired deadline, and
\* never for a cancelled one.
CloseAccounted ==
    \A c \in Conns :
        closes[c] <= (IF written[c] THEN 1 ELSE 0) + (IF expired[c] THEN 1 ELSE 0)

\* A connection that is gone was answered, became a websocket, was reported to
\* on_error_ or ran into its deadline.
NoSilentDrop ==
    \A c \in Conns :
        Released(c) => written[c] \/ running[c] \/ errors[c] > 0 \/ expired[c]

\* "The websocket::connection_ptr returned by this function is only valid once
\* upgrade() has been called" (connection.hpp): it is not used before.
WebsockIsValid == ~fatal
----------------------------------------------------------------------------
(***************************************************************************)
(* The inductive invariant behind the theorems of HttpConnectionProofs.     *)
(***************************************************************************)
\* The wait for the deadline ends once: by expiry or, at the end of the
\* request, by its cancellation.
TimerInv ==
    \A c \in Conns :
        /\ timer[c] = "fired" => expired[c]
        /\ expired[c] => timer[c] \in {"fired", "done"}
        /\ io[c] # "done" => timer[c] # "aborted" /\ (timer[c] = "done" => expired[c])

\* Every call of on_close_ has its cause.
CloseInv ==
    \A c \in Conns :
        /\ written[c] => io[c] = "done"
        /\ closes[c] = (IF written[c] THEN 1 ELSE 0)
                      + (IF timer[c] = "done" /\ expired[c] THEN 1 ELSE 0)

\* Every end of a request has its cause.
EndInv ==
    \A c \in Conns :
        io[c] = "done" =>
            \/ written[c] \/ running[c] \/ errors[c] > 0
            \/ fatal /\ (timer[c] = "done" => expired[c])

\* The socket of an upgraded connection is no longer the connection's.
SocketInv ==
    \A c \in Conns : websock_[c] => socket_[c] \in {"ws", "closed"}

IndInv ==
    /\ TypeOK
    /\ TimerInv
    /\ CloseInv
    /\ EndInv
    /\ SocketInv
=============================================================================
