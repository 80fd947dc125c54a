------------------------------ MODULE Session -------------------------------
(***************************************************************************)
(* A connection from end to end: a client of the repository (http::client   *)
(* or websocket::client), the connection that serves it (HttpConnection)    *)
(* and, after an upgrade, its websocket::connection, to which the event     *)
(* thread writes broadcasts (ws/connection.cpp, ws/pool.cpp).               *)
(*                                                                          *)
(* connection::write hands Beast a buffer over a string that is destroyed   *)
(* when broadcast goes on.  Beast (external) sends a text at once when it   *)
(* fits the write buffer of the stream, no other write holds the stream and *)
(* the socket has room.  Else it reads the string, or what is left of it,   *)
(* later: a longer text is sent in fragments, one after the other.          *)
(***************************************************************************)
EXTENDS HttpConnection, Sequences

CONSTANTS
    Room,           \* frames that a socket holds
    MaxBroadcasts   \* bound: broadcasts to a websocket

ASSUME RoomAssumption == Room \in Nat \ {0} /\ MaxBroadcasts \in Nat

VARIABLES
    kind,       \* per connection: which client makes it, http or ws
    client,     \* per connection: its client, see Client
    requested,  \* per connection: the client's request is in the socket
    ws,         \* per connection: its websocket::connection, see Ws
    wr,         \* per connection: the write that holds the stream, see Wr
    held,       \* per connection: the text of that write
    waiting,    \* per connection: the text of a write that waits for it, or 0
    sent,       \* per connection: number of broadcasts, the texts are 1 .. sent
    lost,       \* history, per connection: broadcasts that made no frame
    line,       \* per connection: messages on the way to the client
    got,        \* per connection: messages the client has read
    crashed     \* an assertion of Beast has ended the process

clientVars == <<kind, client, requested>>
writeVars == <<wr, held, waiting, sent, lost>>
streamVars == <<ws, writeVars, line, got, crashed>>
sessionVars == <<vars, clientVars, streamVars>>

(***************************************************************************)
(*   idle       not connected                                               *)
(*   connected  about to write its request      dangling   so, unconnected  *)
(*   waiting    reading the response, or in the websocket handshake         *)
(*   responded  on_response_ was called                                     *)
(*   open       on_handshake_ was called: reading frames                    *)
(*   closing    close() has sent a close frame         left   so, and gone  *)
(*   failed     on_error_ was called          refused    for want of a peer *)
(*   stalled    alive, and does nothing       gone       its socket closed  *)
(***************************************************************************)
Client == {"idle", "connected", "dangling", "waiting", "responded", "open", "closing",
           "left", "failed", "refused", "stalled", "gone"}

(***************************************************************************)
(*   none      not run            posted    async_run is queued             *)
(*   accepted  101 was sent, async_accept is queued     declined  an error  *)
(*   open      reading            closed, failed  after on_close_, on_error_*)
(***************************************************************************)
Ws == {"none", "posted", "accepted", "declined", "open", "closed", "failed"}

\* busy: sent, async_write is queued; stuck: Beast is not done with the string,
\* for want of room in the socket or because the text takes several fragments.
Wr == {"none", "busy", "stuck"}

\* What a client reads of a string that is gone, unless a text.
Garbage == 0

SessionInit ==
    /\ Init
    /\ kind \in [Conns -> {"http", "ws"}]
    /\ client = [c \in Conns |-> "idle"]
    /\ requested = [c \in Conns |-> FALSE]
    /\ ws = [c \in Conns |-> "none"]
    /\ wr = [c \in Conns |-> "none"]
    /\ held = [c \in Conns |-> 0]
    /\ waiting = [c \in Conns |-> 0]
    /\ sent = [c \in Conns |-> 0]
    /\ lost = [c \in Conns |-> 0]
    /\ line = [c \in Conns |-> <<>>]
    /\ got = [c \in Conns |-> <<>>]
    /\ crashed = FALSE

Alive == ~fatal /\ ~crashed
----------------------------------------------------------------------------
(***************************************************************************)
(* The server: the steps of HttpConnection, with a client at the other end. *)
(***************************************************************************)
Accepts(c) ==
    /\ ~crashed
    /\ client[c] \notin {"idle", "dangling", "refused"}
    /\ Accept(c)
    /\ UNCHANGED <<clientVars, streamVars>>

Reads(c) ==
    /\ ~crashed
    /\ ReadCompletes(c)
    /\ io'[c] = "readOk" => requested[c]
    /\ io'[c] = "readErr" => client[c] = "gone"
    /\ UNCHANGED <<clientVars, streamVars>>

Writes(c) ==
    /\ ~crashed
    /\ WriteCompletes(c)
    /\ io'[c] = "writeErr" => client[c] = "gone"
    /\ UNCHANGED <<clientVars, streamVars>>

\* No request that http::client makes asks for an upgrade, the handshake of a
\* websocket::client does.
AsksUpgrade(c) == kind[c] = "ws"

Routes(c) ==
    /\ ~crashed
    /\ RunRoute(c)
    /\ upgrade'[c] = AsksUpgrade(c)
    /\ UNCHANGED <<clientVars, streamVars>>

\* websocket::connection::run queues async_run.
Upgrades(c) ==
    /\ ~crashed
    /\ RunWebsocket(c)
    /\ ws' = [ws EXCEPT ![c] = IF running'[c] THEN "posted" ELSE @]
    /\ UNCHANGED <<clientVars, writeVars, line, got, crashed>>

Expires(c) == ~crashed /\ Expire(c) /\ UNCHANGED <<clientVars, streamVars>>

Serves(c) ==
    /\ ~crashed
    /\ \/ CheckDeadline(c) \/ ReadFails(c) \/ WriteResponse(c) \/ WriteFails(c)
       \/ WriteDone(c) \/ DeadlineCloses(c) \/ DeadlineAborted(c)
    /\ UNCHANGED <<clientVars, streamVars>>
----------------------------------------------------------------------------
(***************************************************************************)
(* The websocket::connection.                                               *)
(***************************************************************************)
\* Mutant: an async_run that does not begin the handshake.
AsyncRunStops(c) ==
    /\ Alive
    /\ ws[c] = "posted"
    /\ ws' = [ws EXCEPT ![c] = "none"]
    /\ UNCHANGED <<vars, clientVars, writeVars, line, got, crashed>>

\* async_run: the handshake is sent, or fails for a closed socket, a client that
\* is gone or a request that is not a handshake.
AsyncRun(c) ==
    /\ Alive
    /\ ws[c] = "posted"
    /\ \E result \in {"accepted", "declined"} :
          /\ socket_[c] = "closed" => result = "declined"
          /\ ws' = [ws EXCEPT ![c] = result]
    /\ UNCHANGED <<vars, clientVars, writeVars, line, got, crashed>>

\* async_accept: on_handshake_ and the first read, or on_error_.
AsyncAccept(c) ==
    /\ Alive
    /\ ws[c] \in {"accepted", "declined"}
    /\ ws' = [ws EXCEPT ![c] = IF @ = "accepted" THEN "open" ELSE "failed"]
    /\ UNCHANGED <<vars, clientVars, writeVars, line, got, crashed>>

\* async_read: on_close_ after the client's close frame, on_error_ when the
\* client is gone without one or does not answer the pings of the suggested
\* timeout.  (Its messages are only logged.)
AsyncRead(c) ==
    /\ Alive
    /\ ws[c] = "open"
    /\ client[c] \in {"closing", "left", "stalled", "failed", "gone"}
    /\ ws' = [ws EXCEPT ![c] =
                 IF client[c] \in {"closing", "left"} THEN "closed" ELSE "failed"]
    /\ UNCHANGED <<vars, clientVars, writeVars, line, got, crashed>>

\* app::websocket has added it to websockets_, from which only on_close_ removes it.
InPool(c) == websock_[c] /\ ws[c] # "closed"

Send(c, frame) == line' = [line EXCEPT ![c] = Append(@, frame)]

\* No write holds the stream, and the socket has room.
Free(c) == wr[c] = "none" /\ Len(line[c]) < Room

\* connection::write of a text that fits, on an open stream that is free.
WriteNow(c, text) ==
    /\ Send(c, text)
    /\ wr' = [wr EXCEPT ![c] = "busy"]
    /\ held' = [held EXCEPT ![c] = text]
    /\ UNCHANGED <<waiting, lost, crashed>>

\* Mutant: the latest text takes the stream from one that is not sent yet.
WriteLaterFirst(c, text) ==
    /\ IF wr[c] = "none"
       THEN wr' = [wr EXCEPT ![c] = "stuck"] /\ UNCHANGED waiting
       ELSE waiting' = [waiting EXCEPT ![c] = held[c]] /\ UNCHANGED wr
    /\ held' = [held EXCEPT ![c] = text]
    /\ UNCHANGED <<lost, line, crashed>>

\* The same of a longer text, without room in the socket, or while another write
\* holds the stream.  Beast asserts that no two writes wait.
WriteLater(c, text) ==
    /\ IF wr[c] = "none"
       THEN /\ wr' = [wr EXCEPT ![c] = "stuck"]
            /\ held' = [held EXCEPT ![c] = text]
            /\ UNCHANGED <<waiting, crashed>>
       ELSE /\ waiting' = [waiting EXCEPT ![c] = text]
            /\ crashed' = (waiting[c] # 0)
            /\ UNCHANGED <<wr, held>>
    /\ UNCHANGED <<lost, line>>

\* The same before async_accept has run: the stream does not know its role yet,
\* and the frame is written as it comes, if at all.
WriteEarly(c, text) ==
    /\ \/ lost' = [lost EXCEPT ![c] = @ + 1] /\ UNCHANGED line
       \/ UNCHANGED lost /\ \E frame \in {text, Garbage} : Send(c, frame)
    /\ UNCHANGED <<wr, held, waiting, crashed>>

\* The event thread: pool::broadcast writes a text of any length.  Before
\* async_run and after an error, Beast refuses it and the text is nobody's.
Broadcast(c) ==
    /\ Alive
    /\ InPool(c)
    /\ sent[c] < MaxBroadcasts
    /\ sent' = [sent EXCEPT ![c] = @ + 1]
    /\ \E long \in BOOLEAN :
          \/ ws[c] = "accepted" /\ WriteEarly(c, sent'[c])
          \/ ws[c] = "open" /\ Free(c) /\ ~long /\ WriteNow(c, sent'[c])
          \/ ws[c] = "open" /\ (~Free(c) \/ long) /\ WriteLater(c, sent'[c])
    /\ UNCHANGED <<vars, clientVars, ws, got>>

\* async_write, also with an error (on_error_) when the stream has failed.  The
\* stream goes to the write that waits, if one does.
AsyncWrite(c) ==
    /\ Alive
    /\ wr[c] = "busy" \/ (wr[c] = "stuck" /\ ws[c] # "open")
    /\ wr' = [wr EXCEPT ![c] = IF waiting[c] # 0 THEN "stuck" ELSE "none"]
    /\ held' = [held EXCEPT ![c] = waiting[c]]
    /\ waiting' = [waiting EXCEPT ![c] = 0]
    /\ UNCHANGED <<vars, clientVars, ws, sent, lost, line, got, crashed>>

\* A write that had to wait reads its string, which has been destroyed: the text
\* may still be there, the latest one may have taken its place, or anything.
Unstick(c) ==
    /\ Alive
    /\ wr[c] = "stuck"
    /\ ws[c] = "open"
    /\ Len(line[c]) < Room
    /\ \E frame \in {Garbage, held[c], sent[c]} : Send(c, frame)
    /\ wr' = [wr EXCEPT ![c] = "busy"]
    /\ UNCHANGED <<vars, clientVars, ws, held, waiting, sent, lost, got, crashed>>
----------------------------------------------------------------------------
(***************************************************************************)
(* The clients.                                                             *)
(***************************************************************************)
Becomes(c, state) ==
    /\ client' = [client EXCEPT ![c] = state]
    /\ UNCHANGED <<vars, kind, requested>>

\* The server's end of the socket is closed, or will be.  A websocket in the pool
\* keeps it open also when nobody runs it.
Closed(c) ==
    \/ ~Alive
    \/ socket_[c] = "closed"
    \/ Released(c) /\ ~websock_[c]
    \/ ws[c] \in {"declined", "failed", "closed"}

\* client_on_connect of websocket::client ignores an error and goes on.
Unconnected(c) == IF kind[c] = "ws" THEN "dangling" ELSE "refused"

\* async_connect and client_on_connect.
Connect(c) ==
    /\ client[c] = "idle"
    /\ \/ Alive /\ Becomes(c, "connected")
       \/ Becomes(c, Unconnected(c))
    /\ UNCHANGED streamVars

\* client_on_write: the request, which is the handshake of a websocket::client.
WriteRequest(c) ==
    /\ client[c] \in {"connected", "dangling"}
    /\ IF client[c] = "dangling" THEN Becomes(c, "refused")
       ELSE IF Closed(c) THEN Becomes(c, "failed")
       ELSE /\ client' = [client EXCEPT ![c] = "waiting"]
            /\ requested' = [requested EXCEPT ![c] = TRUE]
            /\ UNCHANGED <<vars, kind>>
    /\ UNCHANGED streamVars

\* The response is in the socket completely.
Arrived(c) == written[c] \/ io[c] = "writeOk"

\* client_on_read of http::client with the response.
ReadResponse(c) ==
    /\ client[c] = "waiting"
    /\ kind[c] = "http"
    /\ Arrived(c)
    /\ Becomes(c, "responded")
    /\ UNCHANGED streamVars

\* client_on_handshake of websocket::client: it begins to read.
Handshake(c) ==
    /\ client[c] = "waiting"
    /\ ws[c] \in {"accepted", "open"}
    /\ Becomes(c, "open")
    /\ UNCHANGED streamVars

\* The same and client_on_read with an error.
ReadError(c) ==
    /\ client[c] \in {"waiting", "open", "closing"}
    /\ Closed(c)
    /\ ~Arrived(c)
    /\ line[c] = <<>>
    /\ Becomes(c, "failed")
    /\ UNCHANGED streamVars

\* The suggested timeout of a client ends a handshake that takes too long.  There
\* is none in http::client.
HandshakeTimeout(c) ==
    /\ client[c] = "waiting"
    /\ kind[c] = "ws"
    /\ Becomes(c, "failed")
    /\ UNCHANGED streamVars

\* Mutant: a client_on_read that does not read again.
ReadFrameOnce(c) ==
    /\ client[c] = "open"
    /\ got[c] = <<>>
    /\ line[c] # <<>>
    /\ got' = [got EXCEPT ![c] = Append(@, Head(line[c]))]
    /\ line' = [line EXCEPT ![c] = Tail(@)]
    /\ UNCHANGED <<vars, clientVars, ws, writeVars, crashed>>

\* client_on_read of websocket::client.
ReadFrame(c) ==
    /\ client[c] = "open"
    /\ line[c] # <<>>
    /\ got' = [got EXCEPT ![c] = Append(@, Head(line[c]))]
    /\ line' = [line EXCEPT ![c] = Tail(@)]
    /\ UNCHANGED <<vars, clientVars, ws, writeVars, crashed>>

\* close() of websocket::client.
Close(c) ==
    /\ client[c] = "open"
    /\ Becomes(c, "closing")
    /\ UNCHANGED streamVars

\* A client stops to take part: its program does something else, or has ended.
Leave(c) ==
    /\ client[c] \notin {"idle", "dangling", "refused", "gone", "left"}
    /\ \E state \in IF client[c] = "closing" THEN {"left"} ELSE {"stalled", "gone"} :
          Becomes(c, state)
    /\ UNCHANGED streamVars
----------------------------------------------------------------------------
Stream(c) ==
    AsyncRun(c) \/ AsyncAccept(c) \/ AsyncRead(c) \/ AsyncWrite(c) \/ Unstick(c)
ClientReads(c) == ReadResponse(c) \/ Handshake(c) \/ ReadError(c) \/ ReadFrame(c)

SessionNext ==
    \E c \in Conns :
        \/ Accepts(c) \/ Reads(c) \/ Writes(c) \/ Routes(c) \/ Upgrades(c)
        \/ Expires(c) \/ Serves(c) \/ Stream(c) \/ Broadcast(c)
        \/ Connect(c) \/ WriteRequest(c) \/ ClientReads(c)
        \/ HandshakeTimeout(c) \/ Close(c) \/ Leave(c)

SessionSpec == SessionInit /\ [][SessionNext]_sessionVars

\* Handlers are run, time passes, and the socket carries what a client that takes
\* part has written or waits for.  Clients promise to read and nothing else (not
\* even the timeout of the handshake, which would hide a lost answer).
SessionFairness ==
    \A c \in Conns :
        /\ WF_sessionVars(Accepts(c))
        /\ WF_sessionVars(Reads(c) /\ requested[c])
        /\ WF_sessionVars(Writes(c) /\ client[c] = "waiting")
        /\ WF_sessionVars(Routes(c)) /\ WF_sessionVars(Upgrades(c))
        /\ WF_sessionVars(Serves(c)) /\ WF_sessionVars(Expires(c))
        /\ WF_sessionVars(Stream(c))
        /\ WF_sessionVars(ClientReads(c))

SessionFairSpec == SessionSpec /\ SessionFairness
----------------------------------------------------------------------------
(***************************************************************************)
(* Properties.                                                              *)
(***************************************************************************)
\* A client sees what it asked for: an http::client never reads the 101 of a
\* websocket route, and a websocket::client is open only with a websocket that
\* the server runs for it.
NoHalfUpgrade ==
    \A c \in Conns :
        /\ client[c] = "responded" => status[c] # 101 /\ Arrived(c)
        /\ client[c] \in {"open", "closing"} => running[c] /\ socket_[c] = "ws"

\* What has been sent to a client, read or not.
Frames(c) == got[c] \o line[c]

\* Texts never go backwards.
Ordered(frames) ==
    \A i, j \in DOMAIN frames :
        i < j /\ frames[j] # Garbage => frames[i] <= frames[j]

\* What overlapping writes and strings that are read too late do not break: what
\* a client reads as a text is never older than what it has read before, and it
\* reads no more messages than there were broadcasts.
TextsInOrder == \A c \in Conns : Ordered(Frames(c)) /\ Len(Frames(c)) <= sent[c]

\* The http::connection of every accepted client is released some day, whatever
\* the client does.
Finishes == \A c \in Conns : io[c] # "none" ~> Released(c) \/ ~Alive

\* A client that waits for its answer gets it, or an error: also when the deadline
\* passes, the websocket is declined or the server dies.  Only a request to the
\* websocket route without an upgrade may wait forever: the websocket in the pool
\* keeps its socket open.
ClientAnswered ==
    \A c \in Conns :
        client[c] = "waiting" ~> client[c] # "waiting" \/ (status[c] = 101 /\ ~upgrade[c])

\* Every broadcast after the handshake reaches a client that goes on reading, if
\* not as its text then as a message: also one that waited for the stream, that
\* found the socket full or that was sent in fragments.
FramesArrive ==
    \A c \in Conns, n \in 1 .. MaxBroadcasts :
        client[c] = "open" /\ sent[c] - lost[c] = n
            ~> Len(got[c]) >= n \/ client[c] # "open" \/ ~Alive
----------------------------------------------------------------------------
(***************************************************************************)
(* The inductive invariant behind the theorems of SessionProofs.            *)
(***************************************************************************)
\* Types of what Session adds.
SessionTypeOK ==
    /\ kind \in [Conns -> {"http", "ws"}]
    /\ client \in [Conns -> Client]
    /\ requested \in [Conns -> BOOLEAN]
    /\ ws \in [Conns -> Ws]
    /\ wr \in [Conns -> Wr]
    /\ held \in [Conns -> Nat]
    /\ waiting \in [Conns -> Nat]
    /\ sent \in [Conns -> Nat]
    /\ lost \in [Conns -> Nat]
    /\ line \in [Conns -> Seq(Nat)]
    /\ got \in [Conns -> Seq(Nat)]
    /\ crashed \in BOOLEAN

\* Only a connection without websocket writes a response.
OwnSocket ==
    \A c \in Conns :
        /\ websock_[c] <=> status[c] = 101
        /\ Arrived(c) \/ io[c] = "writing" => ~websock_[c]
        /\ websock_[c] \/ written[c] => io[c] \notin {"none", "reading", "readOk", "readErr"}
        /\ running[c] => websock_[c] /\ io[c] = "done"

\* A websocket is run once it has the socket.
StreamInv ==
    \A c \in Conns :
        /\ ws[c] # "none" => running[c]
        /\ ws[c] \in {"accepted", "open"} => socket_[c] = "ws"

\* Writes that have not made their frame yet.
Owed(c) == (IF wr[c] = "stuck" THEN 1 ELSE 0) + (IF waiting[c] # 0 THEN 1 ELSE 0)

\* No message is a text after the n-th.
UpTo(c, n) == \A i \in DOMAIN Frames(c) : Frames(c)[i] <= n

\* The texts that are not sent yet are the latest ones, and no older than what
\* has been sent; each of them is one of the broadcasts.
InOrder(c) ==
    /\ Ordered(Frames(c))
    /\ UpTo(c, sent[c])
    /\ Len(Frames(c)) + Owed(c) <= sent[c]
    /\ held[c] <= sent[c]
    /\ waiting[c] # 0 => wr[c] # "none"
    /\ ws[c] \in {"none", "posted", "accepted", "declined"} => wr[c] = "none"
    /\ ~crashed => /\ waiting[c] # 0 => waiting[c] = sent[c]
                   /\ wr[c] = "stuck" => UpTo(c, held[c])

OrderInv == \A c \in Conns : InOrder(c)

SessionInv == IndInv /\ SessionTypeOK /\ OwnSocket /\ StreamInv /\ NoHalfUpgrade
=============================================================================
