---------------------------- MODULE SessionProofs ----------------------------
(***************************************************************************)
(* Theorems about Session, for any number of connections, any room in their *)
(* sockets and any number of broadcasts.                                    *)
(***************************************************************************)
EXTENDS Session, HttpConnectionProofs, SequenceTheorems

\* The steps of the server are steps of HttpConnection, those of the clients and
\* of the websockets leave it alone.
LEMMA StepImplements == [SessionNext]_sessionVars => [Next]_vars
<1> SUFFICES ASSUME [SessionNext]_sessionVars PROVE [Next]_vars
  OBVIOUS
<1>1. ASSUME NEW c \in Conns,
             \/ Accepts(c) \/ Reads(c) \/ Writes(c) \/ Routes(c) \/ Upgrades(c)
             \/ Expires(c) \/ Serves(c)
      PROVE  Next
  BY <1>1 DEF Accepts, Reads, Writes, Routes, Upgrades, Expires, Serves, Next, Strand
<1>2. ASSUME NEW c \in Conns, Stream(c) \/ Broadcast(c) PROVE UNCHANGED vars
  BY <1>2 DEF Stream, AsyncRun, AsyncAccept, AsyncRead, AsyncWrite, Unstick, Broadcast
<1>3. ASSUME NEW c \in Conns, Connect(c) \/ WriteRequest(c) PROVE UNCHANGED vars
  BY <1>3 DEF Connect, WriteRequest, Becomes
<1>4. ASSUME NEW c \in Conns,
             ClientReads(c) \/ HandshakeTimeout(c) \/ Close(c) \/ Leave(c)
      PROVE  UNCHANGED vars
  BY <1>4 DEF ClientReads, ReadResponse, Handshake, ReadError, ReadFrame,
              HandshakeTimeout, Close, Leave, Becomes
<1>5. CASE UNCHANGED sessionVars
  BY <1>5 DEF sessionVars
<1> QED
  BY <1>1, <1>2, <1>3, <1>4, <1>5 DEF SessionNext

\* A connection with its client and its websocket implements the connection whose
\* clients do anything: what is proved of HttpConnection holds of Session.
THEOREM SessionImplements == SessionSpec => Spec
<1>1. SessionInit => Init
  BY DEF SessionInit
<1> QED
  BY <1>1, StepImplements, PTL DEF SessionSpec, Spec

\* Every step of a connection keeps responses and websockets apart.
LEMMA OwnStep == IndInv /\ OwnSocket /\ [Next]_vars => OwnSocket'
<1> SUFFICES ASSUME IndInv, OwnSocket, [Next]_vars PROVE OwnSocket'
  OBVIOUS
<1> USE DEF IndInv, TypeOK, OwnSocket, Arrived, ioVars, requestVars, callVars
<1>1. ASSUME NEW c \in Conns, Accept(c) \/ CheckDeadline(c) PROVE OwnSocket'
  BY <1>1 DEF Accept, CheckDeadline
<1>2. ASSUME NEW c \in Conns, ReadCompletes(c) \/ WriteCompletes(c) \/ Expire(c)
      PROVE  OwnSocket'
  BY <1>2 DEF ReadCompletes, WriteCompletes, Expire
<1>3. ASSUME NEW c \in Conns, ReadFails(c) \/ WriteFails(c) PROVE OwnSocket'
  BY <1>3 DEF ReadFails, WriteFails
<1>4. ASSUME NEW c \in Conns, WriteResponse(c) PROVE OwnSocket'
  BY <1>4 DEF WriteResponse, SocketInv
<1>5. ASSUME NEW c \in Conns, RunRoute(c) PROVE OwnSocket'
  <2>1. PICK answer \in Answers :
           /\ status' = [status EXCEPT ![c] = answer.status]
           /\ websock_' = [websock_ EXCEPT ![c] = answer.status = 101]
    BY <1>5 DEF RunRoute
  <2>2. io[c] = "readOk" /\ io' = [io EXCEPT ![c] = "routed"]
    BY <1>5 DEF RunRoute
  <2>3. UNCHANGED <<running, written>>
    BY <1>5 DEF RunRoute
  <2>4. websock_'[c] <=> status'[c] = 101
    BY <2>1, ZenonT(60)
  <2>5. ~written[c] /\ ~running[c]
    BY <2>2
  <2> QED
    BY <2>1, <2>2, <2>3, <2>4, <2>5
<1>6. ASSUME NEW c \in Conns, RunWebsocket(c) PROVE OwnSocket'
  BY <1>6 DEF RunWebsocket
<1>7. ASSUME NEW c \in Conns, WriteDone(c) PROVE OwnSocket'
  BY <1>7 DEF WriteDone
<1>8. ASSUME NEW c \in Conns, DeadlineCloses(c) PROVE OwnSocket'
  BY <1>8 DEF DeadlineCloses, Aborted
<1>9. ASSUME NEW c \in Conns, DeadlineAborted(c) PROVE OwnSocket'
  BY <1>9 DEF DeadlineAborted
<1>10. CASE UNCHANGED vars
  BY <1>10 DEF vars
<1> QED
  BY <1>1, <1>2, <1>3, <1>4, <1>5, <1>6, <1>7, <1>8, <1>9, <1>10 DEF Next, Strand

\* What a step of a connection never takes back: a websocket that runs, its
\* socket, and a response that has arrived.
LEMMA Kept ==
    ASSUME IndInv, OwnSocket, [Next]_vars, NEW c \in Conns
    PROVE  /\ running[c] => running'[c]
           /\ websock_[c] /\ socket_[c] = "ws" => socket_'[c] = "ws"
           /\ Arrived(c) => Arrived(c)' /\ status'[c] = status[c]
<1> DEFINE Goal == /\ running[c] => running'[c]
                   /\ websock_[c] /\ socket_[c] = "ws" => socket_'[c] = "ws"
                   /\ Arrived(c) => Arrived(c)' /\ status'[c] = status[c]
<1> USE DEF IndInv, TypeOK, Arrived, ioVars, requestVars, callVars
<1>1. ASSUME NEW x \in Conns, \/ Accept(x) \/ CheckDeadline(x) \/ ReadCompletes(x)
                              \/ WriteCompletes(x) \/ Expire(x) \/ DeadlineAborted(x)
      PROVE  Goal
  BY <1>1 DEF Accept, CheckDeadline, ReadCompletes, WriteCompletes, Expire,
              DeadlineAborted
<1>2. ASSUME NEW x \in Conns, ReadFails(x) \/ WriteFails(x) \/ WriteResponse(x)
      PROVE  Goal
  BY <1>2 DEF ReadFails, WriteFails, WriteResponse
<1>3. ASSUME NEW x \in Conns, RunRoute(x) PROVE Goal
  <2>1. PICK answer \in Answers :
           /\ status' = [status EXCEPT ![x] = answer.status]
           /\ socket_' = [socket_ EXCEPT ![x] =
                             IF answer.status = 101 THEN Upgrade(x) ELSE @]
    BY <1>3 DEF RunRoute
  <2>2. /\ io[x] = "readOk"
        /\ io' = [io EXCEPT ![x] = "routed"]
        /\ UNCHANGED <<running, written>>
    BY <1>3 DEF RunRoute
  <2>3. ~websock_[x] /\ ~Arrived(x)
    BY <2>2 DEF OwnSocket
  <2>4. running[c] => running'[c]
    BY <2>2
  <2>5. websock_[c] /\ socket_[c] = "ws" => socket_'[c] = "ws"
    BY <2>1, <2>3
  <2>6. Arrived(c) => Arrived(c)' /\ status'[c] = status[c]
    BY <2>1, <2>2, <2>3
  <2> QED
    BY <2>4, <2>5, <2>6
<1>4. ASSUME NEW x \in Conns, RunWebsocket(x) PROVE Goal
  BY <1>4 DEF RunWebsocket
<1>5. ASSUME NEW x \in Conns, WriteDone(x) PROVE Goal
  BY <1>5 DEF WriteDone
<1>6. ASSUME NEW x \in Conns, DeadlineCloses(x) PROVE Goal
  BY <1>6 DEF DeadlineCloses, Aborted
<1>7. CASE UNCHANGED vars
  BY <1>7 DEF vars
<1> QED
  BY <1>1, <1>2, <1>3, <1>4, <1>5, <1>6, <1>7 DEF Next, Strand

\* Every step keeps the types of the clients and of the streams.
LEMMA SessionTypeStep ==
    TypeOK /\ SessionTypeOK /\ [SessionNext]_sessionVars => SessionTypeOK'
<1> SUFFICES ASSUME TypeOK, SessionTypeOK, [SessionNext]_sessionVars
             PROVE  SessionTypeOK'
  OBVIOUS
<1> USE DEF SessionTypeOK, clientVars, writeVars, streamVars
<1>1. ASSUME NEW c \in Conns, \/ Accepts(c) \/ Reads(c) \/ Writes(c) \/ Routes(c)
                              \/ Expires(c) \/ Serves(c)
      PROVE  SessionTypeOK'
  BY <1>1 DEF Accepts, Reads, Writes, Routes, Expires, Serves
<1>2. ASSUME NEW c \in Conns, Upgrades(c) PROVE SessionTypeOK'
  BY <1>2 DEF Upgrades, Ws
<1>3. ASSUME NEW c \in Conns, AsyncRun(c) \/ AsyncAccept(c) \/ AsyncRead(c)
      PROVE  SessionTypeOK'
  BY <1>3, ZenonT(60) DEF AsyncRun, AsyncAccept, AsyncRead, Ws
<1>4. ASSUME NEW c \in Conns, AsyncWrite(c) PROVE SessionTypeOK'
  BY <1>4 DEF AsyncWrite, Wr
<1>5. ASSUME NEW c \in Conns, Unstick(c) PROVE SessionTypeOK'
  <2>1. PICK frame \in {Garbage, held[c], sent[c]} : Send(c, frame)
    BY <1>5 DEF Unstick
  <2>2. line' \in [Conns -> Seq(Nat)]
    BY <2>1 DEF Send, Garbage
  <2>3. wr' \in [Conns -> Wr]
    BY <1>5 DEF Unstick, Wr
  <2> QED
    BY <1>5, <2>2, <2>3 DEF Unstick
<1>6. ASSUME NEW c \in Conns, Broadcast(c) PROVE SessionTypeOK'
  <2>1. sent' \in [Conns -> Nat] /\ sent'[c] \in Nat
    BY <1>6 DEF Broadcast
  <2>2. CASE WriteNow(c, sent'[c])
    BY <1>6, <2>1, <2>2 DEF Broadcast, WriteNow, Send, Wr
  <2>3. CASE WriteLater(c, sent'[c])
    <3>1. /\ wr' \in [Conns -> Wr]
          /\ held' \in [Conns -> Nat]
          /\ waiting' \in [Conns -> Nat]
      BY <2>1, <2>3 DEF WriteLater, Wr
    <3>2. crashed' \in BOOLEAN
      BY <2>3, Zenon DEF WriteLater
    <3> QED
      BY <1>6, <2>1, <2>3, <3>1, <3>2 DEF Broadcast, WriteLater
  <2>4. CASE WriteEarly(c, sent'[c])
    <3>1. PICK frame \in {sent'[c], Garbage} : UNCHANGED line \/ Send(c, frame)
      BY <2>4 DEF WriteEarly
    <3>2. frame \in Nat
      BY <2>1 DEF Garbage
    <3>3. line' \in [Conns -> Seq(Nat)]
      <4>1. line \in [Conns -> Seq(Nat)]
        OBVIOUS
      <4>2. Append(line[c], frame) \in Seq(Nat)
        BY <3>2, <4>1
      <4> QED
        BY <3>1, <4>1, <4>2 DEF Send
    <3>4. lost' \in [Conns -> Nat]
      <4>1. lost' = lost \/ lost' = [lost EXCEPT ![c] = @ + 1]
        BY <2>4, Zenon DEF WriteEarly
      <4>2. lost \in [Conns -> Nat]
        OBVIOUS
      <4> HIDE DEF SessionTypeOK
      <4> QED
        BY <4>1, <4>2
    <3> QED
      BY <1>6, <2>1, <2>4, <3>3, <3>4 DEF Broadcast, WriteEarly
  <2> QED
    BY <1>6, <2>2, <2>3, <2>4 DEF Broadcast
<1>7. ASSUME NEW c \in Conns, Connect(c) \/ WriteRequest(c) PROVE SessionTypeOK'
  BY <1>7 DEF Connect, Unconnected, WriteRequest, Becomes, Client
<1>8. ASSUME NEW c \in Conns, \/ ReadResponse(c) \/ Handshake(c) \/ ReadError(c)
                              \/ HandshakeTimeout(c) \/ Close(c) \/ Leave(c)
      PROVE  SessionTypeOK'
  BY <1>8, ZenonT(60) DEF ReadResponse, Handshake, ReadError, HandshakeTimeout, Close, Leave,
              Becomes, Client
<1>9. ASSUME NEW c \in Conns, ReadFrame(c) PROVE SessionTypeOK'
  <2>1. Append(got[c], Head(line[c])) \in Seq(Nat) /\ Tail(line[c]) \in Seq(Nat)
    BY <1>9 DEF ReadFrame
  <2> QED
    BY <1>9, <2>1 DEF ReadFrame
<1>10. CASE UNCHANGED sessionVars
  BY <1>10 DEF sessionVars
<1> QED
  BY <1>1, <1>2, <1>3, <1>4, <1>5, <1>6, <1>7, <1>8, <1>9, <1>10
  DEF SessionNext, Stream, ClientReads

\* Every step keeps the socket of a websocket that runs.
LEMMA StreamStep ==
    SessionInv /\ [SessionNext]_sessionVars => StreamInv'
<1> SUFFICES ASSUME SessionInv, [SessionNext]_sessionVars, NEW c \in Conns
             PROVE  /\ ws'[c] # "none" => running'[c]
                    /\ ws'[c] \in {"accepted", "open"} => socket_'[c] = "ws"
  BY DEF StreamInv
<1>1. [Next]_vars
  BY StepImplements
<1>2. /\ running[c] => running'[c]
      /\ websock_[c] /\ socket_[c] = "ws" => socket_'[c] = "ws"
  BY <1>1, Kept DEF SessionInv
<1>3. running[c] => websock_[c] /\ socket_[c] \in {"ws", "closed"}
  BY DEF SessionInv, OwnSocket, IndInv, SocketInv
<1>4. /\ ws[c] # "none" => running[c]
      /\ ws[c] \in {"accepted", "open"} => socket_[c] = "ws"
  BY DEF SessionInv, StreamInv
<1>5. ws \in [Conns -> Ws] /\ TypeOK
  BY DEF SessionInv, SessionTypeOK, IndInv
<1>6. CASE ws'[c] = ws[c]
  BY <1>2, <1>3, <1>4, <1>6
<1>7. ASSUME NEW x \in Conns, Upgrades(x), ws'[c] # ws[c]
      PROVE  ws'[c] = "posted" /\ running'[c]
  BY <1>5, <1>7 DEF Upgrades
<1>8. ASSUME NEW x \in Conns, AsyncRun(x), ws'[c] # ws[c]
      PROVE  /\ ws[c] = "posted"
             /\ ws'[c] = "accepted" => socket_[c] # "closed"
             /\ ws'[c] # "open"
             /\ UNCHANGED <<running, socket_>>
  BY <1>5, <1>8 DEF AsyncRun, vars, ioVars, requestVars
<1>9. ASSUME NEW x \in Conns, AsyncAccept(x) \/ AsyncRead(x), ws'[c] # ws[c]
      PROVE  /\ ws[c] # "none"
             /\ ws'[c] = "open" => ws[c] = "accepted"
             /\ ws'[c] # "accepted"
             /\ UNCHANGED <<running, socket_>>
  BY <1>5, <1>9 DEF AsyncAccept, AsyncRead, vars, ioVars, requestVars
<1>10. \/ ws' = ws
       \/ \E x \in Conns : Upgrades(x) \/ AsyncRun(x) \/ AsyncAccept(x) \/ AsyncRead(x)
  BY DEF SessionNext, sessionVars, streamVars, Accepts, Reads, Writes, Routes, Expires,
         Serves, Stream, AsyncWrite, Unstick, Broadcast, Connect, WriteRequest,
         ClientReads, ReadResponse, Handshake, ReadError, ReadFrame, HandshakeTimeout,
         Close, Leave
<1> QED
  BY <1>3, <1>4, <1>6, <1>7, <1>8, <1>9, <1>10

\* Every step keeps NoHalfUpgrade.
LEMMA HalfStep ==
    SessionInv /\ [SessionNext]_sessionVars => NoHalfUpgrade'
<1> SUFFICES ASSUME SessionInv, [SessionNext]_sessionVars, NEW c \in Conns
             PROVE  /\ client'[c] = "responded" => status'[c] # 101 /\ Arrived(c)'
                    /\ client'[c] \in {"open", "closing"} =>
                           running'[c] /\ socket_'[c] = "ws"
  BY DEF NoHalfUpgrade
<1>1. [Next]_vars
  BY StepImplements
<1>2. /\ running[c] => running'[c]
      /\ websock_[c] /\ socket_[c] = "ws" => socket_'[c] = "ws"
      /\ Arrived(c) => Arrived(c)' /\ status'[c] = status[c]
  BY <1>1, Kept DEF SessionInv
<1>3. /\ running[c] => websock_[c]
      /\ Arrived(c) => status[c] # 101
  BY DEF SessionInv, OwnSocket
<1>4. /\ client[c] = "responded" => status[c] # 101 /\ Arrived(c)
      /\ client[c] \in {"open", "closing"} => running[c] /\ socket_[c] = "ws"
  BY DEF SessionInv, NoHalfUpgrade
<1>5. ws[c] \in {"accepted", "open"} => running[c] /\ socket_[c] = "ws"
  BY DEF SessionInv, StreamInv
<1>6. client \in [Conns -> Client]
  BY DEF SessionInv, SessionTypeOK
<1>7. ASSUME client'[c] \in {"responded", "open", "closing"}, client'[c] # client[c]
      PROVE  \/ client'[c] = "responded" /\ Arrived(c)
             \/ client'[c] = "open" /\ ws[c] \in {"accepted", "open"}
             \/ client'[c] = "closing" /\ client[c] = "open"
  <2>1. PICK x \in Conns :
           \/ Connect(x) \/ WriteRequest(x) \/ ReadResponse(x) \/ Handshake(x)
           \/ ReadError(x) \/ HandshakeTimeout(x) \/ Close(x) \/ Leave(x)
    BY <1>7 DEF SessionNext, sessionVars, clientVars, Accepts, Reads, Writes, Routes,
                Upgrades, Expires, Serves, Stream, AsyncRun, AsyncAccept, AsyncRead,
                AsyncWrite, Unstick, Broadcast, ClientReads, ReadFrame
  <2>2. CASE Connect(x) \/ WriteRequest(x)
    BY <1>6, <1>7, <2>2 DEF Connect, Unconnected, WriteRequest, Becomes
  <2>3. CASE ReadResponse(x) \/ Handshake(x)
    BY <1>6, <1>7, <2>3 DEF ReadResponse, Handshake, Becomes
  <2>4. CASE ReadError(x) \/ HandshakeTimeout(x) \/ Close(x) \/ Leave(x)
    BY <1>6, <1>7, <2>4 DEF ReadError, HandshakeTimeout, Close, Leave, Becomes
  <2> QED
    BY <2>1, <2>2, <2>3, <2>4
<1> QED
  BY <1>2, <1>3, <1>4, <1>5, <1>7

\* The inductive invariant holds in every reachable state.
LEMMA SessionInductive == SessionSpec => []SessionInv
<1>1. ASSUME SessionInit PROVE OwnSocket /\ StreamInv /\ NoHalfUpgrade
  <2>1. ASSUME NEW c \in Conns
        PROVE  /\ ~websock_[c] /\ ~running[c] /\ ~written[c]
               /\ status[c] = 0 /\ io[c] = "none" /\ ws[c] = "none"
               /\ client[c] = "idle"
    BY <1>1 DEF SessionInit, Init
  <2> QED
    BY <2>1 DEF OwnSocket, StreamInv, NoHalfUpgrade, Arrived
<1>2. ASSUME SessionInit PROVE SessionTypeOK
  <2>1. /\ kind \in [Conns -> {"http", "ws"}]
        /\ client \in [Conns -> Client]
        /\ ws \in [Conns -> Ws]
        /\ wr \in [Conns -> Wr]
    BY <1>2 DEF SessionInit, Client, Ws, Wr
  <2>2. <<>> \in Seq(Nat)
    OBVIOUS
  <2>3. /\ held \in [Conns -> Nat]
        /\ waiting \in [Conns -> Nat]
        /\ sent \in [Conns -> Nat]
        /\ lost \in [Conns -> Nat]
        /\ line \in [Conns -> Seq(Nat)]
        /\ got \in [Conns -> Seq(Nat)]
    BY <1>2, <2>2 DEF SessionInit
  <2>4. /\ requested \in [Conns -> BOOLEAN]
        /\ crashed \in BOOLEAN
    BY <1>2 DEF SessionInit
  <2> QED
    BY <2>1, <2>3, <2>4 DEF SessionTypeOK
<1>3. SessionSpec => []IndInv
  BY SessionImplements, Inductive, PTL
<1>4. ASSUME IndInv, IndInv', SessionInv, [SessionNext]_sessionVars PROVE SessionInv'
  <2>1. OwnSocket'
    BY <1>4, StepImplements, OwnStep DEF SessionInv
  <2>2. SessionTypeOK'
    BY <1>4, SessionTypeStep DEF SessionInv, IndInv
  <2> QED
    BY <1>4, <2>1, <2>2, StreamStep, HalfStep DEF SessionInv
<1>5. ASSUME SessionInit, IndInv PROVE SessionInv
  BY <1>1, <1>2, <1>5 DEF SessionInv
<1> QED
  BY <1>3, <1>4, <1>5, PTL DEF SessionSpec

\* Whatever the deadline, the clients and the order of the handlers do: no client
\* reads a 101 for a response, and a client whose handshake succeeded has a
\* websocket with an open socket at the other end.
THEOREM UpgradesAreWhole == SessionSpec => []NoHalfUpgrade
<1>1. SessionInv => NoHalfUpgrade
  BY DEF SessionInv
<1> QED
  BY <1>1, SessionInductive, PTL

\* A client that reads a message moves it from the line to what it has got, and a
\* message that is sent comes last.
LEMMA Concats ==
    ASSUME NEW g \in Seq(Nat), NEW l \in Seq(Nat)
    PROVE  /\ g \o l \in Seq(Nat)
           /\ Len(g \o l) = Len(g) + Len(l)
           /\ \A x \in Nat : g \o Append(l, x) = Append(g \o l, x)
           /\ l # <<>> => Append(g, Head(l)) \o Tail(l) = g \o l
<1>1. /\ g \o l \in Seq(Nat)
      /\ Len(g \o l) = Len(g) + Len(l)
      /\ \A i \in 1 .. Len(g) + Len(l) :
            (g \o l)[i] = IF i <= Len(g) THEN g[i] ELSE l[i - Len(g)]
  BY ConcatProperties
<1>2. ASSUME NEW x \in Nat PROVE g \o Append(l, x) = Append(g \o l, x)
  <2>1. <<x>> \in Seq(Nat)
    OBVIOUS
  <2>2. Append(l, x) = l \o <<x>> /\ Append(g \o l, x) = (g \o l) \o <<x>>
    BY <1>1, AppendIsConcat
  <2>3. (g \o l) \o <<x>> = g \o (l \o <<x>>)
    BY <2>1, ConcatAssociative, SMTT(40)
  <2> QED
    BY <2>2, <2>3
<1>3. ASSUME l # <<>> PROVE Append(g, Head(l)) \o Tail(l) = g \o l
  <2> DEFINE h == Head(l)
             t == Tail(l)
  <2>1. h \in Nat /\ t \in Seq(Nat)
    BY <1>3, HeadTailProperties
  <2>2. l = <<h>> \o t
    <3>1. Len(t) = Len(l) - 1 /\ \A i \in 1 .. Len(t) : t[i] = l[i + 1]
      BY <1>3, HeadTailProperties
    <3>2. h = l[1] /\ Len(l) \in Nat \ {0}
      BY <1>3
    <3> DEFINE one == <<h>>
    <3>3. one \in Seq(Nat) /\ Len(one) = 1 /\ one[1] = h
      BY <2>1
    <3> HIDE DEF h, t, one
    <3>4. /\ one \o t \in Seq(Nat)
          /\ Len(one \o t) = Len(one) + Len(t)
          /\ \A i \in 1 .. Len(one) + Len(t) :
                (one \o t)[i] = IF i <= Len(one) THEN one[i] ELSE t[i - Len(one)]
      BY <2>1, <3>3, ConcatProperties
    <3>5. Len(one \o t) = Len(l)
      BY <2>1, <3>1, <3>2, <3>3, <3>4
    <3>6. ASSUME NEW i \in 1 .. Len(l) PROVE (one \o t)[i] = l[i]
      <4>1. CASE i = 1
        BY <2>1, <3>1, <3>2, <3>3, <3>4, <4>1
      <4>2. CASE i # 1
        <5>1. (one \o t)[i] = t[i - 1]
          <6>1. i \in 1 .. Len(one) + Len(t) /\ ~(i <= Len(one))
            BY <3>1, <3>2, <3>3, <4>2
          <6>2. (one \o t)[i] = t[i - Len(one)]
            BY <3>4, <6>1
          <6> QED
            BY <3>3, <6>2
        <5>2. i - 1 \in 1 .. Len(t) /\ (i - 1) + 1 = i
          BY <3>1, <3>2, <4>2
        <5> QED
          BY <3>1, <5>1, <5>2
      <4> QED
        BY <4>1, <4>2
    <3>7. one \o t = l
      BY <3>4, <3>5, <3>6, SeqEqual
    <3> QED
      BY <3>7 DEF one
  <2>3. <<h>> \in Seq(Nat)
    BY <2>1
  <2>4. Append(g, h) = g \o <<h>>
    BY <2>1, AppendIsConcat
  <2>5. (g \o <<h>>) \o t = g \o (<<h>> \o t)
    BY <2>1, <2>3, ConcatAssociative, SMTT(40)
  <2> QED
    BY <2>2, <2>4, <2>5
<1> QED
  BY <1>1, <1>2, <1>3

\* A message that is no older than those before it, or no text, keeps the order.
LEMMA AppendOrdered ==
    ASSUME NEW f \in Seq(Nat), NEW x \in Nat, Ordered(f),
           x = Garbage \/ \A i \in DOMAIN f : f[i] <= x
    PROVE  Ordered(Append(f, x))
<1> DEFINE fx == Append(f, x)
<1>1. /\ fx \in Seq(Nat)
      /\ Len(fx) = Len(f) + 1
      /\ \A i \in 1 .. Len(f) : fx[i] = f[i]
      /\ fx[Len(f) + 1] = x
  BY AppendProperties
<1> HIDE DEF fx
<1>2. DOMAIN fx = 1 .. Len(f) + 1 /\ DOMAIN f = 1 .. Len(f) /\ Len(f) \in Nat
  BY <1>1
<1> SUFFICES ASSUME NEW i \in DOMAIN fx, NEW j \in DOMAIN fx, i < j, fx[j] # Garbage
             PROVE  fx[i] <= fx[j]
  BY DEF Ordered, fx
<1>3. i \in 1 .. Len(f) /\ fx[i] = f[i]
  BY <1>1, <1>2
<1>4. CASE j \in 1 .. Len(f)
  BY <1>1, <1>2, <1>3, <1>4 DEF Ordered
<1>5. CASE j = Len(f) + 1
  BY <1>1, <1>2, <1>3, <1>5
<1> QED
  BY <1>2, <1>4, <1>5

\* What a message at the end changes of the bounds of OrderInv.
LEMMA AppendBounds ==
    ASSUME NEW f \in Seq(Nat), NEW x \in Nat, NEW n \in Nat, x <= n,
           \A i \in DOMAIN f : f[i] <= n
    PROVE  /\ Len(Append(f, x)) = Len(f) + 1
           /\ \A i \in DOMAIN Append(f, x) : Append(f, x)[i] <= n
<1> DEFINE fx == Append(f, x)
<1>1. /\ fx \in Seq(Nat)
      /\ Len(fx) = Len(f) + 1
      /\ \A i \in 1 .. Len(f) : fx[i] = f[i]
      /\ fx[Len(f) + 1] = x
  BY AppendProperties
<1> HIDE DEF fx
<1>2. DOMAIN fx = 1 .. Len(f) + 1 /\ DOMAIN f = 1 .. Len(f) /\ Len(f) \in Nat
  BY <1>1
<1>3. ASSUME NEW i \in DOMAIN fx PROVE fx[i] <= n
  <2>1. CASE i \in 1 .. Len(f)
    BY <1>1, <1>2, <2>1
  <2>2. CASE i = Len(f) + 1
    BY <1>1, <2>2
  <2> QED
    BY <1>2, <2>1, <2>2
<1> QED
  BY <1>1, <1>3 DEF fx

\* The types behind OrderInv.
LEMMA FramesTyped ==
    ASSUME SessionTypeOK, NEW c \in Conns
    PROVE  /\ Frames(c) \in Seq(Nat)
           /\ Len(Frames(c)) \in Nat
           /\ DOMAIN Frames(c) = 1 .. Len(Frames(c))
           /\ \A i \in DOMAIN Frames(c) : Frames(c)[i] \in Nat
           /\ Owed(c) \in Nat
<1>1. got[c] \in Seq(Nat) /\ line[c] \in Seq(Nat)
  BY DEF SessionTypeOK
<1> DEFINE f == Frames(c)
<1>2. f \in Seq(Nat)
  BY <1>1, Concats DEF Frames
<1> HIDE DEF f
<1>3. /\ Len(f) \in Nat
      /\ DOMAIN f = 1 .. Len(f)
      /\ \A i \in DOMAIN f : f[i] \in Nat
  BY <1>2
<1>4. Owed(c) \in Nat
  BY DEF Owed
<1> QED
  BY <1>2, <1>3, <1>4 DEF f

\* A message at the end of the line.
LEMMA SendStep ==
    ASSUME SessionTypeOK, NEW c \in Conns, NEW x \in Nat, NEW n \in Nat,
           line'[c] = Append(line[c], x), got'[c] = got[c],
           Ordered(Frames(c)), x = Garbage \/ UpTo(c, x), UpTo(c, n), x <= n
    PROVE  /\ Ordered(Frames(c)')
           /\ \A i \in DOMAIN Frames(c)' : Frames(c)'[i] <= n
           /\ Len(Frames(c)') = Len(Frames(c)) + 1
<1>1. got[c] \in Seq(Nat) /\ line[c] \in Seq(Nat)
  BY DEF SessionTypeOK
<1>2. got[c] \o Append(line[c], x) = Append(got[c] \o line[c], x)
  BY <1>1, Concats
<1>3. Frames(c)' = Append(Frames(c), x)
  BY <1>2, Zenon DEF Frames
<1>4. Frames(c) \in Seq(Nat)
  BY FramesTyped
<1>5. Ordered(Append(Frames(c), x))
  BY <1>4, AppendOrdered DEF UpTo
<1>6. /\ Len(Append(Frames(c), x)) = Len(Frames(c)) + 1
      /\ \A i \in DOMAIN Append(Frames(c), x) : Append(Frames(c), x)[i] <= n
  BY <1>4, AppendBounds DEF UpTo
<1> QED
  BY <1>3, <1>5, <1>6, Zenon

\* A step that writes and reads nothing keeps the order.
LEMMA QuietStep ==
    ASSUME NEW c \in Conns, InOrder(c),
           Frames(c)' = Frames(c), wr'[c] = wr[c], held'[c] = held[c],
           waiting'[c] = waiting[c], sent'[c] = sent[c],
           ws'[c] \in {"none", "posted", "accepted", "declined"} => wr[c] = "none",
           crashed => crashed'
    PROVE  InOrder(c)'
<1>1. Owed(c)' = Owed(c)
  BY DEF Owed
<1>2. UpTo(c, sent[c])' = UpTo(c, sent[c]) /\ UpTo(c, held[c])' = UpTo(c, held[c])
  BY DEF UpTo
<1> QED
  BY <1>1, <1>2 DEF InOrder

\* The handler of a write keeps the order.
LEMMA AsyncWriteStep ==
    ASSUME SessionInv, NEW c \in Conns, InOrder(c), AsyncWrite(c)
    PROVE  InOrder(c)'
<1>0. SessionTypeOK
  BY DEF SessionInv
<1>1. /\ Frames(c)' = Frames(c) /\ sent'[c] = sent[c] /\ ws'[c] = ws[c]
      /\ wr'[c] = IF waiting[c] # 0 THEN "stuck" ELSE "none"
      /\ held'[c] = waiting[c]
      /\ waiting'[c] = 0
      /\ wr[c] # "none" /\ ~crashed
  BY <1>0 DEF SessionTypeOK, AsyncWrite, Alive, Frames
<1>2. waiting[c] # 0 => waiting[c] = sent[c]
  BY <1>1 DEF InOrder
<1>3. sent[c] \in Nat /\ waiting[c] \in Nat
  BY <1>0 DEF SessionTypeOK
<1>4. held'[c] <= sent'[c]
  BY <1>1, <1>2, <1>3
<1>5. Len(Frames(c)') + Owed(c)' <= sent'[c]
  <2>1. Owed(c)' <= Owed(c) /\ Owed(c)' \in Nat
    BY <1>1 DEF Owed
  <2>2. Len(Frames(c)) + Owed(c) <= sent[c] /\ Len(Frames(c)) \in Nat /\ Owed(c) \in Nat
    BY <1>0, FramesTyped DEF InOrder
  <2>3. Len(Frames(c)') = Len(Frames(c))
    BY <1>1, Zenon
  <2> HIDE DEF InOrder
  <2> QED
    BY <1>1, <1>3, <2>1, <2>2, <2>3
<1>6. Ordered(Frames(c)') /\ UpTo(c, sent[c])'
  BY <1>1 DEF InOrder, UpTo
<1>7. wr'[c] = "stuck" => UpTo(c, held[c])'
  BY <1>1, <1>2, <1>6 DEF UpTo
<1>8. ws'[c] \notin {"none", "posted", "accepted", "declined"}
  BY <1>1 DEF InOrder
<1> QED
  BY <1>1, <1>4, <1>5, <1>6, <1>7, <1>8 DEF InOrder

\* A write that reads its string late keeps the order.
LEMMA UnstickStep ==
    ASSUME SessionInv, NEW c \in Conns, InOrder(c), Unstick(c)
    PROVE  InOrder(c)'
<1>0. SessionTypeOK
  BY DEF SessionInv
<1>1. PICK frame \in {Garbage, held[c], sent[c]} : Send(c, frame)
  BY DEF Unstick
<1>2. /\ line'[c] = Append(line[c], frame) /\ got'[c] = got[c]
      /\ sent'[c] = sent[c] /\ ws'[c] = ws[c] /\ held'[c] = held[c]
      /\ waiting'[c] = waiting[c] /\ wr[c] = "stuck" /\ wr'[c] = "busy"
      /\ ~crashed
  BY <1>0, <1>1 DEF SessionTypeOK, Unstick, Send, Alive
<1>3. /\ frame \in Nat /\ sent[c] \in Nat /\ held[c] \in Nat
      /\ frame <= sent[c] /\ held[c] <= sent[c]
  BY <1>0, <1>1 DEF SessionTypeOK, InOrder, Garbage
<1>4. frame = Garbage \/ UpTo(c, frame)
  BY <1>1, <1>2 DEF InOrder
<1>5. /\ Ordered(Frames(c)')
      /\ \A i \in DOMAIN Frames(c)' : Frames(c)'[i] <= sent[c]
      /\ Len(Frames(c)') = Len(Frames(c)) + 1
  BY <1>0, <1>2, <1>3, <1>4, SendStep DEF InOrder
<1>6. UpTo(c, sent[c])'
  BY <1>2, <1>5 DEF UpTo
<1>7. Len(Frames(c)') + Owed(c)' <= sent'[c]
  <2>1. Owed(c) = Owed(c)' + 1 /\ Owed(c)' \in Nat
    BY <1>2 DEF Owed
  <2>2. Len(Frames(c)) + Owed(c) <= sent[c] /\ Len(Frames(c)) \in Nat
    BY <1>0, FramesTyped DEF InOrder
  <2> HIDE DEF InOrder
  <2> QED
    BY <1>2, <1>3, <1>5, <2>1, <2>2
<1> QED
  BY <1>2, <1>3, <1>5, <1>6, <1>7 DEF InOrder

\* A broadcast keeps the order, whether its text is sent, lost, late or waits.
LEMMA BroadcastStep ==
    ASSUME SessionInv, NEW c \in Conns, InOrder(c), Broadcast(c)
    PROVE  InOrder(c)'
<1> DEFINE n == sent[c] + 1
<1>0. SessionTypeOK
  BY DEF SessionInv
<1>1. /\ sent'[c] = n /\ ws'[c] = ws[c] /\ got'[c] = got[c] /\ ~crashed
      /\ n \in Nat /\ sent[c] \in Nat /\ sent[c] <= n /\ n # Garbage
  BY <1>0 DEF SessionTypeOK, Broadcast, Alive, Garbage
<1>2. UpTo(c, n) /\ held[c] \in Nat /\ held[c] <= n
  <2>1. \A i \in DOMAIN Frames(c) : Frames(c)[i] \in Nat /\ Frames(c)[i] <= sent[c]
    BY <1>0, FramesTyped DEF InOrder, UpTo
  <2>2. ASSUME NEW i \in DOMAIN Frames(c) PROVE Frames(c)[i] <= n
    BY <1>1, <2>1
  <2>3. held[c] \in Nat /\ held[c] <= sent[c]
    BY <1>0 DEF SessionTypeOK, InOrder
  <2> QED
    BY <1>1, <2>2, <2>3 DEF UpTo
<1>3. ASSUME NEW frame \in {n, Garbage}, line'[c] = Append(line[c], frame)
      PROVE  /\ Ordered(Frames(c)') /\ UpTo(c, sent[c])'
             /\ Len(Frames(c)') = Len(Frames(c)) + 1
  <2>1. frame \in Nat /\ frame <= n
    BY <1>1, <1>3 DEF Garbage
  <2>2. Ordered(Frames(c))
    BY DEF InOrder
  <2>3. frame = Garbage \/ UpTo(c, frame)
    BY <1>2, <1>3
  <2> HIDE DEF n
  <2>4. /\ Ordered(Frames(c)')
        /\ \A i \in DOMAIN Frames(c)' : Frames(c)'[i] <= n
        /\ Len(Frames(c)') = Len(Frames(c)) + 1
    BY <1>0, <1>1, <1>2, <1>3, <2>1, <2>2, <2>3, SendStep
  <2> QED
    BY <1>1, <2>4 DEF UpTo
<1>4. ASSUME Frames(c)' = Frames(c)
      PROVE  Ordered(Frames(c)') /\ UpTo(c, sent[c])' /\ Len(Frames(c)') = Len(Frames(c))
  BY <1>1, <1>2, <1>4 DEF InOrder, UpTo
<1>5. /\ Len(Frames(c)) + Owed(c) <= sent[c]
      /\ Len(Frames(c)) \in Nat /\ Owed(c) \in Nat
  BY <1>0, FramesTyped DEF InOrder
<1>6. ASSUME Len(Frames(c)') = Len(Frames(c)), Owed(c)' = Owed(c) \/ Owed(c)' = Owed(c) + 1
      PROVE  Len(Frames(c)') + Owed(c)' <= sent'[c]
  BY <1>1, <1>5, <1>6
<1>7. ASSUME Len(Frames(c)') = Len(Frames(c)) + 1, Owed(c)' = Owed(c)
      PROVE  Len(Frames(c)') + Owed(c)' <= sent'[c]
  BY <1>1, <1>5, <1>7
<1>8. CASE ws[c] = "accepted" /\ WriteEarly(c, sent'[c])
  <2>1. /\ wr[c] = "none" /\ wr'[c] = "none"
        /\ waiting[c] = 0 /\ waiting'[c] = 0
        /\ held'[c] = held[c] /\ crashed' = crashed
    BY <1>8 DEF InOrder, WriteEarly
  <2>2. Owed(c)' = Owed(c)
    BY <2>1 DEF Owed
  <2>3. \/ line' = line
        \/ \E frame \in {n, Garbage} : Send(c, frame)
    BY <1>1, <1>8 DEF WriteEarly
  <2>4. CASE line' = line
    <3>1. Frames(c)' = Frames(c)
      BY <1>1, <2>4 DEF Frames
    <3>2. Ordered(Frames(c)') /\ UpTo(c, sent[c])' /\ Len(Frames(c)') + Owed(c)' <= sent'[c]
      BY <1>4, <1>6, <2>2, <3>1
    <3> QED
      BY <1>1, <1>2, <2>1, <3>2 DEF InOrder
  <2>5. CASE \E frame \in {n, Garbage} : Send(c, frame)
    <3>1. PICK frame \in {n, Garbage} : Send(c, frame)
      BY <2>5
    <3>2. line'[c] = Append(line[c], frame)
      BY <1>0, <3>1 DEF SessionTypeOK, Send
    <3>3. Ordered(Frames(c)') /\ UpTo(c, sent[c])' /\ Len(Frames(c)') + Owed(c)' <= sent'[c]
      BY <1>3, <1>7, <2>2, <3>2
    <3> QED
      BY <1>1, <1>2, <2>1, <3>3 DEF InOrder
  <2> QED
    BY <2>3, <2>4, <2>5
<1>9. CASE ws[c] = "open" /\ Free(c) /\ WriteNow(c, sent'[c])
  <2>1. /\ wr[c] = "none" /\ wr'[c] = "busy"
        /\ waiting[c] = 0 /\ waiting'[c] = 0
        /\ held'[c] = n
        /\ line'[c] = Append(line[c], n)
    BY <1>0, <1>1, <1>9 DEF SessionTypeOK, InOrder, WriteNow, Free, Send
  <2>2. Owed(c)' = Owed(c)
    BY <2>1 DEF Owed
  <2>3. Ordered(Frames(c)') /\ UpTo(c, sent[c])' /\ Len(Frames(c)') + Owed(c)' <= sent'[c]
    BY <1>3, <1>7, <2>1, <2>2
  <2>4. held'[c] <= sent'[c]
    BY <1>1, <2>1
  <2> QED
    BY <1>1, <1>9, <2>1, <2>3, <2>4 DEF InOrder
<1>10. CASE ws[c] = "open" /\ WriteLater(c, sent'[c])
  <2>1. Frames(c)' = Frames(c)
    BY <1>1, <1>10 DEF WriteLater, Frames
  <2>2. Ordered(Frames(c)') /\ UpTo(c, sent[c])' /\ Len(Frames(c)') = Len(Frames(c))
    BY <1>4, <2>1
  <2>3. CASE wr[c] = "none"
    <3>1. /\ wr'[c] = "stuck" /\ held'[c] = n
          /\ waiting[c] = 0 /\ waiting'[c] = 0
      BY <1>0, <1>1, <1>10, <2>3 DEF SessionTypeOK, InOrder, WriteLater
    <3>2. Owed(c)' = Owed(c) + 1
      BY <2>3, <3>1 DEF Owed
    <3>3. Len(Frames(c)') + Owed(c)' <= sent'[c]
      BY <1>6, <2>2, <3>2
    <3>4. UpTo(c, held[c])' /\ held'[c] <= sent'[c]
      BY <1>1, <2>2, <3>1 DEF UpTo
    <3> QED
      BY <1>1, <1>10, <2>2, <3>1, <3>3, <3>4 DEF InOrder
  <2>4. CASE wr[c] # "none"
    <3>1. /\ wr'[c] = wr[c] /\ held'[c] = held[c] /\ waiting'[c] = n
          /\ crashed' = (waiting[c] # 0)
      BY <1>0, <1>1, <1>10, <2>4 DEF SessionTypeOK, WriteLater
    <3>2. Owed(c)' = Owed(c) \/ Owed(c)' = Owed(c) + 1
      BY <1>1, <3>1 DEF Owed, Garbage
    <3>3. Len(Frames(c)') + Owed(c)' <= sent'[c]
      BY <1>6, <2>2, <3>2
    <3>4. wr'[c] = "stuck" => UpTo(c, held[c])'
      BY <1>1, <2>1, <3>1 DEF InOrder, UpTo
    <3>5. held'[c] <= sent'[c]
      BY <1>1, <1>2, <3>1
    <3> QED
      BY <1>1, <1>10, <2>2, <2>4, <3>1, <3>3, <3>4, <3>5 DEF InOrder
  <2> QED
    BY <2>3, <2>4
<1> QED
  BY <1>8, <1>9, <1>10 DEF Broadcast

\* Every step keeps the order of the texts.
LEMMA OrderStep ==
    SessionInv /\ OrderInv /\ [SessionNext]_sessionVars => OrderInv'
<1> SUFFICES ASSUME SessionInv, OrderInv, [SessionNext]_sessionVars, NEW c \in Conns
             PROVE  InOrder(c)'
  BY DEF OrderInv
<1>1. InOrder(c)
  BY DEF OrderInv
<1>2. /\ wr \in [Conns -> Wr]
      /\ held \in [Conns -> Nat]
      /\ waiting \in [Conns -> Nat]
      /\ sent \in [Conns -> Nat]
      /\ line \in [Conns -> Seq(Nat)]
      /\ got \in [Conns -> Seq(Nat)]
      /\ ws \in [Conns -> Ws]
  BY DEF SessionInv, SessionTypeOK
<1>3. ws[c] \in {"none", "posted", "accepted", "declined"} => wr[c] = "none"
  BY <1>1 DEF InOrder
<1>4. ASSUME NEW x \in Conns, ReadFrame(x) PROVE InOrder(c)'
  <2>1. /\ wr'[c] = wr[c] /\ held'[c] = held[c] /\ waiting'[c] = waiting[c]
        /\ sent'[c] = sent[c] /\ ws'[c] = ws[c] /\ crashed' = crashed
    BY <1>4 DEF ReadFrame, writeVars
  <2>2. CASE x = c
    <3>1. /\ line[c] # <<>>
          /\ got'[c] = Append(got[c], Head(line[c]))
          /\ line'[c] = Tail(line[c])
      BY <1>2, <1>4, <2>2 DEF ReadFrame
    <3>2. got[c] \in Seq(Nat) /\ line[c] \in Seq(Nat)
      BY <1>2
    <3>3. Append(got[c], Head(line[c])) \o Tail(line[c]) = got[c] \o line[c]
      BY <3>1, <3>2, Concats
    <3>4. Frames(c)' = Frames(c)
      BY <3>1, <3>3, Zenon DEF Frames
    <3> QED
      BY <1>1, <1>3, <2>1, <3>4, QuietStep
  <2>3. CASE x # c
    <3>1. Frames(c)' = Frames(c)
      BY <1>2, <1>4, <2>3 DEF ReadFrame, Frames
    <3> QED
      BY <1>1, <1>3, <2>1, <3>1, QuietStep
  <2> QED
    BY <2>2, <2>3
<1>5. ASSUME NEW x \in Conns, AsyncWrite(x) \/ Unstick(x) \/ Broadcast(x), x # c
      PROVE  InOrder(c)'
  <2>1. /\ got'[c] = got[c] /\ ws'[c] = ws[c] /\ ~crashed
        /\ line'[c] = line[c] /\ wr'[c] = wr[c] /\ held'[c] = held[c]
        /\ waiting'[c] = waiting[c] /\ sent'[c] = sent[c]
    <3>1. CASE AsyncWrite(x)
      BY <1>2, <1>5, <3>1 DEF AsyncWrite, Alive
    <3>2. CASE Unstick(x)
      BY <1>2, <1>5, <3>2 DEF Unstick, Send, Alive
    <3>3. CASE Broadcast(x)
      <4>1. got'[c] = got[c] /\ ws'[c] = ws[c] /\ ~crashed /\ sent'[c] = sent[c]
        BY <1>2, <1>5, <3>3 DEF Broadcast, Alive
      <4>2. CASE WriteEarly(x, sent'[x])
        BY <1>2, <1>5, <4>1, <4>2 DEF WriteEarly, Send
      <4>3. CASE WriteNow(x, sent'[x])
        BY <1>2, <1>5, <4>1, <4>3 DEF WriteNow, Send
      <4>4. CASE WriteLater(x, sent'[x])
        BY <1>2, <1>5, <4>1, <4>4 DEF WriteLater
      <4> QED
        BY <3>3, <4>2, <4>3, <4>4 DEF Broadcast
    <3> QED
      BY <1>5, <3>1, <3>2, <3>3
  <2>2. Frames(c)' = Frames(c)
    BY <2>1, Zenon DEF Frames
  <2> QED
    BY <1>1, <1>3, <2>1, <2>2, QuietStep
<1>6. CASE UNCHANGED <<writeVars, line, got, crashed>>
  <2>1. ws'[c] \in {"none", "posted", "accepted", "declined"} => wr[c] = "none"
    <3>1. CASE ws'[c] = ws[c]
      BY <1>3, <3>1
    <3>2. ASSUME NEW x \in Conns, AsyncRun(x) \/ AsyncAccept(x) \/ AsyncRead(x),
                 ws'[c] # ws[c],
                 ws'[c] \in {"none", "posted", "accepted", "declined"}
          PROVE  ws[c] \in {"none", "posted", "accepted", "declined"}
      BY <1>2, <3>2 DEF AsyncRun, AsyncAccept, AsyncRead
    <3>3. ASSUME NEW x \in Conns, Upgrades(x), ws'[c] # ws[c] PROVE ws[c] = "none"
      <4>1. x = c /\ io[c] = "routed"
        BY <1>2, <3>3 DEF Upgrades, RunWebsocket
      <4>2. ~running[c]
        BY <4>1 DEF SessionInv, OwnSocket
      <4> QED
        BY <4>2 DEF SessionInv, StreamInv
    <3>4. \/ ws' = ws
          \/ \E x \in Conns : Upgrades(x) \/ AsyncRun(x) \/ AsyncAccept(x) \/ AsyncRead(x)
      BY DEF SessionNext, sessionVars, streamVars, Accepts, Reads, Writes, Routes, Expires,
             Serves, Stream, AsyncWrite, Unstick, Broadcast, Connect, WriteRequest,
             ClientReads, ReadResponse, Handshake, ReadError, ReadFrame,
             HandshakeTimeout, Close, Leave
    <3> QED
      BY <1>3, <3>1, <3>2, <3>3, <3>4
  <2>2. Frames(c)' = Frames(c)
    BY <1>6, Zenon DEF Frames
  <2>3. /\ wr'[c] = wr[c] /\ held'[c] = held[c] /\ waiting'[c] = waiting[c]
        /\ sent'[c] = sent[c] /\ crashed' = crashed
    BY <1>6 DEF writeVars
  <2> QED
    BY <1>1, <2>1, <2>2, <2>3, QuietStep
<1>7. \/ UNCHANGED <<writeVars, line, got, crashed>>
      \/ \E x \in Conns : AsyncWrite(x) \/ Unstick(x) \/ ReadFrame(x) \/ Broadcast(x)
  BY DEF SessionNext, sessionVars, streamVars, Accepts, Reads, Writes, Routes, Upgrades,
         Expires, Serves, Stream, AsyncRun, AsyncAccept, AsyncRead, Connect,
         WriteRequest, ClientReads, ReadResponse, Handshake, ReadError,
         HandshakeTimeout, Close, Leave
<1> QED
  BY <1>1, <1>4, <1>5, <1>6, <1>7, AsyncWriteStep, UnstickStep, BroadcastStep

\* However many broadcasts overlap, find the socket full or are sent in fragments
\* whose string is gone: until the process aborts, no client reads a text after a
\* later one, nor more messages than there were broadcasts.
THEOREM TextsStayInOrder == SessionSpec => []TextsInOrder
<1>1. ASSUME SessionInit, NEW c \in Conns PROVE InOrder(c)
  <2>1. /\ sent[c] = 0 /\ got[c] = <<>> /\ line[c] = <<>> /\ held[c] = 0
        /\ wr[c] = "none" /\ waiting[c] = 0
    BY <1>1 DEF SessionInit
  <2>2. <<>> \o <<>> = <<>> /\ Len(<<>>) = 0 /\ DOMAIN <<>> = {}
    OBVIOUS
  <2>3. Len(Frames(c)) = 0 /\ DOMAIN Frames(c) = {}
    BY <2>1, <2>2, Zenon DEF Frames
  <2>4. Ordered(Frames(c)) /\ UpTo(c, sent[c])
    BY <2>3, Zenon DEF Ordered, UpTo
  <2>5. Owed(c) = 0
    BY <2>1 DEF Owed
  <2> QED
    BY <2>1, <2>3, <2>4, <2>5 DEF InOrder
<1>2. SessionInit => OrderInv
  BY <1>1 DEF OrderInv
<1>3. SessionSpec => []OrderInv
  BY <1>2, SessionInductive, OrderStep, PTL DEF SessionSpec
<1>4. SessionInv /\ OrderInv => TextsInOrder
  <2> SUFFICES ASSUME SessionInv, OrderInv, NEW c \in Conns
               PROVE  Ordered(Frames(c)) /\ Len(Frames(c)) <= sent[c]
    BY DEF TextsInOrder
  <2>1. Len(Frames(c)) \in Nat /\ Owed(c) \in Nat /\ sent[c] \in Nat
    BY FramesTyped DEF SessionInv, SessionTypeOK
  <2>2. Ordered(Frames(c)) /\ Len(Frames(c)) + Owed(c) <= sent[c]
    BY DEF OrderInv, InOrder
  <2> QED
    BY <2>1, <2>2
<1> QED
  BY <1>3, <1>4, SessionInductive, PTL
=============================================================================
