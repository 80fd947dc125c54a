------------------------ MODULE HttpConnectionProofs ------------------------
(***************************************************************************)
(* Theorems about HttpConnection, for any number of connections.            *)
(***************************************************************************)
EXTENDS HttpConnection, TLAPS

\* The router answers with a number.
LEMMA StatusType ==
    \A answer \in Answers : answer.upgrade \in BOOLEAN /\ answer.status \in Nat
<1> SUFFICES ASSUME NEW req \in Request, NEW world \in World
             PROVE  req.upgrade \in BOOLEAN /\ RouterRun(req, world) \in Nat
  BY DEF Answers
<1>1. req.route \in Route /\ req.upgrade \in BOOLEAN
  BY DEF Request
<1>2. ASSUME NEW methods, NEW next \in Nat PROVE WithMethods(methods, req, next) \in Nat
  BY DEF WithMethods
<1>3. ASSUME NEW next \in Nat
      PROVE  /\ WithLibvirt(world, next) \in Nat
             /\ WithLibvirtDomain(world, next) \in Nat
             /\ View(world, next) \in Nat
  BY DEF WithUser, WithLibvirt, WithLibvirtDomain, View
<1> HIDE DEF WithMethods, WithLibvirt, WithLibvirtDomain, View
<1>4. RouterRun(req, world) \in Nat
  BY <1>1, <1>2, <1>3 DEF RouterRun, Route
<1> QED
  BY <1>1, <1>4

\* Every step keeps the type invariant.
LEMMA TypeStep == TypeOK /\ [Next]_vars => TypeOK'
<1> SUFFICES ASSUME TypeOK, [Next]_vars PROVE TypeOK'
  OBVIOUS
<1> USE DEF TypeOK, Io, Timer, Socket, ioVars, requestVars, callVars
<1>1. ASSUME NEW c \in Conns, Accept(c) \/ CheckDeadline(c) PROVE TypeOK'
  BY <1>1 DEF Accept, CheckDeadline
<1>2. ASSUME NEW c \in Conns, ReadCompletes(c) \/ WriteCompletes(c) \/ Expire(c)
      PROVE  TypeOK'
  BY <1>2, ZenonT(60) DEF ReadCompletes, WriteCompletes, Expire
<1>3. ASSUME NEW c \in Conns, ReadFails(c) \/ WriteFails(c) \/ WriteResponse(c)
      PROVE  TypeOK'
  BY <1>3 DEF ReadFails, WriteFails, WriteResponse
<1>4. ASSUME NEW c \in Conns, RunRoute(c) PROVE TypeOK'
  <2>1. PICK answer \in Answers :
           /\ upgrade' = [upgrade EXCEPT ![c] = answer.upgrade]
           /\ status' = [status EXCEPT ![c] = answer.status]
           /\ websock_' = [websock_ EXCEPT ![c] = answer.status = 101]
           /\ socket_' = [socket_ EXCEPT ![c] =
                             IF answer.status = 101 THEN Upgrade(c) ELSE @]
    BY <1>4 DEF RunRoute
  <2>2. answer.status \in Nat /\ answer.upgrade \in BOOLEAN
    BY StatusType
  <2>3. Upgrade(c) \in Socket
    BY DEF Upgrade
  <2> HIDE DEF Socket
  <2>4. upgrade' \in [Conns -> BOOLEAN] /\ status' \in [Conns -> Nat]
    BY <2>1, <2>2
  <2>5. websock_' \in [Conns -> BOOLEAN] /\ socket_' \in [Conns -> Socket]
    BY <2>1, <2>3
  <2> QED
    BY <1>4, <2>4, <2>5 DEF RunRoute
<1>5. ASSUME NEW c \in Conns, RunWebsocket(c) PROVE TypeOK'
  BY <1>5 DEF RunWebsocket, Cancelled
<1>6. ASSUME NEW c \in Conns, WriteDone(c) PROVE TypeOK'
  BY <1>6 DEF WriteDone, Cancelled
<1>7. ASSUME NEW c \in Conns, DeadlineCloses(c) PROVE TypeOK'
  BY <1>7 DEF DeadlineCloses, Aborted
<1>8. ASSUME NEW c \in Conns, DeadlineAborted(c) PROVE TypeOK'
  BY <1>8 DEF DeadlineAborted
<1>9. CASE UNCHANGED vars
  BY <1>9 DEF vars
<1> QED
  BY <1>1, <1>2, <1>3, <1>4, <1>5, <1>6, <1>7, <1>8, <1>9 DEF Next, Strand

\* Every step keeps the inductive invariant.
LEMMA IndStep == IndInv /\ [Next]_vars => IndInv'
<1> SUFFICES ASSUME IndInv, [Next]_vars PROVE IndInv'
  OBVIOUS
<1>0. TypeOK'
  BY TypeStep DEF IndInv
<1> USE DEF IndInv, TypeOK, ioVars, requestVars, callVars
<1>1. ASSUME NEW c \in Conns, Accept(c) \/ CheckDeadline(c) PROVE IndInv'
  BY <1>0, <1>1 DEF Accept, CheckDeadline, TimerInv, CloseInv, EndInv, SocketInv
<1>2. ASSUME NEW c \in Conns, ReadCompletes(c) \/ WriteCompletes(c) PROVE IndInv'
  BY <1>0, <1>2
  DEF ReadCompletes, WriteCompletes, TimerInv, CloseInv, EndInv, SocketInv
<1>3. ASSUME NEW c \in Conns, Expire(c) PROVE IndInv'
  BY <1>0, <1>3 DEF Expire, TimerInv, CloseInv, EndInv, SocketInv
<1>4. ASSUME NEW c \in Conns, ReadFails(c) \/ WriteFails(c) PROVE IndInv'
  BY <1>0, <1>4 DEF ReadFails, WriteFails, TimerInv, CloseInv, EndInv, SocketInv
<1>5. ASSUME NEW c \in Conns, WriteResponse(c) PROVE IndInv'
  BY <1>0, <1>5 DEF WriteResponse, TimerInv, CloseInv, EndInv, SocketInv
<1>6. ASSUME NEW c \in Conns, RunRoute(c) PROVE IndInv'
  <2>1. TimerInv' /\ CloseInv' /\ EndInv'
    BY <1>6 DEF RunRoute, TimerInv, CloseInv, EndInv
  <2>2. SocketInv'
    <3> HIDE DEF IndInv, TypeOK
    <3>1. PICK answer \in Answers :
             /\ upgrade' = [upgrade EXCEPT ![c] = answer.upgrade]
             /\ status' = [status EXCEPT ![c] = answer.status]
             /\ websock_' = [websock_ EXCEPT ![c] = answer.status = 101]
             /\ socket_' = [socket_ EXCEPT ![c] =
                               IF answer.status = 101 THEN Upgrade(c) ELSE @]
      BY <1>6 DEF RunRoute
    <3>2. Upgrade(c) \in {"ws", "closed"}
      BY DEF Upgrade
    <3> QED
      BY <3>1, <3>2 DEF SocketInv, IndInv, TypeOK
  <2> QED
    BY <1>0, <2>1, <2>2
<1>7. ASSUME NEW c \in Conns, RunWebsocket(c) PROVE IndInv'
  BY <1>0, <1>7
  DEF RunWebsocket, Cancelled, TimerInv, CloseInv, EndInv, SocketInv
<1>8. ASSUME NEW c \in Conns, WriteDone(c) PROVE IndInv'
  BY <1>0, <1>8 DEF WriteDone, Cancelled, TimerInv, CloseInv, EndInv, SocketInv
<1>9. ASSUME NEW c \in Conns, DeadlineCloses(c) PROVE IndInv'
  <2>1. \A x \in Conns : (io'[x] = "done" <=> io[x] = "done")
    BY <1>9 DEF DeadlineCloses, Aborted
  <2>2. TimerInv' /\ CloseInv' /\ EndInv'
    BY <1>9, <2>1 DEF DeadlineCloses, TimerInv, CloseInv, EndInv
  <2>3. SocketInv'
    BY <1>9 DEF DeadlineCloses, SocketInv
  <2> QED
    BY <1>0, <2>2, <2>3
<1>10. ASSUME NEW c \in Conns, DeadlineAborted(c) PROVE IndInv'
  BY <1>0, <1>10 DEF DeadlineAborted, TimerInv, CloseInv, EndInv, SocketInv
<1>11. CASE UNCHANGED vars
  BY <1>0, <1>11 DEF vars, TimerInv, CloseInv, EndInv, SocketInv
<1> QED
  BY <1>1, <1>2, <1>3, <1>4, <1>5, <1>6, <1>7, <1>8, <1>9, <1>10, <1>11
  DEF Next, Strand

\* The inductive invariant holds in every reachable state.
LEMMA Inductive == Spec => []IndInv
<1>1. ASSUME Init PROVE IndInv
  <2>1. TypeOK
    BY <1>1 DEF Init, TypeOK, Io, Timer, Socket
  <2>2. TimerInv /\ EndInv /\ SocketInv
    BY <1>1 DEF Init, TimerInv, EndInv, SocketInv
  <2>3. ASSUME NEW c \in Conns
        PROVE  /\ written[c] => io[c] = "done"
               /\ closes[c] = (IF written[c] THEN 1 ELSE 0)
                             + (IF timer[c] = "done" /\ expired[c] THEN 1 ELSE 0)
    <3>1. ~written[c] /\ ~expired[c] /\ closes[c] = 0
      BY <1>1 DEF Init
    <3> QED
      BY <3>1
  <2> QED
    BY <2>1, <2>2, <2>3 DEF IndInv, CloseInv
<1> QED
  BY <1>1, IndStep, PTL DEF Spec

\* Type correctness of the connections.
THEOREM TypeCorrect == Spec => []TypeOK
<1>1. IndInv => TypeOK
  BY DEF IndInv
<1> QED
  BY <1>1, Inductive, PTL

\* on_close_ is called for a complete response and for an expired deadline only,
\* however the write, the deadline and start() race.
THEOREM ClosesAreAccounted == Spec => []CloseAccounted
<1>1. ASSUME IndInv, NEW c \in Conns
      PROVE  closes[c] <= (IF written[c] THEN 1 ELSE 0) + (IF expired[c] THEN 1 ELSE 0)
  <2>1. closes[c] = (IF written[c] THEN 1 ELSE 0)
                    + (IF timer[c] = "done" /\ expired[c] THEN 1 ELSE 0)
    BY <1>1 DEF IndInv, CloseInv
  <2>2. CASE expired[c]
    BY <2>1, <2>2
  <2>3. CASE ~expired[c]
    BY <2>1, <2>3
  <2> QED
    BY <2>2, <2>3
<1>2. IndInv => CloseAccounted
  BY <1>1 DEF CloseAccounted
<1> QED
  BY <1>2, Inductive, PTL

\* No connection is destroyed without an answer, a websocket, an error report
\* or a deadline.
THEOREM NothingIsDropped == Spec => []NoSilentDrop
<1>1. IndInv => NoSilentDrop
  BY DEF IndInv, EndInv, NoSilentDrop, Released
<1> QED
  BY <1>1, Inductive, PTL

\* The deadline never closes the socket of an upgraded connection.
THEOREM UpgradedIsKept == Spec => UpgradeOutlivesDeadline
<1>1. ASSUME IndInv, [Next]_vars, NEW c \in Conns, websock_[c],
             socket_[c] # "closed"
      PROVE  socket_'[c] # "closed"
  <2> USE DEF IndInv, TypeOK, ioVars, requestVars, callVars
  <2>1. ASSUME NEW x \in Conns, RunRoute(x) PROVE socket_'[c] # "closed"
    <3>1. PICK answer \in Answers :
             socket_' = [socket_ EXCEPT ![x] =
                            IF answer.status = 101 THEN Upgrade(x) ELSE @]
      BY <2>1 DEF RunRoute
    <3> QED
      BY <1>1, <3>1 DEF Upgrade
  <2>2. ASSUME NEW x \in Conns, DeadlineCloses(x) PROVE socket_'[c] # "closed"
    BY <1>1, <2>2 DEF DeadlineCloses, SocketInv
  <2>3. ASSUME NEW x \in Conns, WriteDone(x) PROVE socket_'[c] # "closed"
    BY <1>1, <2>3 DEF WriteDone
  <2>4. ASSUME NEW x \in Conns, \/ Accept(x) \/ CheckDeadline(x) \/ ReadFails(x)
                                \/ RunWebsocket(x) \/ WriteResponse(x)
                                \/ WriteFails(x) \/ DeadlineAborted(x)
                                \/ ReadCompletes(x) \/ WriteCompletes(x) \/ Expire(x)
        PROVE  socket_'[c] # "closed"
    BY <1>1, <2>4 DEF Accept, CheckDeadline, ReadFails, RunWebsocket, WriteResponse,
                      WriteFails, DeadlineAborted, ReadCompletes, WriteCompletes,
                      Expire
  <2> QED
    BY <1>1, <2>1, <2>2, <2>3, <2>4 DEF Next, Strand, vars
<1>2. IndInv /\ [Next]_vars =>
         [\A c \in Conns :
             websock_[c] /\ socket_[c] # "closed" => socket_'[c] # "closed"]_vars
  BY <1>1
<1> QED
  BY <1>2, Inductive, PTL DEF Spec, UpgradeOutlivesDeadline
=============================================================================
