------------------------- MODULE SubscriptionsProofs -------------------------
(***************************************************************************)
(* Theorems about Subscriptions, for every set of users and websockets, any *)
(* number of threads and any number of libvirt connections.                 *)
(***************************************************************************)
EXTENDS Subscriptions, FiniteSetTheorems, TLAPS

\* UserOf maps websockets to users.
LEMMA UserOfType == \A s \in Sockets : UserOf[s] \in Users
BY SocketsAssumption

----------------------------------------------------------------------------
(***************************************************************************)
(* Type correctness, one step per action.                                   *)
(***************************************************************************)
\* Every action of Subscriptions keeps the variables in their types.
LEMMA TypeStep == TypeOK /\ [Next]_vars => TypeOK'
<1> SUFFICES ASSUME TypeOK, [Next]_vars PROVE TypeOK'
  OBVIOUS
<1> USE UserOfType DEF TypeOK, Keys, WsState, MidHandler, poolVars, eventVars,
                       connVars, loopVars, Disconnected
<1>1. ASSUME NEW u \in Users, ResetConnection(u) PROVE TypeOK'
  BY <1>1 DEF ResetConnection
<1>2. ASSUME NEW u \in Users, Connected(u) PROVE TypeOK'
  BY <1>2 DEF Connected
<1>3. ASSUME NEW u \in Users, ConnectFails(u) PROVE TypeOK'
  BY <1>3 DEF ConnectFails
<1>4. ASSUME NEW u \in Users, LinkLost(u) PROVE TypeOK'
  BY <1>4 DEF LinkLost
<1>5. ASSUME NEW s \in Sockets, Websocket(s) PROVE TypeOK'
  BY <1>5 DEF Websocket
<1>5a. ASSUME NEW s \in Sockets, CaptureUser(s) PROVE TypeOK'
  BY <1>5a DEF CaptureUser, User
<1>5b. ASSUME NEW s \in Sockets, AddSocket(s) PROVE TypeOK'
  BY <1>5b DEF AddSocket, User
<1>6. ASSUME NEW s \in Sockets, AcceptFails(s) PROVE TypeOK'
  BY <1>6 DEF AcceptFails
<1>7. ASSUME NEW s \in Sockets, OnHandshake(s) PROVE TypeOK'
  BY <1>7 DEF OnHandshake
<1>8. ASSUME NEW s \in Sockets, AddEvents(s) PROVE TypeOK'
  BY <1>8 DEF AddEvents, User
<1>8a. ASSUME NEW s \in Sockets, Register(s) PROVE TypeOK'
  BY <1>8a DEF Register
<1>9. ASSUME NEW s \in Sockets, RegisterFails(s) PROVE TypeOK'
  BY <1>9 DEF RegisterFails
<1>10. ASSUME NEW s \in Sockets, SetEvent(s) PROVE TypeOK'
  BY <1>10 DEF SetEvent, User
<1>11. ASSUME NEW s \in Sockets, ReadFails(s) PROVE TypeOK'
  BY <1>11 DEF ReadFails
<1>12. ASSUME NEW s \in Sockets, OnClose(s) PROVE TypeOK'
  BY <1>12 DEF OnClose
<1>12a. ASSUME NEW s \in Sockets, OnCloseMisses(s) PROVE TypeOK'
  BY <1>12a DEF OnCloseMisses
<1>13. ASSUME NEW s \in Sockets, CheckEmpty(s) PROVE TypeOK'
  BY <1>13 DEF CheckEmpty
<1>14. ASSUME NEW s \in Sockets, RemoveEvents(s) PROVE TypeOK'
  BY <1>14, SMTT(40) DEF RemoveEvents, User
<1>15. ASSUME NEW s \in Sockets, EraseEntry(s) PROVE TypeOK'
  BY <1>15 DEF EraseEntry
<1>16. ASSUME NEW u \in Users, NEW target \in BOOLEAN, DomainEvent(u, target)
       PROVE  TypeOK'
  BY <1>16 DEF DomainEvent, Registered
<1>17. ASSUME NEW s \in Sockets, EnterCallback(s) PROVE TypeOK'
  <2>1. {c.ev : c \in {d \in callbacks : d.ev = s}} \subseteq Sockets
    OBVIOUS
  <2>2. dispatch' \in [todo : SUBSET Sockets, cur : SUBSET Sockets,
                       expect : SUBSET Sockets, target : BOOLEAN]
    BY <1>17, <2>1 DEF EnterCallback
  <2>3. UNCHANGED <<ws, bucket, map_, entries, lifecycle, holder, it, conn, connecting,
                    opened, nextId, callbacks, callback_id_, topic, got, fatal>>
    BY <1>17 DEF EnterCallback
  <2> QED
    BY <2>2, <2>3
<1>18. ASSUME NEW s \in Sockets, Broadcast(s) PROVE TypeOK'
  <2>1. dispatch' \in [todo : SUBSET Sockets, cur : SUBSET Sockets,
                       expect : SUBSET Sockets, target : BOOLEAN]
    BY <1>18 DEF Broadcast
  <2>2. got' \in [Sockets -> Nat]
    BY <1>18 DEF Broadcast
  <2>3. UNCHANGED <<ws, bucket, map_, entries, lifecycle, holder, it, conn, connecting,
                    opened, nextId, callbacks, callback_id_, topic, fatal>>
    BY <1>18 DEF Broadcast
  <2> QED
    BY <2>1, <2>2, <2>3
<1>19. ASSUME NEW s \in Sockets, BroadcastFreed(s) PROVE TypeOK'
  BY <1>19 DEF BroadcastFreed
<1>20. CASE UNCHANGED vars
  BY <1>20 DEF vars
<1> QED
  BY <1>1, <1>2, <1>3, <1>4, <1>5, <1>5a, <1>5b, <1>6, <1>7, <1>8, <1>8a, <1>9,
     <1>10, <1>11, <1>12, <1>12a, <1>13, <1>14, <1>15, <1>16, <1>17, <1>18, <1>19,
     <1>20
  DEF Next, Handler, EventThread, Link

\* The initial state is well typed.
LEMMA InitTypeOK == Init => TypeOK
<1> SUFFICES ASSUME Init PROVE TypeOK
  OBVIOUS
<1>1. dispatch \in [todo : SUBSET Sockets, cur : SUBSET Sockets,
                    expect : SUBSET Sockets, target : BOOLEAN]
  BY DEF Init
<1>2. Disconnected \in [ptr : Nat, closed : BOOLEAN, named : BOOLEAN]
  BY DEF Disconnected
<1>3. /\ lifecycle \in [Keys -> SUBSET Sockets]
      /\ map_ \in [Keys -> SUBSET Sockets]
      /\ bucket \in [Sockets -> Keys]
      /\ topic \in [Sockets -> Keys]
      /\ it \in Keys
      /\ ws \in [Sockets -> WsState]
  BY DEF Init, Keys, WsState
<1> QED
  BY <1>1, <1>2, <1>3 DEF Init, TypeOK

\* Type correctness of the subscriptions of webvirtd: every reachable state is
\* well typed, whatever the threads do.
THEOREM TypeCorrect == Spec => []TypeOK
BY InitTypeOK, TypeStep, PTL DEF Spec
----------------------------------------------------------------------------
(***************************************************************************)
(* The inductive invariant.                                                 *)
(***************************************************************************)
\* What the invariant speaks of; the event thread's progress is not part of it.
core == <<ws, bucket, map_, eventVars, conn, opened>>

\* A step that opens no first connection, stores or removes no event, and takes
\* no websocket out of the ones that want events leaves OrphanInv true.
LEMMA OrphanKept ==
    ASSUME OrphanInv,
           \A u \in Users : conn'[u].ptr = 1 => conn[u].ptr = 1,
           lifecycle' = lifecycle,
           \A s \in Sockets : ws[s] \in Wanting => ws'[s] \in Wanting
    PROVE  OrphanInv'
<1> SUFFICES ASSUME NEW u \in Users, conn'[u].ptr = 1, lifecycle'[u] # {}
             PROVE  \E s \in Sockets : UserOf[s] = u /\ ws'[s] \in Wanting
  BY DEF OrphanInv
<1>1. PICK s \in Sockets : UserOf[s] = u /\ ws[s] \in Wanting
  BY DEF OrphanInv
<1> QED
  BY <1>1

\* Every step of Subscriptions preserves the inductive invariant.
LEMMA IndStep == IndInv /\ [Next]_vars => IndInv'
<1> SUFFICES ASSUME IndInv, [Next]_vars PROVE IndInv'
  OBVIOUS
<1> USE SocketsAssumption, UserOfType
    DEF IndInv, TypeOK, Keys, WsState, MidHandler, Unborn, Pooled,
        poolVars, eventVars, connVars, loopVars
<1>0. TypeOK'
  BY TypeStep
<1>1. ASSUME NEW u \in Users, ResetConnection(u) PROVE IndInv'
  <2>1. LockInv' /\ PoolInv' /\ EntryInv'
    BY <1>1 DEF ResetConnection, LockInv, PoolInv, EntryInv
  <2>b. BucketInv'
    BY <1>1 DEF ResetConnection, Disconnected, BucketInv
  <2>2. LinkInv'
    BY <1>1 DEF ResetConnection, Disconnected, LinkInv
  <2>3. CallbackInv'
    BY <1>1 DEF ResetConnection, Disconnected, CallbackInv, Alive
  <2>4. OrphanInv'
    BY <1>1, OrphanKept DEF ResetConnection, Disconnected
  <2> QED
    BY <1>0, <2>1, <2>b, <2>2, <2>3, <2>4
<1>2. ASSUME NEW u \in Users, Connected(u) PROVE IndInv'
  <2>1. LockInv' /\ PoolInv' /\ EntryInv'
    BY <1>2 DEF Connected, LockInv, PoolInv, EntryInv
  <2>b. BucketInv'
    <3>1. ASSUME NEW s \in Sockets, UserOf[s] = u, conn'[u].ptr = 1
          PROVE  ws[s] = "none" /\ \A k \in Keys : s \notin map_[k]
      <4>1. opened[u] = 0
        <5>1. conn'[u] = [ptr |-> opened[u] + 1, closed |-> FALSE, named |-> TRUE]
          BY <1>2 DEF Connected
        <5>2. opened[u] \in Nat /\ conn'[u].ptr = opened[u] + 1
          BY <5>1
        <5> QED
          BY <3>1, <5>2
      <4> QED
        BY <3>1, <4>1 DEF LinkInv, PoolInv
    <3>2. UNCHANGED <<ws, bucket, map_>> /\ \A v \in Users \ {u} : conn'[v] = conn[v]
      BY <1>2 DEF Connected
    <3> QED
      BY <3>1, <3>2 DEF BucketInv
  <2>2. LinkInv'
    BY <1>2 DEF Connected, LinkInv
  <2>3. CallbackInv'
    BY <1>2 DEF Connected, CallbackInv, Alive
  \* The first connection: no websocket of u has been requested yet.
  <2>4. OrphanInv'
    <3>1. ASSUME conn'[u].ptr = 1 PROVE lifecycle[u] = {}
      <4>1. conn'[u] = [ptr |-> opened[u] + 1, closed |-> FALSE, named |-> TRUE]
        BY <1>2 DEF Connected
      <4>2. opened[u] \in Nat /\ conn'[u].ptr = opened[u] + 1
        BY <4>1
      <4>3. opened[u] = 0
        BY <3>1, <4>2
      <4>4. \A s \in Sockets : UserOf[s] = u => ws[s] = "none"
        BY <4>3 DEF LinkInv
      <4> QED
        BY <4>4 DEF EntryInv
    <3>2. \A v \in Users \ {u} : conn'[v] = conn[v]
      BY <1>2 DEF Connected
    <3>3. lifecycle' = lifecycle /\ ws' = ws
      BY <1>2 DEF Connected
    <3> QED
      BY <3>1, <3>2, <3>3 DEF OrphanInv
  <2> QED
    BY <1>0, <2>1, <2>b, <2>2, <2>3, <2>4
<1>3. ASSUME NEW u \in Users, LinkLost(u) PROVE IndInv'
  <2>1. LockInv' /\ PoolInv' /\ EntryInv'
    BY <1>3 DEF LinkLost, LockInv, PoolInv, EntryInv
  <2>b. BucketInv'
    BY <1>3 DEF LinkLost, BucketInv
  <2>2. LinkInv'
    BY <1>3 DEF LinkLost, LinkInv
  <2>3. CallbackInv'
    BY <1>3 DEF LinkLost, CallbackInv, Alive
  <2>4. OrphanInv'
    BY <1>3, OrphanKept DEF LinkLost
  <2> QED
    BY <1>0, <2>1, <2>b, <2>2, <2>3, <2>4
<1>4. ASSUME NEW s \in Sockets, Websocket(s) PROVE IndInv'
  <2>1. LockInv' /\ LinkInv'
    BY <1>4 DEF Websocket, LockInv, LinkInv
  <2>2. PoolInv'
    BY <1>4 DEF Websocket, PoolInv
  <2>b. BucketInv'
    BY <1>4 DEF Websocket, BucketInv
  <2>3. EntryInv'
    <3>1. ws[s] = "none" /\ ws' = [ws EXCEPT ![s] = "route"]
      BY <1>4 DEF Websocket
    <3>2. UNCHANGED <<entries, lifecycle, it>>
      BY <1>4 DEF Websocket
    <3>3. \A t \in Sockets : ws[t] \notin Unborn \cup {"publish"} => ws'[t] = ws[t]
      BY <3>1
    <3> HIDE DEF IndInv, TypeOK
    <3>4. EntryInv
      BY DEF IndInv
    <3>5. lifecycle \in [Keys -> SUBSET Sockets]
      BY DEF IndInv, TypeOK
    <3> QED
      BY <3>2, <3>3, <3>4, <3>5 DEF EntryInv
  <2>4. CallbackInv'
    BY <1>4 DEF Websocket, CallbackInv, Alive
  <2>5. OrphanInv'
    BY <1>4, OrphanKept DEF Websocket, Wanting
  <2> QED
    BY <1>0, <2>1, <2>2, <2>b, <2>3, <2>4, <2>5
<1>4a. ASSUME NEW s \in Sockets, CaptureUser(s) PROVE IndInv'
  <2>1. LockInv' /\ LinkInv'
    BY <1>4a DEF CaptureUser, LockInv, LinkInv
  <2>2. PoolInv'
    BY <1>4a DEF CaptureUser, PoolInv
  \* A connection in place knows its user.
  <2>b. BucketInv'
    BY <1>4a DEF CaptureUser, BucketInv, LinkInv, User
  <2>3. EntryInv'
    BY <1>4a DEF CaptureUser, EntryInv
  <2>4. CallbackInv'
    BY <1>4a DEF CaptureUser, CallbackInv, Alive
  <2>5. OrphanInv'
    BY <1>4a, OrphanKept DEF CaptureUser, Wanting
  <2> QED
    BY <1>0, <2>1, <2>2, <2>b, <2>3, <2>4, <2>5
<1>4b. ASSUME NEW s \in Sockets, AddSocket(s) PROVE IndInv'
  <2> DEFINE k == User(UserOf[s])
  <2>a. k \in {UserOf[s], NoUser} /\ k \in Keys
    BY DEF User
  <2>0. PICK w \in {"added", "plain"} : ws' = [ws EXCEPT ![s] = w]
    BY <1>4b DEF AddSocket
  <2>c. ws[s] = "captured" /\ map_' = [map_ EXCEPT ![k] = @ \cup {s}]
    BY <1>4b DEF AddSocket
  <2>d. /\ ws'[s] \in Pooled /\ \A t \in Sockets \ {s} : ws'[t] = ws[t]
        /\ s \in map_'[k] /\ \A j \in Keys : map_'[j] = map_[j] \/ j = k
        /\ \A j \in Keys : \A t \in Sockets \ {s} : t \in map_'[j] <=> t \in map_[j]
    BY <2>0, <2>a, <2>c
  <2>e. \A j \in Keys : s \notin map_[j]
    BY <2>c DEF PoolInv
  <2>1. LockInv' /\ LinkInv'
    BY <1>4b, <2>0 DEF AddSocket, LockInv, LinkInv
  <2>2. PoolInv'
    <3>1. \A j \in Keys : s \in map_'[j] => j = k
      BY <2>d, <2>e
    <3> HIDE DEF k, IndInv
    <3>2. PoolInv
      BY DEF IndInv
    <3> QED
      BY <2>a, <2>d, <3>1, <3>2 DEF PoolInv
  <2>b. BucketInv'
    <3>1. conn[UserOf[s]].ptr = 1 => k = UserOf[s]
      BY DEF LinkInv, User
    <3>2. UNCHANGED <<bucket, conn>>
      BY <1>4b DEF AddSocket
    <3>3. ASSUME conn[UserOf[s]].ptr = 1
          PROVE  bucket[s] = UserOf[s] /\ s \notin map_'[NoUser]
      <4>1. bucket[s] = UserOf[s] /\ k = UserOf[s] /\ k # NoUser /\ NoUser \in Keys
        BY <2>c, <3>1, <3>3 DEF BucketInv
      <4>2. map_'[NoUser] = map_[NoUser]
        BY <2>d, <4>1
      <4> QED
        BY <2>e, <4>1, <4>2
    <3> HIDE DEF k
    <3> QED
      BY <2>d, <3>2, <3>3 DEF BucketInv
  <2>3. EntryInv'
    BY <1>4b, <2>0 DEF AddSocket, EntryInv
  <2>4. CallbackInv'
    BY <1>4b, <2>0 DEF AddSocket, CallbackInv, Alive
  <2>5. OrphanInv'
    BY <1>4b, <2>0, OrphanKept DEF AddSocket, Wanting
  <2> QED
    BY <1>0, <2>1, <2>2, <2>b, <2>3, <2>4, <2>5
<1>5. ASSUME NEW s \in Sockets, AcceptFails(s) PROVE IndInv'
  <2>1. LockInv' /\ PoolInv' /\ LinkInv'
    BY <1>5 DEF AcceptFails, LockInv, PoolInv, LinkInv
  <2>b. BucketInv'
    BY <1>5 DEF AcceptFails, BucketInv
  <2>2. EntryInv'
    BY <1>5 DEF AcceptFails, EntryInv
  <2>3. CallbackInv'
    BY <1>5 DEF AcceptFails, CallbackInv, Alive
  <2>4. OrphanInv'
    BY <1>5, OrphanKept DEF AcceptFails, Wanting
  <2> QED
    BY <1>0, <2>1, <2>b, <2>2, <2>3, <2>4
<1>6. ASSUME NEW s \in Sockets, OnHandshake(s) PROVE IndInv'
  <2>0. PICK w \in {"open", "register"} : ws' = [ws EXCEPT ![s] = w]
    BY <1>6 DEF OnHandshake
  <2>1. LockInv' /\ PoolInv' /\ LinkInv'
    BY <1>6, <2>0 DEF OnHandshake, LockInv, PoolInv, LinkInv
  <2>b. BucketInv'
    BY <1>6, <2>0 DEF OnHandshake, BucketInv
  <2>2. EntryInv'
    <3>1. ws[s] = "added" /\ \A t \in Sockets \ {s} : ws'[t] = ws[t]
      BY <1>6, <2>0 DEF OnHandshake
    <3>2. entries' = entries /\ lifecycle' = lifecycle /\ it' = it
      BY <1>6 DEF OnHandshake
    <3>3. \A t \in Sockets : ws[t] = "erase" => ws'[t] = "erase"
      BY <3>1
    <3>4. ASSUME NEW k \in Keys, NEW t \in lifecycle[k]
          PROVE  k \in {UserOf[t], NoUser} /\ ws'[t] \notin Unborn \cup {"publish"}
      <4>1. t \in Sockets /\ k \in {UserOf[t], NoUser} /\ ws[t] \notin Unborn \cup {"publish"}
        BY <3>4 DEF EntryInv
      <4>2. t # s
        BY <3>1, <4>1 DEF Unborn
      <4> QED
        BY <3>1, <4>1, <4>2
    <3> HIDE DEF IndInv, TypeOK
    <3>5. EntryInv
      BY DEF IndInv
    <3> QED
      BY <3>2, <3>3, <3>4, <3>5 DEF EntryInv
  <2>3. CallbackInv'
    BY <1>6, <2>0 DEF OnHandshake, CallbackInv, Alive
  <2>4. OrphanInv'
    BY <1>6, <2>0, OrphanKept DEF OnHandshake, Wanting
  <2> QED
    BY <1>0, <2>1, <2>b, <2>2, <2>3, <2>4
<1>7. ASSUME NEW s \in Sockets, AddEvents(s) PROVE IndInv'
  <2>1. LockInv' /\ PoolInv' /\ LinkInv'
    BY <1>7 DEF AddEvents, LockInv, PoolInv, LinkInv
  <2>b. BucketInv'
    BY <1>7 DEF AddEvents, BucketInv
  <2>2. EntryInv'
    <3>1. ws[s] = "register" /\ ws' = [ws EXCEPT ![s] = "construct"]
      BY <1>7 DEF AddEvents
    <3>2. UNCHANGED <<entries, lifecycle, it>>
      BY <1>7 DEF AddEvents
    <3>3. \A t \in Sockets : ws[t] \notin Unborn \cup {"publish"} => ws'[t] = ws[t]
      BY <3>1
    <3> HIDE DEF IndInv, TypeOK
    <3>4. EntryInv
      BY DEF IndInv
    <3>5. lifecycle \in [Keys -> SUBSET Sockets]
      BY DEF IndInv, TypeOK
    <3> QED
      BY <3>2, <3>3, <3>4, <3>5 DEF EntryInv
  <2>3. CallbackInv'
    BY <1>7 DEF AddEvents, CallbackInv, Alive
  <2>4. OrphanInv'
    BY <1>7, OrphanKept DEF AddEvents, Wanting
  <2> QED
    BY <1>0, <2>1, <2>b, <2>2, <2>3, <2>4
<1>7a. ASSUME NEW s \in Sockets, Register(s) PROVE IndInv'
  <2>1. LockInv'
    BY <1>7a DEF Register, LockInv
  <2>p. PoolInv'
    BY <1>7a DEF Register, PoolInv
  <2>l. LinkInv'
    BY <1>7a DEF Register, LinkInv
  <2>b. BucketInv'
    BY <1>7a DEF Register, BucketInv
  <2>2. EntryInv'
    <3>1. ws[s] = "construct" /\ ws' = [ws EXCEPT ![s] = "publish"]
      BY <1>7a DEF Register
    <3>2. UNCHANGED <<entries, lifecycle, it>>
      BY <1>7a DEF Register
    <3>3. \A t \in Sockets : ws[t] \notin Unborn \cup {"publish"} => ws'[t] = ws[t]
      BY <3>1
    <3> HIDE DEF IndInv, TypeOK
    <3>4. EntryInv
      BY DEF IndInv
    <3>5. lifecycle \in [Keys -> SUBSET Sockets]
      BY DEF IndInv, TypeOK
    <3> QED
      BY <3>2, <3>3, <3>4, <3>5 DEF EntryInv
  <2>3. CallbackInv'
    <3> DEFINE new == [link |-> conn[UserOf[s]].ptr, id |-> nextId[UserOf[s]], ev |-> s]
    <3>1. /\ callbacks' = callbacks \cup {new} /\ ws[s] = "construct"
          /\ callback_id_' = [callback_id_ EXCEPT ![s] = nextId[UserOf[s]]]
          /\ ws' = [ws EXCEPT ![s] = "publish"] /\ UNCHANGED <<conn, opened, lifecycle>>
      BY <1>7a DEF Register
    <3>2. /\ new.ev = s /\ new.link = conn[UserOf[s]].ptr /\ new.id = callback_id_'[s]
          /\ new.link # 0 /\ new.link <= opened[UserOf[s]]
      BY <1>7a, <3>1 DEF Register, Usable, LinkInv
    <3>3. \A e \in Sockets : Alive(e) => Alive(e)'
      BY <3>1 DEF Alive
    <3>4. Alive(s)'
      BY <3>1 DEF Alive
    <3>5. \A c \in callbacks : c.ev \in Sockets /\ c.ev # s
      BY <3>1 DEF CallbackInv
    <3>6. ws'[s] \notin Unborn /\ \A e \in Sockets \ {s} : ws'[e] = ws[e]
                                   /\ callback_id_'[e] = callback_id_[e]
      BY <3>1
    <3> HIDE DEF new, IndInv, TypeOK, Unborn
    <3>7. CallbackInv
      BY DEF IndInv
    <3>8. ASSUME NEW c \in callbacks'
          PROVE  /\ ws'[c.ev] \notin Unborn
                 /\ c.link # 0 /\ c.link <= opened[UserOf[c.ev]]
                 /\ c.link = conn[UserOf[c.ev]].ptr =>
                       Alive(c.ev)' /\ c.id = callback_id_'[c.ev]
      <4>1. CASE c = new
        BY <3>2, <3>4, <3>6, <4>1
      <4>2. CASE c \in callbacks
        BY <3>3, <3>5, <3>6, <3>7, <4>2 DEF CallbackInv
      <4> QED
        BY <3>1, <4>1, <4>2
    <3> QED
      BY <3>1, <3>8 DEF CallbackInv
  <2>4. OrphanInv'
    BY <1>7a, OrphanKept DEF Register, Wanting
  <2> QED
    BY <1>0, <2>1, <2>p, <2>l, <2>b, <2>2, <2>3, <2>4
<1>8. ASSUME NEW s \in Sockets, SetEvent(s) PROVE IndInv'
  <2> DEFINE k == User(UserOf[s])
  <2>a. k \in {UserOf[s], NoUser} /\ k \in Keys
    BY DEF User
  <2>b. holder = {s} /\ holder' = {} /\ ws' = [ws EXCEPT ![s] = "open"]
    BY <1>8 DEF SetEvent, LockInv
  <2>c. \A t \in Sockets : ws[t] \in {"construct", "publish", "erase"} => t = s
    <3>1. LockInv
      OBVIOUS
    <3> HIDE DEF IndInv, TypeOK
    <3> QED
      BY <2>b, <3>1 DEF LockInv
  <2>d. BucketInv'
    BY <1>8 DEF SetEvent, BucketInv
  <2>1. LockInv' /\ PoolInv' /\ LinkInv'
    <3>1. LockInv'
      BY <2>b, <2>c DEF LockInv
    <3> QED
      BY <1>8, <3>1 DEF SetEvent, PoolInv, LinkInv
  <2>2. EntryInv'
    <3>1. ws[s] = "publish" /\ \A t \in Sockets : ws[t] # "erase"
      BY <1>8, <2>c DEF SetEvent
    <3>2. \A j \in entries : lifecycle[j] # {}
      BY <3>1 DEF EntryInv
    <3>3. lifecycle' = lifecycle \/ lifecycle' = [lifecycle EXCEPT ![k] = {s}]
      BY <1>8 DEF SetEvent
    <3>4. lifecycle'[k] # {} /\ entries' = entries \cup {k}
      <4>1. CASE lifecycle[k] = {}
        <5>1. lifecycle' = [lifecycle EXCEPT ![k] = {s}] /\ entries' = entries \cup {k}
          BY <1>8, <4>1 DEF SetEvent
        <5>2. s \in lifecycle'[k]
          BY <2>a, <5>1
        <5> QED
          BY <5>1, <5>2
      <4>2. CASE lifecycle[k] # {}
        BY <1>8, <2>a, <4>2 DEF SetEvent
      <4> QED
        BY <4>1, <4>2
    <3>5. \A j \in entries' : lifecycle'[j] # {}
      BY <3>2, <3>3, <3>4, <2>a
    <3>6. \A j \in Keys : lifecycle'[j] # {} => j \in entries'
      BY <3>3, <3>4, <2>a DEF EntryInv
    <3>7. \A j \in Keys : \A t \in lifecycle'[j] :
             j \in {UserOf[t], NoUser} /\ ws'[t] \notin Unborn \cup {"publish"}
      BY <3>3, <2>a, <2>b DEF EntryInv
    <3> QED
      BY <3>5, <3>6, <3>7 DEF EntryInv
  <2>3. CallbackInv'
    BY <1>8, SMTT(40) DEF SetEvent, User, Deregistered, CallbackInv, Alive
  \* The websocket that stores the event wants it.
  <2>4. OrphanInv'
    <3>1. CASE lifecycle' = lifecycle
      BY <1>8, <2>b, <3>1, OrphanKept DEF SetEvent, Wanting
    <3>2. CASE lifecycle' = [lifecycle EXCEPT ![k] = {s}]
      <4>1. ws'[s] \in Wanting
        BY <2>b DEF Wanting
      <4>2. \A t \in Sockets : ws[t] \in Wanting => ws'[t] \in Wanting
        BY <2>b, <4>1
      <4>3. conn' = conn
        BY <1>8 DEF SetEvent
      <4>4. ASSUME NEW u \in Users, conn'[u].ptr = 1, lifecycle'[u] # {}
            PROVE  \E t \in Sockets : UserOf[t] = u /\ ws'[t] \in Wanting
        <5>1. CASE u = k
          BY <5>1, <2>a, <4>1
        <5>2. CASE u # k
          BY <5>2, <3>2, <4>2, <4>3, <4>4 DEF OrphanInv
        <5> QED
          BY <5>1, <5>2
      <4> QED
        BY <4>4 DEF OrphanInv
    <3> QED
      BY <1>8, <3>1, <3>2 DEF SetEvent
  <2> QED
    BY <1>0, <2>1, <2>d, <2>2, <2>3, <2>4
<1>9. ASSUME NEW s \in Sockets, ReadFails(s) PROVE IndInv'
  <2>1. LockInv' /\ PoolInv' /\ LinkInv'
    BY <1>9 DEF ReadFails, LockInv, PoolInv, LinkInv
  <2>b. BucketInv'
    BY <1>9 DEF ReadFails, BucketInv
  <2>2. EntryInv'
    BY <1>9 DEF ReadFails, EntryInv
  <2>3. CallbackInv'
    BY <1>9 DEF ReadFails, CallbackInv, Alive
  <2>4. OrphanInv'
    BY <1>9, OrphanKept DEF ReadFails, Wanting
  <2> QED
    BY <1>0, <2>1, <2>b, <2>2, <2>3, <2>4
<1>10. ASSUME NEW s \in Sockets, OnClose(s) PROVE IndInv'
  <2>1. LockInv' /\ LinkInv'
    BY <1>10 DEF OnClose, LockInv, LinkInv
  <2>a. /\ s \in map_[bucket[s]] /\ bucket[s] \in Keys /\ ws[s] = "open"
        /\ map_' = [map_ EXCEPT ![bucket[s]] = @ \ {s}]
        /\ ws' = [ws EXCEPT ![s] = "emptycheck"]
    BY <1>10 DEF OnClose
  <2>p. /\ \A k \in Keys : s \notin map_'[k]
        /\ \A k \in Keys : \A t \in Sockets \ {s} : t \in map_'[k] <=> t \in map_[k]
        /\ \A t \in Sockets \ {s} : ws'[t] = ws[t]
        /\ ws'[s] \notin Pooled
    BY <2>a DEF PoolInv
  <2>q. PoolInv'
    BY <2>p DEF PoolInv
  <2>b. BucketInv'
    BY <1>10, <2>a, <2>p DEF OnClose, BucketInv
  <2>2. EntryInv'
    BY <1>10 DEF OnClose, EntryInv
  <2>3. CallbackInv'
    BY <1>10 DEF OnClose, CallbackInv, Alive
  <2>4. OrphanInv'
    BY <1>10, OrphanKept DEF OnClose, Wanting
  <2> QED
    BY <1>0, <2>1, <2>q, <2>b, <2>2, <2>3, <2>4
<1>11. ASSUME NEW s \in Sockets, CheckEmpty(s) PROVE IndInv'
  <2>1. LockInv' /\ PoolInv' /\ LinkInv'
    BY <1>11 DEF CheckEmpty, LockInv, PoolInv, LinkInv
  <2>b. BucketInv'
    BY <1>11 DEF CheckEmpty, BucketInv
  <2>2. EntryInv'
    BY <1>11 DEF CheckEmpty, EntryInv
  <2>3. CallbackInv'
    BY <1>11 DEF CheckEmpty, CallbackInv, Alive
  \* When the bucket is not empty, a websocket in it wants the events.
  <2>4. OrphanInv'
    <3>1. CASE map_[bucket[s]] = {}
      BY <1>11, <3>1, OrphanKept DEF CheckEmpty, BucketEmpty, Wanting
    <3>2. CASE map_[bucket[s]] # {}
      <4>1. PICK t \in Sockets : t \in map_[bucket[s]]
        BY <3>2
      <4>2. ws[t] \in Pooled /\ (conn[UserOf[s]].ptr = 1 => UserOf[t] = UserOf[s])
        <5>1. ws[s] = "emptycheck" /\ bucket[s] \in Keys
          BY <1>11 DEF CheckEmpty
        <5>2. conn[UserOf[s]].ptr = 1 => bucket[s] = UserOf[s]
          BY <5>1 DEF BucketInv
        <5> QED
          BY <4>1, <5>1, <5>2 DEF PoolInv
      <4>3. ws' = [ws EXCEPT ![s] = "closed"] /\ ws[s] = "emptycheck"
        BY <1>11, <3>2 DEF CheckEmpty, BucketEmpty
      <4>4. ws'[t] \in Wanting /\ \A x \in Sockets \ {s} : ws'[x] = ws[x]
        BY <4>2, <4>3 DEF Wanting
      <4>5. conn' = conn /\ lifecycle' = lifecycle
        BY <1>11 DEF CheckEmpty
      <4> SUFFICES ASSUME NEW u \in Users, conn'[u].ptr = 1, lifecycle'[u] # {}
                   PROVE  \E x \in Sockets : UserOf[x] = u /\ ws'[x] \in Wanting
        BY DEF OrphanInv
      <4>6. PICK x \in Sockets : UserOf[x] = u /\ ws[x] \in Wanting
        BY <4>5 DEF OrphanInv
      <4>7. CASE x = s
        BY <4>2, <4>4, <4>5, <4>6, <4>7
      <4>8. CASE x # s
        BY <4>4, <4>6, <4>8
      <4> QED
        BY <4>7, <4>8
    <3> QED
      BY <3>1, <3>2
  <2> QED
    BY <1>0, <2>1, <2>b, <2>2, <2>3, <2>4
<1>12. ASSUME NEW s \in Sockets, RemoveEvents(s) PROVE IndInv'
  <2> DEFINE k == User(UserOf[s])
  <2>a. k \in {UserOf[s], NoUser} /\ k \in Keys
    BY DEF User
  <2>b. /\ ws[s] = "unregister" /\ holder = {}
        /\ \A t \in Sockets : ws[t] \notin {"construct", "publish", "erase"}
    BY <1>12 DEF RemoveEvents, LockInv
  <2>c. \A j \in entries : lifecycle[j] # {}
    BY <2>b DEF EntryInv
  <2>1. LockInv'
    BY <1>12, <2>b DEF RemoveEvents, LockInv
  <2>p. PoolInv'
    <3>1. map_' = map_ /\ \A t \in Sockets : ws'[t] \in Pooled <=> ws[t] \in Pooled
      BY <1>12, <2>b DEF RemoveEvents
    <3> HIDE DEF IndInv, TypeOK, Pooled
    <3>2. PoolInv
      BY DEF IndInv
    <3> QED
      BY <3>1, <3>2 DEF PoolInv
  <2>l. LinkInv'
    BY <1>12, <2>b DEF RemoveEvents, LinkInv
  <2>d. BucketInv'
    BY <1>12, SMTT(40) DEF RemoveEvents, BucketInv
  <2>2. EntryInv'
    <3>1. CASE k \in entries
      <4>1. /\ lifecycle' = [lifecycle EXCEPT ![k] = {}]
            /\ it' = k /\ ws' = [ws EXCEPT ![s] = "erase"] /\ entries' = entries
        BY <1>12, <3>1 DEF RemoveEvents
      <4> QED
        BY <2>a, <2>b, <2>c, <4>1 DEF EntryInv
    <3>2. CASE k \notin entries
      <4>1. /\ lifecycle' = lifecycle /\ entries' = entries
            /\ it' = it /\ ws' = [ws EXCEPT ![s] = "closed"]
        BY <1>12, <3>2 DEF RemoveEvents
      <4> QED
        BY <2>b, <2>c, <4>1 DEF EntryInv
    <3> QED
      BY <3>1, <3>2
  \* A callback on the current connection goes with its event.
  <2>3. CallbackInv'
    <3>1. CASE k \in entries
      <4>1. /\ lifecycle' = [lifecycle EXCEPT ![k] = {}]
            /\ ws' = [ws EXCEPT ![s] = "erase"] /\ conn' = conn
            /\ opened' = opened /\ callback_id_' = callback_id_
            /\ callbacks' = callbacks \ UNION {Deregistered(e) : e \in lifecycle[k]}
        BY <1>12, <3>1 DEF RemoveEvents
      <4> SUFFICES ASSUME NEW c \in callbacks'
                   PROVE  /\ ws'[c.ev] \notin Unborn
                          /\ c.link # 0 /\ c.link <= opened[UserOf[c.ev]]
                          /\ c.link = conn[UserOf[c.ev]].ptr =>
                                /\ Alive(c.ev)'
                                /\ c.id = callback_id_[c.ev]
        BY <4>1 DEF CallbackInv
      <4>2. c \in callbacks /\ c.ev \in Sockets
        BY <4>1
      <4>3. ws'[c.ev] \notin Unborn /\ c.link # 0 /\ c.link <= opened[UserOf[c.ev]]
        BY <4>1, <4>2, <2>b DEF CallbackInv
      <4>4. ASSUME c.link = conn[UserOf[c.ev]].ptr
            PROVE  Alive(c.ev)' /\ c.id = callback_id_[c.ev]
        <5>1. Alive(c.ev) /\ c.id = callback_id_[c.ev]
          BY <4>2, <4>4 DEF CallbackInv
        <5>2. c.ev \notin lifecycle[k]
          <6>1. c \in Deregistered(c.ev)
            BY <4>2, <4>4, <5>1 DEF Deregistered
          <6> QED
            BY <4>1, <6>1
        <5>3. PICK j \in Keys : c.ev \in lifecycle[j]
          BY <2>b, <4>2, <5>1 DEF Alive
        <5>4. c.ev \in lifecycle'[j]
          BY <4>1, <5>2, <5>3
        <5> QED
          BY <5>1, <5>3, <5>4 DEF Alive
      <4> QED
        BY <4>3, <4>4
    <3>2. CASE k \notin entries
      BY <1>12, <2>b, <3>2 DEF RemoveEvents, CallbackInv, Alive
    <3> QED
      BY <3>1, <3>2
  \* On the first connection the name is known, and the user's event goes.
  <2>4. OrphanInv'
    <3>1. conn' = conn /\ \A t \in Sockets \ {s} : ws'[t] = ws[t]
      BY <1>12 DEF RemoveEvents
    <3>2. \A u \in Users : lifecycle'[u] # {} => lifecycle'[u] = lifecycle[u]
      BY <1>12, <2>a DEF RemoveEvents
    <3>3. conn[UserOf[s]].ptr = 1 => lifecycle'[UserOf[s]] = {}
      BY <1>12 DEF RemoveEvents, LinkInv, EntryInv, User
    <3> SUFFICES ASSUME NEW u \in Users, conn'[u].ptr = 1, lifecycle'[u] # {}
                 PROVE  \E t \in Sockets : UserOf[t] = u /\ ws'[t] \in Wanting
      BY DEF OrphanInv
    <3>4. PICK t \in Sockets : UserOf[t] = u /\ ws[t] \in Wanting
      BY <3>1, <3>2 DEF OrphanInv
    <3> QED
      BY <3>1, <3>3, <3>4
  <2> QED
    BY <1>0, <2>1, <2>p, <2>l, <2>d, <2>2, <2>3, <2>4
<1>13. ASSUME NEW s \in Sockets, EraseEntry(s) PROVE IndInv'
  <2>a. ws[s] = "erase" /\ holder = {s} /\ holder' = {} /\ ws' = [ws EXCEPT ![s] = "closed"]
    BY <1>13 DEF EraseEntry, LockInv
  <2>b. \A t \in Sockets : ws[t] \in {"construct", "publish", "erase"} => t = s
    <3>1. LockInv
      OBVIOUS
    <3> HIDE DEF IndInv, TypeOK
    <3> QED
      BY <2>a, <3>1 DEF LockInv
  <2>1. LockInv'
    BY <2>a, <2>b DEF LockInv
  <2>2. PoolInv' /\ LinkInv'
    BY <1>13 DEF EraseEntry, PoolInv, LinkInv
  <2>c. BucketInv'
    BY <1>13 DEF EraseEntry, BucketInv
  <2>3. EntryInv'
    <3>1. entries' = IF lifecycle[it] = {} THEN entries \ {it} ELSE entries
      BY <1>13 DEF EraseEntry
    <3>2. UNCHANGED <<lifecycle, it>>
      BY <1>13 DEF EraseEntry
    <3>3. \A k \in entries' : k \in entries /\ lifecycle[k] # {}
      BY <3>1 DEF EntryInv
    <3>4. \A k \in Keys : lifecycle[k] # {} => k \in entries'
      BY <3>1 DEF EntryInv
    <3>5. \A k \in Keys : \A t \in lifecycle[k] :
             k \in {UserOf[t], NoUser} /\ ws'[t] \notin Unborn \cup {"publish"}
      BY <2>a DEF EntryInv
    <3> HIDE DEF IndInv, TypeOK
    <3> QED
      BY <3>2, <3>3, <3>4, <3>5 DEF EntryInv
  <2>4. CallbackInv'
    BY <1>13 DEF EraseEntry, CallbackInv, Alive
  <2>5. OrphanInv'
    BY <1>13, <2>a, OrphanKept DEF EraseEntry, Wanting
  <2> QED
    BY <1>0, <2>1, <2>2, <2>c, <2>3, <2>4, <2>5
<1>14. CASE UNCHANGED core
  BY <1>0, <1>14, ZenonT(60)
  DEF core, LockInv, PoolInv, BucketInv, EntryInv, LinkInv, CallbackInv, OrphanInv,
      Alive
<1>15. CASE \/ \E u \in Users : ConnectFails(u)
            \/ \E s \in Sockets : RegisterFails(s) \/ OnCloseMisses(s)
            \/ EventThread
            \/ UNCHANGED vars
  BY <1>14, <1>15
  DEF core, ConnectFails, RegisterFails, OnCloseMisses, EventThread, DomainEvent,
      EnterCallback, Broadcast, BroadcastFreed, vars
<1> QED
  BY <1>1, <1>2, <1>3, <1>4, <1>4a, <1>4b, <1>5, <1>6, <1>7, <1>7a, <1>8, <1>9,
     <1>10, <1>11, <1>12, <1>13, <1>15
  DEF Next, Handler, Link

\* The inductive invariant holds in every reachable state.
LEMMA Inductive == Spec => []IndInv
<1>1. ASSUME Init PROVE IndInv
  <2>1. TypeOK
    BY <1>1, InitTypeOK
  <2> QED
    BY <1>1, <2>1, SocketsAssumption
    DEF Init, IndInv, LockInv, PoolInv, BucketInv, EntryInv, LinkInv, CallbackInv,
        OrphanInv, Keys, Unborn, Pooled, Disconnected
<1> QED
  BY <1>1, IndStep, PTL DEF Spec

\* virt::events::remove never erases end(): an entry without its event exists
\* only while remove_events, which made it so, holds events_mutex_.
THEOREM RemovalIsDefined == Spec => []RemoveFindsEvent
<1>1. IndInv => RemoveFindsEvent
  BY DEF IndInv, LockInv, EntryInv, RemoveFindsEvent
<1> QED
  BY <1>1, Inductive, PTL

\* No callback outlives its lifecycle_event on the connection of the pool: the
\* destructor finds its own callback there, although callback ids start again
\* on every connection and two handlers may register for the same user.
THEOREM CallbacksAreSafe == Spec => []LiveCallbackHasEvent
<1>1. IndInv => LiveCallbackHasEvent
  BY DEF IndInv, CallbackInv, LiveCallbackHasEvent
<1> QED
  BY <1>1, Inductive, PTL

\* As long as the user's first libvirt connection is in place, the last
\* on_close removes the user's events, for any interleaving of the handlers.
THEOREM NoEventsAreOrphaned == Spec => []NoOrphanEvents
<1>1. IndInv => NoOrphanEvents
  BY DEF IndInv, OrphanInv, Wanting, Pooled, NoOrphanEvents, AllClosed
<1> QED
  BY <1>1, Inductive, PTL

\* events_mutex_ is released on every way out of add_events and remove_events.
THEOREM EventsMutexIsReturned == Spec => []EventsMutexInUse
<1>1. IndInv => EventsMutexInUse
  BY DEF IndInv, TypeOK, LockInv, EventsMutexInUse
<1> QED
  BY <1>1, Inductive, PTL

\* As long as the user's first libvirt connection is in place, pool::remove finds
\* the websocket in the bucket that on_close captured, whatever else the threads
\* do between connection_pool::get and websockets_.add.
THEOREM RemoveFindsSocket == Spec => []CloseFindsSocket
<1>1. ASSUME IndInv, NEW s \in Sockets, conn[UserOf[s]].ptr = 1, ws[s] = "open"
      PROVE  {k \in Keys : s \in map_[k]} = {bucket[s]}
  <2>1. bucket[s] = UserOf[s] /\ s \notin map_[NoUser]
    BY <1>1 DEF IndInv, BucketInv
  <2>2. PICK k \in Keys : s \in map_[k]
    BY <1>1 DEF IndInv, PoolInv, Pooled
  <2>3. k = bucket[s] /\ \A j \in Keys : s \in map_[j] => j = k
    BY <1>1, <2>1, <2>2 DEF IndInv, PoolInv
  <2> QED
    BY <2>2, <2>3
<1>2. IndInv => CloseFindsSocket
  BY <1>1 DEF CloseFindsSocket
<1> QED
  BY <1>2, Inductive, PTL

\* Exactly the websockets that failed are left in the pool for ever: on_close
\* always takes its own out, and nothing takes a failed one out.
THEOREM FailedSocketsStay == Spec => []OnlyFailedStay
<1>1. IndInv => OnlyFailedStay
  BY DEF IndInv, PoolInv, Pooled, OnlyFailedStay
<1> QED
  BY <1>1, Inductive, PTL

\* A failed websocket does nothing any more, and stays where it is.
LEMMA FailedForGood ==
    ASSUME IndInv, [Next]_vars, NEW s \in Sockets, NEW u \in Users,
           s \in map_[u], ws[s] = "failed"
    PROVE  s \in map_'[u] /\ ws'[s] = "failed"
<1> USE DEF IndInv, TypeOK, Keys
<1>1. ws'[s] = "failed"
  <2>1. ASSUME NEW t \in Sockets,
               \/ Websocket(t) \/ CaptureUser(t) \/ AddSocket(t) \/ AcceptFails(t)
               \/ OnHandshake(t) \/ AddEvents(t) \/ Register(t) \/ RegisterFails(t)
        PROVE  ws'[s] = "failed"
    BY <2>1 DEF Websocket, CaptureUser, AddSocket, AcceptFails, OnHandshake, AddEvents,
        Register, RegisterFails
  <2>2. ASSUME NEW t \in Sockets,
               \/ SetEvent(t) \/ ReadFails(t) \/ OnClose(t) \/ OnCloseMisses(t)
               \/ CheckEmpty(t) \/ RemoveEvents(t) \/ EraseEntry(t)
        PROVE  ws'[s] = "failed"
    BY <2>2 DEF SetEvent, ReadFails, OnClose, OnCloseMisses, CheckEmpty, RemoveEvents,
        EraseEntry
  <2>3. ASSUME EventThread PROVE ws'[s] = "failed"
    BY <2>3 DEF EventThread, DomainEvent, EnterCallback, Broadcast, BroadcastFreed
  <2>4. ASSUME NEW v \in Users, Link(v) PROVE ws'[s] = "failed"
    BY <2>4 DEF Link, ResetConnection, Connected, ConnectFails, LinkLost
  <2>5. CASE UNCHANGED vars
    BY <2>5 DEF vars
  <2> HIDE DEF IndInv
  <2> QED
    BY <2>1, <2>2, <2>3, <2>4, <2>5 DEF Next, Handler
<1>2. ASSUME NEW t \in Sockets, OnClose(t) PROVE s \in map_'[u]
  <2>1. t # s /\ map_' = [map_ EXCEPT ![bucket[t]] = @ \ {t}]
    BY <1>2 DEF OnClose
  <2> QED
    BY <2>1
<1>3. ASSUME NEW t \in Sockets, AddSocket(t) PROVE s \in map_'[u]
  BY <1>3 DEF AddSocket
<1>4. ASSUME ~\E t \in Sockets : OnClose(t) \/ AddSocket(t) PROVE map_' = map_
  BY <1>4, ZenonT(60) DEF Next, Handler, EventThread, Link, Websocket, CaptureUser,
      AcceptFails, OnHandshake, AddEvents, Register, RegisterFails, SetEvent, ReadFails,
      OnCloseMisses, CheckEmpty, RemoveEvents, EraseEntry, DomainEvent, EnterCallback,
      Broadcast, BroadcastFreed, ResetConnection, Connected, ConnectFails, LinkLost, vars,
      poolVars
<1> QED
  BY <1>1, <1>2, <1>3, <1>4

\* A failed websocket keeps the user's bucket from ever being empty: a step
\* removes no event of the user as long as on_close looks at that bucket.
LEMMA PinnedStep ==
    ASSUME IndInv, [Next]_vars, NEW u \in Users, Pinned(u),
           \A s \in Sockets : UserOf[s] = u /\ ws[s] = "emptycheck" => bucket[s] = u
    PROVE  lifecycle[u] \subseteq lifecycle'[u] /\ Pinned(u)'
<1> USE DEF IndInv, TypeOK, Keys
<1>1. PICK f \in Sockets : f \in map_[u] /\ ws[f] = "failed"
  BY DEF Pinned
<1>2. f \in map_'[u] /\ ws'[f] = "failed"
  BY <1>1, FailedForGood
<1>3. ASSUME NEW s \in Sockets, UserOf[s] = u
      PROVE  ws'[s] \notin {"unregister", "erase"}
  <2>1. ws[s] \notin {"unregister", "erase"}
    BY <1>3 DEF Pinned
  <2>2. ASSUME NEW t \in Sockets, CheckEmpty(t) PROVE ws'[s] \notin {"unregister", "erase"}
    BY <1>1, <1>3, <2>1, <2>2 DEF CheckEmpty, BucketEmpty
  <2>3. ASSUME NEW t \in Sockets, RemoveEvents(t)
        PROVE  ws'[s] \notin {"unregister", "erase"}
    BY <1>3, <2>1, <2>3 DEF Pinned, RemoveEvents
  <2>4. ASSUME NEW t \in Sockets,
               \/ Websocket(t) \/ CaptureUser(t) \/ AddSocket(t) \/ AcceptFails(t)
               \/ OnHandshake(t) \/ AddEvents(t) \/ Register(t) \/ SetEvent(t)
               \/ ReadFails(t) \/ OnClose(t) \/ EraseEntry(t)
        PROVE  ws'[s] \notin {"unregister", "erase"}
    BY <2>1, <2>4 DEF Websocket, CaptureUser, AddSocket, AcceptFails, OnHandshake,
        AddEvents, Register, SetEvent, ReadFails, OnClose, EraseEntry
  <2>5. ASSUME \/ EventThread \/ (\E v \in Users : Link(v)) \/ UNCHANGED vars
               \/ \E t \in Sockets : RegisterFails(t) \/ OnCloseMisses(t)
        PROVE  ws' = ws
    BY <2>5 DEF EventThread, Link, RegisterFails, OnCloseMisses, DomainEvent,
        EnterCallback, Broadcast, BroadcastFreed, ResetConnection, Connected,
        ConnectFails, LinkLost, vars
  <2> QED
    BY <2>1, <2>2, <2>3, <2>4, <2>5 DEF Next, Handler
\* Another user's on_close removes that user's events, or those of no user.
<1>4. lifecycle[u] \subseteq lifecycle'[u]
  <2>1. ASSUME NEW t \in Sockets, RemoveEvents(t) PROVE lifecycle'[u] = lifecycle[u]
    <3>1. UserOf[t] # u
      BY <2>1 DEF Pinned, RemoveEvents
    <3>2. User(UserOf[t]) # u
      BY <3>1, SocketsAssumption DEF User
    <3> QED
      BY <2>1, <3>2 DEF RemoveEvents
  <2>2. ASSUME NEW t \in Sockets, SetEvent(t) PROVE lifecycle[u] \subseteq lifecycle'[u]
    BY <2>2 DEF SetEvent
  <2> QED
    BY <2>1, <2>2 DEF Next, Handler, EventThread, Link, Websocket, CaptureUser, AddSocket,
        AcceptFails, OnHandshake, AddEvents, Register, RegisterFails, ReadFails, OnClose,
        OnCloseMisses, CheckEmpty, EraseEntry, DomainEvent, EnterCallback, Broadcast,
        BroadcastFreed, ResetConnection, Connected, ConnectFails, LinkLost, vars, eventVars
<1> QED
  BY <1>2, <1>3, <1>4 DEF Pinned

\* As long as the user's first libvirt connection is in place, a failed websocket
\* keeps the user's events from being removed, with any number of threads and
\* however the other websockets come and go.
THEOREM FailedSocketPinsEvents == Spec => PinnedOnFirstLink
<1>1. ASSUME IndInv, [Next]_vars, NEW u \in Users, conn[u].ptr = 1, Pinned(u)
      PROVE  lifecycle[u] \subseteq lifecycle'[u] /\ Pinned(u)'
  <2>1. \A s \in Sockets : UserOf[s] = u /\ ws[s] = "emptycheck" => bucket[s] = u
    BY <1>1 DEF IndInv, BucketInv
  <2> QED
    BY <1>1, <2>1, PinnedStep
<1>2. IndInv /\ [Next]_vars =>
        [\A u \in Users :
            conn[u].ptr = 1 /\ Pinned(u) =>
                lifecycle[u] \subseteq lifecycle'[u] /\ Pinned(u)']_vars
  BY <1>1
<1> QED
  BY <1>2, Inductive, PTL DEF Spec, PinnedOnFirstLink
=============================================================================
