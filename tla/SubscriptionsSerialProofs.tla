---------------------- MODULE SubscriptionsSerialProofs ----------------------
(***************************************************************************)
(* What one io_context thread buys: webvirtd with --threads 0 keeps the     *)
(* promise of Topic.  (With more threads it does not.)                      *)
(***************************************************************************)
EXTENDS SubscriptionsProofs

\* With one thread, a handler starts only when no handler is in progress and
\* connection_pool::get is not connecting.
LEMMA FreeMeansIdle ==
    ASSUME TypeOK, Threads = 1, IsFiniteSet(connecting), Free
    PROVE  Active = {} /\ connecting = {}
<1>1. IsFiniteSet(Active)
  BY SocketsAssumption, FS_Subset DEF Active
<1>2. Cardinality(Active) \in Nat /\ Cardinality(connecting) \in Nat
  BY <1>1, FS_CardinalityType
<1>3. Cardinality(Active) = 0 /\ Cardinality(connecting) = 0
  BY <1>2 DEF Free
<1> QED
  BY <1>1, <1>3, FS_EmptySet

\* With one thread, every step preserves CaptureInv.
LEMMA CaptureStep ==
    Threads = 1 /\ IndInv /\ SerialInv /\ [Next]_vars => CaptureInv'
<1> SUFFICES ASSUME Threads = 1, IndInv, SerialInv, [Next]_vars PROVE CaptureInv'
  OBVIOUS
<1>t. TypeOK /\ CaptureInv /\ \A c \in callbacks : c.ev \in Sockets
  BY DEF IndInv, SerialInv, TypeOK
<1> USE UserOfType DEF Keys, WsState, MidHandler, poolVars, eventVars, connVars, loopVars
<1>1. ASSUME NEW u \in Users, ResetConnection(u) PROVE CaptureInv'
  <2>1. \A s \in Sockets : ws[s] \notin MidHandler
    BY <1>1, <1>t, FreeMeansIdle DEF ResetConnection, SerialInv, Active
  <2>2. UNCHANGED <<ws, bucket, map_, topic, callbacks>>
    BY <1>1 DEF ResetConnection
  <2> QED
    BY <1>t, <2>1, <2>2 DEF CaptureInv
<1>2. ASSUME NEW u \in Users, Connected(u) PROVE CaptureInv'
  <2>1. \A s \in Sockets : ws[s] \notin MidHandler
    BY <1>2, <1>t DEF Connected, SerialInv, Active
  <2>2. UNCHANGED <<ws, bucket, map_, topic, callbacks>>
    BY <1>2 DEF Connected
  <2> QED
    BY <1>t, <2>1, <2>2 DEF CaptureInv
<1>3. ASSUME NEW u \in Users, LinkLost(u) PROVE CaptureInv'
  <2>1. \A v \in Users : conn'[v].named = conn[v].named
    BY <1>3, <1>t DEF LinkLost, TypeOK
  <2>2. UNCHANGED <<ws, bucket, map_, topic, callbacks>>
    BY <1>3 DEF LinkLost
  <2> QED
    BY <1>t, <2>1, <2>2 DEF CaptureInv, User
<1>4. ASSUME NEW s \in Sockets, Websocket(s) PROVE CaptureInv'
  <2>1. conn[UserOf[s]].named /\ ws' = [ws EXCEPT ![s] = "route"]
    BY <1>4 DEF Websocket, IndInv, LinkInv
  <2>2. UNCHANGED <<conn, bucket, map_, topic, callbacks>>
    BY <1>4 DEF Websocket
  <2> QED
    BY <1>t, <2>1, <2>2 DEF CaptureInv, TypeOK, User
<1>5. ASSUME NEW s \in Sockets, CaptureUser(s) PROVE CaptureInv'
  <2>1. /\ ws[s] = "route" /\ ws' = [ws EXCEPT ![s] = "captured"]
        /\ bucket' = [bucket EXCEPT ![s] = User(UserOf[s])]
        /\ UNCHANGED <<conn, map_, topic, callbacks>>
    BY <1>5 DEF CaptureUser
  <2>2. conn[UserOf[s]].named /\ User(UserOf[s]) = UserOf[s]
    BY <1>t, <2>1 DEF CaptureInv, User
  <2> QED
    BY <1>t, <2>1, <2>2 DEF CaptureInv, TypeOK, User
<1>6. ASSUME NEW s \in Sockets, AddSocket(s) PROVE CaptureInv'
  <2>0. PICK w \in {"added", "plain"} : ws' = [ws EXCEPT ![s] = w]
    BY <1>6 DEF AddSocket
  <2>1. /\ ws[s] = "captured"
        /\ map_' = [map_ EXCEPT ![User(UserOf[s])] = @ \cup {s}]
        /\ UNCHANGED <<conn, bucket, topic, callbacks>>
    BY <1>6 DEF AddSocket
  <2>2. User(UserOf[s]) = UserOf[s] /\ UserOf[s] # NoUser
    BY <1>t, <2>1, SocketsAssumption DEF CaptureInv, User
  <2>3. map_'[NoUser] = {}
    BY <1>t, <2>1, <2>2 DEF CaptureInv, TypeOK
  <2> QED
    BY <1>t, <2>0, <2>1, <2>3 DEF CaptureInv, TypeOK, User
\* A websocket that is in add_events has no callback yet.
<1>7. ASSUME NEW s \in Sockets, AddEvents(s) PROVE CaptureInv'
  <2>1. /\ ws[s] = "register" /\ ws' = [ws EXCEPT ![s] = "construct"]
        /\ topic' = [topic EXCEPT ![s] = User(UserOf[s])]
        /\ UNCHANGED <<conn, bucket, map_, callbacks>>
    BY <1>7 DEF AddEvents
  <2>2. \A c \in callbacks : c.ev # s
    BY <2>1 DEF IndInv, CallbackInv, Unborn
  <2>3. \A c \in callbacks : topic'[c.ev] = UserOf[c.ev]
    BY <1>t, <2>1, <2>2 DEF CaptureInv, TypeOK
  <2>4. topic'[s] = User(UserOf[s])
    BY <1>t, <2>1 DEF TypeOK
  <2> QED
    BY <1>t, <2>1, <2>3, <2>4 DEF CaptureInv, TypeOK, User
<1>8. ASSUME NEW s \in Sockets, Register(s) PROVE CaptureInv'
  <2> DEFINE new == [link |-> conn[UserOf[s]].ptr, id |-> nextId[UserOf[s]], ev |-> s]
  <2>1. /\ ws[s] = "construct" /\ ws' = [ws EXCEPT ![s] = "publish"]
        /\ callbacks' = callbacks \cup {new}
        /\ UNCHANGED <<conn, bucket, map_, topic>>
    BY <1>8 DEF Register
  <2>2. conn[UserOf[s]].named
    BY <1>8 DEF Register, Usable, IndInv, LinkInv
  <2>3. topic[s] = UserOf[s] /\ new.ev = s
    BY <1>t, <2>1, <2>2 DEF CaptureInv, User
  <2> HIDE DEF new
  <2>4. \A c \in callbacks' : topic[c.ev] = UserOf[c.ev]
    BY <1>t, <2>1, <2>3 DEF CaptureInv
  <2> QED
    BY <1>t, <2>1, <2>4 DEF CaptureInv, TypeOK, User
<1>9. ASSUME NEW s \in Sockets, OnClose(s) PROVE CaptureInv'
  <2>1. /\ ws[s] = "open" /\ ws' = [ws EXCEPT ![s] = "emptycheck"]
        /\ map_' = [map_ EXCEPT ![bucket[s]] = @ \ {s}]
        /\ UNCHANGED <<conn, bucket, topic, callbacks>>
    BY <1>9 DEF OnClose
  <2>2. map_'[NoUser] = {}
    BY <1>t, <2>1 DEF CaptureInv, TypeOK
  <2> QED
    BY <1>t, <2>1, <2>2 DEF CaptureInv, TypeOK, User
<1>10. ASSUME NEW s \in Sockets,
              \/ AcceptFails(s) \/ OnHandshake(s) \/ SetEvent(s) \/ ReadFails(s)
              \/ CheckEmpty(s) \/ RemoveEvents(s) \/ EraseEntry(s)
       PROVE  CaptureInv'
  <2>1. /\ callbacks' \subseteq callbacks
        /\ UNCHANGED <<conn, bucket, map_, topic>>
    BY <1>10 DEF AcceptFails, OnHandshake, SetEvent, ReadFails, CheckEmpty, RemoveEvents,
                 EraseEntry
  <2>2. \A t \in Sockets :
           \/ ws'[t] = ws[t]
           \/ ws[t] \notin {"none", "route"} /\ ws'[t] \notin {"none", "route", "captured", "construct"}
    BY <1>10, <1>t DEF AcceptFails, OnHandshake, SetEvent, ReadFails, CheckEmpty,
                 RemoveEvents, EraseEntry, TypeOK
  <2> QED
    BY <1>t, <2>1, <2>2 DEF CaptureInv, User
<1>11. CASE \/ EventThread \/ (\E u \in Users : ConnectFails(u)) \/ UNCHANGED vars
            \/ \E s \in Sockets : RegisterFails(s) \/ OnCloseMisses(s)
  <2>1. UNCHANGED <<ws, bucket, map_, topic, callbacks, conn>>
    BY <1>11 DEF EventThread, DomainEvent, EnterCallback, Broadcast, BroadcastFreed,
        ConnectFails, RegisterFails, OnCloseMisses, vars
  <2> QED
    BY <1>t, <2>1 DEF CaptureInv, User
<1> QED
  BY <1>1, <1>2, <1>3, <1>4, <1>5, <1>6, <1>7, <1>8, <1>9, <1>10, <1>11
  DEF Next, Handler, Link

\* With one thread, a user whose bucket is empty has no open websocket.
LEMMA EmptyBucket ==
    ASSUME IndInv, SerialInv, NEW u \in Users, map_[u] = {}
    PROVE  \A t \in Sockets : UserOf[t] = u => ws[t] # "open"
<1> SUFFICES ASSUME NEW t \in Sockets, UserOf[t] = u, ws[t] = "open" PROVE FALSE
  OBVIOUS
<1>1. PICK k \in Keys : t \in map_[k]
  BY DEF IndInv, PoolInv, Pooled
<1>2. k \in {u, NoUser}
  BY <1>1 DEF IndInv, PoolInv
<1> QED
  BY <1>1, <1>2 DEF SerialInv, CaptureInv

\* With one thread, every step preserves SerialInv.
LEMMA SerialStep ==
    Threads = 1 /\ IndInv /\ SerialInv /\ [Next]_vars => SerialInv'
<1> SUFFICES ASSUME Threads = 1, IndInv, SerialInv, [Next]_vars
             PROVE  SerialInv'
  OBVIOUS
<1>t. TypeOK /\ TypeOK' /\ CaptureInv'
  BY TypeStep, CaptureStep DEF IndInv
<1> USE UserOfType DEF TypeOK, Keys, WsState, MidHandler, poolVars, eventVars,
                       connVars, loopVars
<1>1. ASSUME NEW u \in Users, ResetConnection(u) PROVE SerialInv'
  <2>1. Active = {}
    BY <1>1, <1>t, FreeMeansIdle DEF ResetConnection, SerialInv
  <2>2. IsFiniteSet(connecting')
    BY <1>1, FS_Singleton DEF ResetConnection
  <2> QED
    BY <1>1, <1>t, <2>1, <2>2 DEF ResetConnection, SerialInv, Active, Subscribed
<1>2. ASSUME NEW u \in Users, Connected(u) PROVE SerialInv'
  <2>1. IsFiniteSet(connecting')
    BY <1>2, FS_EmptySet DEF Connected
  <2> QED
    BY <1>2, <1>t, <2>1 DEF Connected, SerialInv, Active, Subscribed
<1>3. ASSUME NEW u \in Users, ConnectFails(u) PROVE SerialInv'
  <2>1. IsFiniteSet(connecting')
    BY <1>3, FS_EmptySet DEF ConnectFails
  <2> QED
    BY <1>3, <1>t, <2>1 DEF ConnectFails, SerialInv, Active, Subscribed
<1>4. ASSUME NEW u \in Users, LinkLost(u) PROVE SerialInv'
  <2>1. \A v \in Users : conn'[v].named = conn[v].named
    BY <1>4, <1>t DEF LinkLost
  <2>2. UNCHANGED <<ws, map_, entries, lifecycle, connecting>>
    BY <1>4 DEF LinkLost
  <2>3. \A s \in Sockets : ws'[s] = "publish" => conn'[UserOf[s]].named
    BY <2>1, <2>2 DEF SerialInv
  <2>4. Subscribed' /\ NoUser \notin entries' /\ IsFiniteSet(connecting')
    BY <2>2 DEF SerialInv, Subscribed
  <2>5. Active' = Active
    BY <2>2 DEF Active
  <2> QED
    BY <1>t, <2>2, <2>3, <2>4, <2>5 DEF SerialInv
<1>5. ASSUME NEW s \in Sockets, Websocket(s) PROVE SerialInv'
  <2>1. Active = {}
    BY <1>5, <1>t, FreeMeansIdle DEF Websocket, SerialInv
  <2> QED
    BY <1>5, <1>t, <2>1 DEF Websocket, SerialInv, Active, Subscribed
<1>5a. ASSUME NEW s \in Sockets, CaptureUser(s) PROVE SerialInv'
  BY <1>5a, <1>t DEF CaptureUser, SerialInv, Active, Subscribed
\* No other handler has seen the bucket empty.
<1>5b. ASSUME NEW s \in Sockets, AddSocket(s) PROVE SerialInv'
  <2>0. PICK w \in {"added", "plain"} : ws' = [ws EXCEPT ![s] = w]
    BY <1>5b DEF AddSocket
  <2>1. ws[s] = "captured" /\ \A t \in Sockets \ {s} : ws[t] \notin MidHandler
    BY <1>5b, <1>t DEF AddSocket, SerialInv, Active
  <2>2. \A t \in Sockets : ws'[t] \notin MidHandler
    BY <1>t, <2>0, <2>1
  <2>3. Subscribed'
    BY <1>5b, <1>t, <2>0, <2>1 DEF AddSocket, SerialInv, Subscribed
  <2> QED
    BY <1>5b, <1>t, <2>2, <2>3 DEF AddSocket, SerialInv, Active
<1>6. ASSUME NEW s \in Sockets, AcceptFails(s) PROVE SerialInv'
  BY <1>6, <1>t DEF AcceptFails, SerialInv, Active, Subscribed
\* The search is not disturbed, and an entry that is found holds an event.
<1>7. ASSUME NEW s \in Sockets, OnHandshake(s) PROVE SerialInv'
  <2>1. Active = {} /\ connecting = {}
    BY <1>7, <1>t, FreeMeansIdle DEF OnHandshake, SerialInv
  <2>2. holder = {} /\ \A k \in entries : lifecycle[k] # {}
    <3>1. \A t \in Sockets : ws[t] \notin MidHandler
      BY <2>1 DEF Active
    <3>2. holder = {}
      BY <1>t, <3>1 DEF IndInv, LockInv
    <3> QED
      BY <3>1, <3>2 DEF IndInv, EntryInv
  <2>3. FindOutcomes(UserOf[s]) = {User(UserOf[s]) \in entries}
    BY <2>2 DEF FindOutcomes
  <2>4. User(UserOf[s]) \in entries => lifecycle[UserOf[s]] # {}
    BY <2>2 DEF User, SerialInv
  <2>5. CASE User(UserOf[s]) \in entries
    <3>1. ws' = [ws EXCEPT ![s] = "open"]
      BY <1>7, <2>3, <2>5 DEF OnHandshake
    <3> QED
      BY <1>7, <1>t, <2>1, <2>4, <2>5, <3>1 DEF OnHandshake, SerialInv, Active, Subscribed
  <2>6. CASE User(UserOf[s]) \notin entries
    <3>1. ws' = [ws EXCEPT ![s] = "register"]
      BY <1>7, <2>3, <2>6 DEF OnHandshake
    <3> QED
      BY <1>7, <1>t, <2>1, <3>1 DEF OnHandshake, SerialInv, Active, Subscribed
  <2> QED
    BY <2>5, <2>6
<1>8. ASSUME NEW s \in Sockets, AddEvents(s) PROVE SerialInv'
  BY <1>8, <1>t DEF AddEvents, SerialInv, Active, Subscribed
<1>8a. ASSUME NEW s \in Sockets, Register(s) PROVE SerialInv'
  <2>1. conn[UserOf[s]].named
    BY <1>8a DEF Register, Usable, IndInv, LinkInv
  <2> QED
    BY <1>8a, <1>t, <2>1 DEF Register, SerialInv, Active, Subscribed
<1>9. ASSUME NEW s \in Sockets, SetEvent(s) PROVE SerialInv'
  <2>1. User(UserOf[s]) = UserOf[s]
    BY <1>9 DEF SetEvent, SerialInv, User
  <2>2. \A v \in Users : lifecycle[v] # {} => lifecycle'[v] # {}
    BY <1>9, <1>t, <2>1, SMTT(40) DEF SetEvent
  <2>3. lifecycle'[UserOf[s]] # {}
    <3>1. CASE lifecycle[UserOf[s]] = {}
      <4>1. s \in lifecycle'[UserOf[s]]
        BY <1>9, <1>t, <2>1, <3>1 DEF SetEvent
      <4> QED
        BY <4>1
    <3>2. CASE lifecycle[UserOf[s]] # {}
      BY <2>2, <3>2
    <3> QED
      BY <3>1, <3>2
  <2>4. NoUser \notin entries'
    BY <1>9, <2>1, SocketsAssumption DEF SetEvent, SerialInv
  <2>5. Subscribed'
    <3>1. ws' = [ws EXCEPT ![s] = "open"]
      BY <1>9 DEF SetEvent
    <3>2. \A t \in Sockets : ws'[t] = "open" => ws[t] = "open" \/ t = s
      BY <1>t, <3>1
    <3> QED
      BY <2>2, <2>3, <3>2 DEF SerialInv, Subscribed
  <2> QED
    BY <1>9, <1>t, <2>4, <2>5 DEF SetEvent, SerialInv, Active
<1>10. ASSUME NEW s \in Sockets, ReadFails(s) PROVE SerialInv'
  BY <1>10, <1>t DEF ReadFails, SerialInv, Active, Subscribed
<1>11. ASSUME NEW s \in Sockets, OnClose(s) PROVE SerialInv'
  <2>1. Active = {} /\ connecting = {}
    BY <1>11, <1>t, FreeMeansIdle DEF OnClose, SerialInv
  <2> QED
    BY <1>11, <1>t, <2>1 DEF OnClose, SerialInv, Active, Subscribed
<1>12. ASSUME NEW s \in Sockets, CheckEmpty(s) PROVE SerialInv'
  <2>1. bucket[s] = UserOf[s]
    BY <1>12 DEF CheckEmpty, SerialInv, CaptureInv
  <2> QED
    BY <1>12, <1>t, <2>1 DEF CheckEmpty, BucketEmpty, SerialInv, Active, Subscribed
\* The bucket is still empty: no websocket of the user is open.
<1>13. ASSUME NEW s \in Sockets, RemoveEvents(s) PROVE SerialInv'
  <2>1. map_[UserOf[s]] = {}
    BY <1>13 DEF RemoveEvents, SerialInv
  <2>2. \A t \in Sockets : UserOf[t] = UserOf[s] => ws[t] # "open"
    BY <2>1, EmptyBucket
  <2>3. \A v \in Users \ {UserOf[s]} : lifecycle'[v] = lifecycle[v]
    BY <1>13, <1>t, SocketsAssumption DEF RemoveEvents, User
  <2>4. Subscribed'
    BY <1>13, <1>t, <2>2, <2>3 DEF RemoveEvents, SerialInv, Subscribed
  <2> QED
    BY <1>13, <1>t, <2>4, SMTT(40) DEF RemoveEvents, SerialInv, Active
<1>14. ASSUME NEW s \in Sockets, EraseEntry(s) PROVE SerialInv'
  BY <1>14, <1>t DEF EraseEntry, SerialInv, Active, Subscribed
<1>15. CASE \/ EventThread \/ UNCHANGED vars
            \/ \E s \in Sockets : RegisterFails(s) \/ OnCloseMisses(s)
  <2>1. UNCHANGED <<ws, map_, entries, lifecycle, connecting, conn>>
    BY <1>15 DEF EventThread, DomainEvent, EnterCallback, Broadcast, BroadcastFreed,
        RegisterFails, OnCloseMisses, vars
  <2> QED
    BY <1>t, <2>1, SMTT(40) DEF SerialInv, Active, Subscribed
<1> QED
  BY <1>1, <1>2, <1>3, <1>4, <1>5, <1>5a, <1>5b, <1>6, <1>7, <1>8, <1>8a, <1>9,
     <1>10, <1>11, <1>12, <1>13, <1>14, <1>15
  DEF Next, Handler, Link

\* With one thread, SerialInv holds in every reachable state.
LEMMA SerialInductive == ASSUME Threads = 1 PROVE Spec => []SerialInv
<1>1. Init => SerialInv
  BY FS_EmptySet DEF Init, SerialInv, CaptureInv, Active, MidHandler, Subscribed, Keys
<1>2. IndInv /\ SerialInv /\ [Next]_vars => SerialInv'
  BY SerialStep
<1> QED
  BY <1>1, <1>2, Inductive, PTL DEF Spec

\* With one io_context thread, a failed websocket keeps the user's events from
\* ever being removed, however often the libvirt connection is replaced.
THEOREM SerialPinsForever == ASSUME Threads = 1 PROVE Spec => PinnedForever
<1>1. ASSUME IndInv, SerialInv, [Next]_vars, NEW u \in Users, Pinned(u)
      PROVE  lifecycle[u] \subseteq lifecycle'[u] /\ Pinned(u)'
  <2>1. \A s \in Sockets : UserOf[s] = u /\ ws[s] = "emptycheck" => bucket[s] = u
    BY <1>1 DEF SerialInv, CaptureInv
  <2> QED
    BY <1>1, <2>1, PinnedStep
<1>2. IndInv /\ SerialInv /\ [Next]_vars =>
        [\A u \in Users :
            Pinned(u) => lifecycle[u] \subseteq lifecycle'[u] /\ Pinned(u)']_vars
  BY <1>1
<1> QED
  BY <1>2, Inductive, SerialInductive, PTL DEF Spec, PinnedForever

\* With one io_context thread, an open websocket's user always has its libvirt
\* events: on_close of another websocket never takes them away.
THEOREM SerialIsSubscribed == ASSUME Threads = 1 PROVE Spec => []Subscribed
<1>1. SerialInv => Subscribed
  BY DEF SerialInv
<1> QED
  BY <1>1, SerialInductive, PTL

----------------------------------------------------------------------------
(***************************************************************************)
(* The refinement: with one thread, Subscriptions implements Topic.         *)
(***************************************************************************)
\* The websockets of u that are subscribed, and whether u's topic is on.
Subs(u) == {s \in Sockets : UserOf[s] = u /\ ws[s] = "open"}
On(u) == lifecycle[u] # {}

\* A step that neither opens nor leaves a websocket and keeps each user's events
\* on or off is a step that Topic does not see.
LEMMA TopicStutter ==
    ASSUME \A s \in Sockets : ws[s] = "open" <=> ws'[s] = "open",
           \A u \in Users : (lifecycle[u] # {}) <=> (lifecycle'[u] # {})
    PROVE  UNCHANGED T!vars
<1>1. \A u \in Users : Subs(u)' = Subs(u) /\ (On(u)' <=> On(u))
  BY DEF Subs, On
<1>b. \A u \in Users : On(u)' = On(u)
  BY <1>1, Zenon DEF On
<1>2. [u \in Users |-> Subs(u)]' = [u \in Users |-> Subs(u)]
  BY <1>1
<1>3. [u \in Users |-> On(u)]' = [u \in Users |-> On(u)]
  BY <1>b, Zenon
<1> QED
  BY <1>2, <1>3 DEF T!vars, Subs, On

\* A step that opens s with its user's events on is a Join.
LEMMA TopicJoin ==
    ASSUME TypeOK, NEW s \in Sockets, ws[s] # "open", ws' = [ws EXCEPT ![s] = "open"],
           lifecycle'[UserOf[s]] # {},
           \A u \in Users \ {UserOf[s]} : lifecycle'[u] = lifecycle[u]
    PROVE  T!Join(s)
<1>1. Subs(UserOf[s])' = Subs(UserOf[s]) \cup {s} /\ s \notin Subs(UserOf[s])
  BY DEF TypeOK, Subs
<1>2. \A u \in Users \ {UserOf[s]} : Subs(u)' = Subs(u) /\ (On(u)' <=> On(u))
  BY DEF TypeOK, Subs, On
<1>3. On(UserOf[s])' = TRUE
  BY Zenon DEF On
<1>b. \A u \in Users \ {UserOf[s]} : On(u)' = On(u)
  BY <1>2, Zenon DEF On
<1>4. [u \in Users |-> Subs(u)]' =
         [[u \in Users |-> Subs(u)] EXCEPT ![UserOf[s]] = @ \cup {s}]
  BY <1>1, <1>2, UserOfType
<1>5. [u \in Users |-> On(u)]' = [[u \in Users |-> On(u)] EXCEPT ![UserOf[s]] = TRUE]
  BY <1>b, <1>3, UserOfType, Zenon
<1> QED
  BY <1>1, <1>4, <1>5, UserOfType DEF T!Join, Subs, On

\* A step that takes s out of the open websockets and no event away is a Leave.
LEMMA TopicLeave ==
    ASSUME TypeOK, NEW s \in Sockets, NEW w \in WsState \ {"open"},
           ws[s] = "open", ws' = [ws EXCEPT ![s] = w], lifecycle' = lifecycle
    PROVE  T!Leave(s)
<1>1. Subs(UserOf[s])' = Subs(UserOf[s]) \ {s} /\ s \in Subs(UserOf[s])
  BY DEF TypeOK, Subs
<1>2. \A u \in Users \ {UserOf[s]} : Subs(u)' = Subs(u)
  BY DEF TypeOK, Subs
<1>3. [u \in Users |-> Subs(u)]' =
         [[u \in Users |-> Subs(u)] EXCEPT ![UserOf[s]] = @ \ {s}]
  BY <1>1, <1>2, UserOfType
<1>4. [u \in Users |-> On(u)]' = [u \in Users |-> On(u)]
  BY DEF On
<1> QED
  BY <1>1, <1>3, <1>4, UserOfType DEF T!Leave, Subs, On

\* Removing the events of a user without open websockets is a SwitchOff.
LEMMA TopicSwitchOff ==
    ASSUME TypeOK, NEW u \in Users, \A s \in Sockets : UserOf[s] = u => ws[s] # "open",
           \A s \in Sockets : ws[s] = "open" <=> ws'[s] = "open",
           lifecycle' = [lifecycle EXCEPT ![u] = {}]
    PROVE  T!SwitchOff(u)
<1>1. Subs(u) = {}
  BY DEF Subs
<1>2. \A v \in Users : Subs(v)' = Subs(v)
  BY DEF Subs
<1>3. ~ On(u)' /\ \A v \in Users \ {u} : On(v)' <=> On(v)
  BY DEF TypeOK, Keys, On
<1>b. On(u)' = FALSE /\ \A v \in Users \ {u} : On(v)' = On(v)
  BY <1>3, Zenon DEF On
<1>4. [v \in Users |-> Subs(v)]' = [v \in Users |-> Subs(v)]
  BY <1>2
<1>5. [v \in Users |-> On(v)]' = [[v \in Users |-> On(v)] EXCEPT ![u] = FALSE]
  BY <1>b, Zenon
<1> QED
  BY <1>1, <1>4, <1>5 DEF T!SwitchOff, Subs, On

\* With one thread, every step is a step of Topic or one it does not see.
LEMMA TopicStep ==
    Threads = 1 /\ IndInv /\ SerialInv /\ SerialInv' /\ [Next]_vars => [T!Next]_(T!vars)
<1> SUFFICES ASSUME Threads = 1, IndInv, SerialInv, SerialInv', [Next]_vars
             PROVE  T!Next \/ UNCHANGED T!vars
  OBVIOUS
<1>t. TypeOK
  BY DEF IndInv
<1> USE UserOfType DEF Keys, WsState, MidHandler, poolVars, eventVars, connVars,
                       loopVars
<1>1. ASSUME NEW s \in Sockets, OnHandshake(s) PROVE T!Next \/ UNCHANGED T!vars
  <2>1. ws[s] = "added" /\ lifecycle' = lifecycle
    BY <1>1 DEF OnHandshake
  <2>2. CASE ws' = [ws EXCEPT ![s] = "open"]
    <3>1. lifecycle'[UserOf[s]] # {}
      BY <1>t, <2>2 DEF TypeOK, SerialInv, Subscribed
    <3> QED
      BY <1>t, <2>1, <2>2, <3>1, TopicJoin DEF T!Next
  <2>3. CASE ws' = [ws EXCEPT ![s] = "register"]
    BY <1>t, <2>1, <2>3, TopicStutter DEF TypeOK
  <2> QED
    BY <1>1, <2>2, <2>3 DEF OnHandshake
<1>2. ASSUME NEW s \in Sockets, SetEvent(s) PROVE T!Next \/ UNCHANGED T!vars
  <2>1. ws[s] = "publish" /\ ws' = [ws EXCEPT ![s] = "open"]
    BY <1>2 DEF SetEvent
  <2>2. lifecycle'[UserOf[s]] # {}
    BY <1>t, <2>1 DEF TypeOK, SerialInv, Subscribed
  <2>3. \A u \in Users \ {UserOf[s]} : lifecycle'[u] = lifecycle[u]
    BY <1>2, <1>t, SocketsAssumption DEF SetEvent, User, TypeOK
  <2> QED
    BY <1>t, <2>1, <2>2, <2>3, TopicJoin DEF T!Next
<1>3. ASSUME NEW s \in Sockets, ReadFails(s) \/ OnClose(s) PROVE T!Next
  BY <1>3, <1>t, TopicLeave DEF ReadFails, OnClose, T!Next
<1>4. ASSUME NEW s \in Sockets, RemoveEvents(s) PROVE T!Next \/ UNCHANGED T!vars
  <2>1. map_[UserOf[s]] = {} /\ ws[s] = "unregister"
    BY <1>4 DEF RemoveEvents, SerialInv
  <2>2. \A t \in Sockets : UserOf[t] = UserOf[s] => ws[t] # "open"
    BY <2>1, EmptyBucket
  <2>3. \A t \in Sockets : ws[t] = "open" <=> ws'[t] = "open"
    BY <1>4, <1>t, <2>1 DEF RemoveEvents, TypeOK
  <2>4. CASE lifecycle' = [lifecycle EXCEPT ![UserOf[s]] = {}]
    BY <1>t, <2>2, <2>3, <2>4, TopicSwitchOff DEF T!Next
  <2>5. CASE lifecycle' = lifecycle
    BY <2>3, <2>5, TopicStutter
  <2> QED
    BY <1>4, <2>4, <2>5 DEF RemoveEvents, User, SerialInv
<1>5. ASSUME NEW s \in Sockets,
             \/ Websocket(s) \/ CaptureUser(s) \/ AddSocket(s) \/ AcceptFails(s)
             \/ AddEvents(s) \/ Register(s) \/ RegisterFails(s) \/ OnCloseMisses(s)
             \/ CheckEmpty(s) \/ EraseEntry(s)
      PROVE  UNCHANGED T!vars
  <2>1. lifecycle' = lifecycle
    BY <1>5 DEF Websocket, CaptureUser, AddSocket, AcceptFails, AddEvents, Register,
                RegisterFails, OnCloseMisses, CheckEmpty, EraseEntry
  <2>2. \A t \in Sockets : ws[t] = "open" <=> ws'[t] = "open"
    BY <1>5, <1>t DEF Websocket, CaptureUser, AddSocket, AcceptFails, AddEvents, Register,
                RegisterFails, OnCloseMisses, CheckEmpty, EraseEntry, TypeOK
  <2> QED
    BY <2>1, <2>2, TopicStutter
<1>6. CASE EventThread \/ (\E u \in Users : Link(u)) \/ UNCHANGED vars
  <2>1. UNCHANGED <<ws, lifecycle>>
    BY <1>6 DEF EventThread, DomainEvent, EnterCallback, Broadcast, BroadcastFreed, Link,
                ResetConnection, Connected, ConnectFails, LinkLost, vars
  <2> QED
    BY <2>1, TopicStutter
<1> QED
  BY <1>1, <1>2, <1>3, <1>4, <1>5, <1>6 DEF Next, Handler

\* With one io_context thread, webvirtd implements Topic: joining switches the
\* user's events on, and they are switched off only when nobody is subscribed.
THEOREM TopicRefined == ASSUME Threads = 1 PROVE Spec => TopicSpec
<1>1. Init => T!Init
  BY UserOfType DEF Init, T!Init, Keys
<1>2. IndInv /\ SerialInv /\ SerialInv' /\ [Next]_vars => [T!Next]_(T!vars)
  BY TopicStep
<1> QED
  BY <1>1, <1>2, Inductive, SerialInductive, PTL DEF Spec, TopicSpec, T!Spec
----------------------------------------------------------------------------
(***************************************************************************)
(* Delivery: with one thread a libvirt event is written once to each open   *)
(* websocket of its user.                                                   *)
(***************************************************************************)
\* A handler that starts leaves the events and their callbacks alone.
LEMMA SingleKept ==
    ASSUME SingleInv, UNCHANGED <<lifecycle, callbacks>>,
           \A s \in Sockets :
              /\ ws'[s] = "register" => ws[s] = "register"
              /\ ws'[s] = "construct" => ws[s] \in {"register", "construct"}
              /\ ws'[s] = "publish" => ws[s] = "publish",
           \A u \in Users : Usable(u)' => Usable(u) \/ Active = {}
    PROVE  SingleInv'
<1>1. \A s \in Sockets : ws'[s] \in {"register", "construct"} /\ Usable(UserOf[s])' =>
                            lifecycle[UserOf[s]] = {}
  BY UserOfType DEF SingleInv, Active, MidHandler
<1> QED
  BY <1>1 DEF SingleInv

\* With one thread, every step preserves SingleInv.
LEMMA SingleStep ==
    Threads = 1 /\ IndInv /\ SerialInv /\ SingleInv /\ [Next]_vars => SingleInv'
<1> SUFFICES ASSUME Threads = 1, IndInv, SerialInv, SingleInv, [Next]_vars
             PROVE  SingleInv'
  OBVIOUS
<1>t. TypeOK /\ TypeOK'
  BY TypeStep DEF IndInv
<1> USE UserOfType DEF Keys, WsState, MidHandler, poolVars, eventVars, connVars, loopVars
<1>1. ASSUME NEW u \in Users, ResetConnection(u) \/ ConnectFails(u) \/ LinkLost(u)
      PROVE  SingleInv'
  <2>1. \A v \in Users : Usable(v)' => Usable(v)
    BY <1>1, <1>t DEF ResetConnection, ConnectFails, LinkLost, Usable, Disconnected, TypeOK
  <2>2. UNCHANGED <<ws, lifecycle, callbacks>>
    BY <1>1 DEF ResetConnection, ConnectFails, LinkLost
  <2> QED
    BY <2>1, <2>2, SingleKept
<1>2. ASSUME NEW u \in Users, Connected(u) PROVE SingleInv'
  <2>1. Active = {}
    BY <1>2 DEF Connected, SerialInv
  <2>2. UNCHANGED <<ws, lifecycle, callbacks>>
    BY <1>2 DEF Connected
  <2> QED
    BY <2>1, <2>2, SingleKept
<1>3. ASSUME NEW s \in Sockets,
             \/ Websocket(s) \/ CaptureUser(s) \/ AddSocket(s) \/ AcceptFails(s)
             \/ AddEvents(s) \/ ReadFails(s) \/ OnClose(s) \/ CheckEmpty(s)
             \/ EraseEntry(s)
      PROVE  SingleInv'
  <2>1. \A v \in Users : Usable(v)' => Usable(v)
    BY <1>3 DEF Websocket, CaptureUser, AddSocket, AcceptFails, AddEvents, ReadFails,
                OnClose, CheckEmpty, EraseEntry, Usable
  <2>2. UNCHANGED <<lifecycle, callbacks>>
    BY <1>3 DEF Websocket, CaptureUser, AddSocket, AcceptFails, AddEvents, ReadFails,
                OnClose, CheckEmpty, EraseEntry
  <2>3. \A t \in Sockets :
           /\ ws'[t] \in {"register", "publish"} => ws'[t] = ws[t]
           /\ ws'[t] = "construct" => ws[t] \in {"register", "construct"}
    BY <1>3, <1>t DEF Websocket, CaptureUser, AddSocket, AcceptFails, AddEvents, ReadFails,
                OnClose, CheckEmpty, EraseEntry, TypeOK
  <2> QED
    BY <2>1, <2>2, <2>3, SingleKept
\* Without an entry for the user there is no event of the user.
<1>4. ASSUME NEW s \in Sockets, OnHandshake(s) PROVE SingleInv'
  <2>1. Active = {} /\ connecting = {}
    BY <1>4, <1>t, FreeMeansIdle DEF OnHandshake, SerialInv
  <2>2. holder = {}
    BY <1>t, <2>1 DEF IndInv, LockInv, Active, TypeOK
  <2>3. FindOutcomes(UserOf[s]) = {User(UserOf[s]) \in entries}
    BY <2>2 DEF FindOutcomes
  <2>4. ws'[s] = "register" => User(UserOf[s]) \notin entries
    BY <1>4, <1>t, <2>3 DEF OnHandshake, TypeOK
  <2>5. ws'[s] = "register" /\ Usable(UserOf[s]) => lifecycle[UserOf[s]] = {}
    BY <2>4 DEF Usable, User, IndInv, LinkInv, EntryInv
  <2>6. \A t \in Sockets : ws'[t] \in {"register", "construct", "publish"} =>
                              t = s /\ ws'[t] = "register"
    BY <1>4, <1>t, <2>1 DEF OnHandshake, Active, TypeOK
  <2> QED
    BY <1>4, <2>5, <2>6 DEF OnHandshake, SingleInv, Usable
<1>5. ASSUME NEW s \in Sockets, Register(s) PROVE SingleInv'
  <2>1. lifecycle[UserOf[s]] = {}
    BY <1>5 DEF Register, SingleInv
  <2>2. \A t \in Sockets : ws'[t] \in {"register", "construct", "publish"} =>
                              t = s /\ ws'[t] = "publish"
    BY <1>5, <1>t DEF Register, SerialInv, Active, TypeOK
  <2>3. callbacks \subseteq callbacks' /\ \E c \in callbacks' : c.ev = s
    <3> DEFINE new == [link |-> conn[UserOf[s]].ptr, id |-> nextId[UserOf[s]], ev |-> s]
    <3>1. callbacks' = callbacks \cup {new}
      BY <1>5 DEF Register
    <3>2. new.ev = s
      OBVIOUS
    <3> HIDE DEF new
    <3> QED
      BY <3>1, <3>2
  <2>4. lifecycle' = lifecycle
    BY <1>5 DEF Register
  <2> QED
    BY <2>1, <2>2, <2>3, <2>4 DEF SingleInv
\* The event that is stored is the user's only one.
<1>6. ASSUME NEW s \in Sockets, SetEvent(s) PROVE SingleInv'
  <2>1. User(UserOf[s]) = UserOf[s] /\ lifecycle[UserOf[s]] = {}
    BY <1>6 DEF SetEvent, SerialInv, SingleInv, User
  <2>2. lifecycle' = [lifecycle EXCEPT ![UserOf[s]] = {s}] /\ callbacks' = callbacks
    BY <1>6, <2>1 DEF SetEvent
  <2>3. \A t \in Sockets : ws'[t] \notin {"register", "construct", "publish"}
    BY <1>6, <1>t DEF SetEvent, SerialInv, Active, TypeOK
  <2>4. \E c \in callbacks : c.ev = s
    BY <1>6 DEF SetEvent, SingleInv
  <2> QED
    BY <1>t, <2>2, <2>3, <2>4 DEF SingleInv, TypeOK
\* Only callbacks of the user whose events go are deregistered.
<1>7. ASSUME NEW s \in Sockets, RemoveEvents(s) PROVE SingleInv'
  <2>1. \A t \in Sockets : ws'[t] \notin {"register", "construct", "publish"}
    BY <1>7, <1>t DEF RemoveEvents, SerialInv, Active, TypeOK
  <2>2. CASE User(UserOf[s]) \in entries
    <3>1. User(UserOf[s]) = UserOf[s]
      BY <2>2 DEF SerialInv, User
    <3>2. lifecycle' = [lifecycle EXCEPT ![UserOf[s]] = {}]
      BY <1>7, <2>2, <3>1 DEF RemoveEvents
    <3>3. \A c \in callbacks : UserOf[c.ev] # UserOf[s] => c \in callbacks'
      <4>1. \A e \in lifecycle[UserOf[s]] : UserOf[e] = UserOf[s]
        BY <1>t, SocketsAssumption DEF IndInv, EntryInv, TypeOK
      <4> QED
        BY <1>7, <2>2, <3>1, <4>1 DEF RemoveEvents, Deregistered
    <3>4. \A u \in Users : \A e \in lifecycle[u] : UserOf[e] = u
      BY <1>t, SocketsAssumption DEF IndInv, EntryInv, TypeOK
    <3>5. ASSUME NEW u \in Users, NEW e \in lifecycle'[u]
          PROVE  \E c \in callbacks' : c.ev = e
      <4>1. u # UserOf[s] /\ e \in lifecycle[u]
        BY <1>t, <3>2, <3>5 DEF TypeOK
      <4>2. PICK c \in callbacks : c.ev = e
        BY <4>1 DEF SingleInv
      <4> QED
        BY <3>3, <3>4, <4>1, <4>2
    <3>6. \A u \in Users : \A e, f \in lifecycle'[u] : e = f
      BY <1>t, <3>2 DEF SingleInv, TypeOK
    <3> QED
      BY <2>1, <3>2, <3>5, <3>6 DEF SingleInv
  <2>3. CASE User(UserOf[s]) \notin entries
    BY <1>7, <2>1, <2>3 DEF RemoveEvents, SingleInv
  <2> QED
    BY <2>2, <2>3
<1>8. CASE \/ EventThread \/ UNCHANGED vars
           \/ \E s \in Sockets : RegisterFails(s) \/ OnCloseMisses(s)
  <2>1. UNCHANGED <<ws, lifecycle, callbacks, conn>>
    BY <1>8 DEF EventThread, DomainEvent, EnterCallback, Broadcast, BroadcastFreed,
                RegisterFails, OnCloseMisses, vars
  <2> QED
    BY <2>1, SingleKept DEF Usable
<1> QED
  BY <1>1, <1>2, <1>3, <1>4, <1>5, <1>6, <1>7, <1>8 DEF Next, Handler, Link

\* The callbacks of a user with an open websocket are those of its one event.
LEMMA OneCallback ==
    ASSUME IndInv, SerialInv, SingleInv, NEW s \in Sockets, ws[s] = "open"
    PROVE  /\ Registered(UserOf[s]) \subseteq lifecycle[UserOf[s]]
           /\ opened[UserOf[s]] <= 1 /\ Usable(UserOf[s]) =>
                 Registered(UserOf[s]) = lifecycle[UserOf[s]]
<1> DEFINE u == UserOf[s]
<1>t. u \in Users /\ TypeOK /\ lifecycle[u] # {}
  BY UserOfType DEF IndInv, SerialInv, Subscribed
<1>1. lifecycle[NoUser] = {}
  BY DEF IndInv, EntryInv, SerialInv, Keys
<1>2. ASSUME NEW e \in Registered(u) PROVE e \in lifecycle[u]
  <2>1. PICK c \in callbacks : c.ev = e /\ UserOf[e] = u /\ c.link = conn[u].ptr
    BY <1>2 DEF Registered
  <2>2. Alive(e)
    BY <2>1 DEF IndInv, CallbackInv
  <2>3. e \in Sockets /\ ws[e] # "publish"
    BY <1>t, <1>2, <2>1 DEF SingleInv, Registered
  <2>4. PICK k \in Keys : e \in lifecycle[k]
    BY <2>2, <2>3 DEF Alive
  <2>5. k \in {UserOf[e], NoUser}
    BY <2>4 DEF IndInv, EntryInv
  <2> QED
    BY <1>1, <2>1, <2>4, <2>5
<1>3. ASSUME opened[u] <= 1, Usable(u), NEW e \in lifecycle[u] PROVE e \in Registered(u)
  <2>1. PICK c \in callbacks : c.ev = e
    BY <1>t DEF SingleInv
  <2>2. e \in Sockets /\ UserOf[e] = u
    BY <1>t, SocketsAssumption DEF IndInv, EntryInv, TypeOK, Keys
  <2>3. c.link # 0 /\ c.link <= opened[u] /\ c.link \in Nat
    BY <1>t, <2>1, <2>2 DEF IndInv, CallbackInv, TypeOK
  <2>4. conn[u].ptr # 0 /\ conn[u].ptr <= opened[u] /\ conn[u].ptr \in Nat
    BY <1>t, <1>3 DEF IndInv, LinkInv, Usable, TypeOK
  <2>5. opened[u] <= 1 /\ opened[u] \in Nat
    BY <1>t, <1>3 DEF TypeOK
  <2>6. c.link = conn[u].ptr
    BY <2>3, <2>4, <2>5
  <2> QED
    BY <2>1, <2>2, <2>6 DEF Registered
<1> QED
  BY <1>2, <1>3
\* A step that opens no websocket of dispatch.expect, and keeps the events of the
\* open ones, is of no concern to the event thread.
LEMMA DeliveryKept ==
    ASSUME DeliveryInv, UNCHANGED loopVars,
           \A s \in dispatch.expect : opened'[UserOf[s]] <= 1 => opened[UserOf[s]] <= 1,
           \A s \in dispatch.expect :
              ws[s] \notin Unborn \cup {"publish"} => ws'[s] \notin Unborn \cup {"publish"},
           \A s \in dispatch.expect :
              ws'[s] = "open" /\ ws[s] \notin Unborn \cup {"publish"} =>
                 ws[s] = "open" /\ lifecycle'[UserOf[s]] = lifecycle[UserOf[s]]
    PROVE  DeliveryInv'
BY DEF DeliveryInv, LoopIdle, loopVars

\* With one thread, every step preserves DeliveryInv.
LEMMA DeliveryStep ==
    /\ Threads = 1 /\ IndInv /\ SerialInv /\ SingleInv
    /\ DeliveryInv /\ [Next]_vars
    => DeliveryInv'
<1> SUFFICES ASSUME Threads = 1, IndInv, SerialInv, SingleInv, DeliveryInv, [Next]_vars
             PROVE  DeliveryInv'
  OBVIOUS
<1>t. TypeOK /\ TypeOK'
  BY TypeStep DEF IndInv
<1> USE UserOfType DEF Keys, WsState, MidHandler, Unborn, poolVars, eventVars, connVars,
                       loopVars
<1>1. ASSUME NEW s \in Sockets,
             \/ Websocket(s) \/ CaptureUser(s) \/ AddSocket(s) \/ AcceptFails(s)
             \/ OnHandshake(s) \/ AddEvents(s) \/ Register(s) \/ RegisterFails(s)
             \/ ReadFails(s) \/ OnClose(s) \/ OnCloseMisses(s) \/ CheckEmpty(s)
             \/ EraseEntry(s)
      PROVE  DeliveryInv'
  <2>1. UNCHANGED <<lifecycle, opened, loopVars>>
    BY <1>1 DEF Websocket, CaptureUser, AddSocket, AcceptFails, OnHandshake, AddEvents,
                Register, RegisterFails, ReadFails, OnClose, OnCloseMisses, CheckEmpty,
                EraseEntry
  <2>2. \A t \in Sockets :
           ws[t] \notin Unborn \cup {"publish"} =>
              /\ ws'[t] \notin Unborn \cup {"publish"}
              /\ ws'[t] = "open" => ws[t] = "open"
    BY <1>1, <1>t DEF Websocket, CaptureUser, AddSocket, AcceptFails, OnHandshake,
                AddEvents, Register, RegisterFails, ReadFails, OnClose, OnCloseMisses,
                CheckEmpty, EraseEntry, TypeOK
  <2>3. dispatch.expect \subseteq Sockets
    BY <1>t DEF TypeOK
  <2> QED
    BY <2>1, <2>2, <2>3, DeliveryKept
\* A user without event has no open websocket.
<1>2. ASSUME NEW s \in Sockets, SetEvent(s) PROVE DeliveryInv'
  <2>1. User(UserOf[s]) = UserOf[s] /\ lifecycle[UserOf[s]] = {} /\ ws[s] = "publish"
    BY <1>2 DEF SetEvent, SerialInv, SingleInv, User
  <2>2. \A t \in Sockets : UserOf[t] = UserOf[s] => ws[t] # "open"
    BY <2>1 DEF SerialInv, Subscribed
  <2>3. \A u \in Users \ {UserOf[s]} : lifecycle'[u] = lifecycle[u]
    BY <1>2, <1>t, <2>1 DEF SetEvent, TypeOK
  <2>4. \A t \in Sockets \ {s} : ws'[t] = ws[t]
    BY <1>2, <1>t DEF SetEvent, TypeOK
  <2>5. dispatch.expect \subseteq Sockets \ {s} /\ UNCHANGED <<opened, loopVars>>
    BY <1>2, <1>t, <2>1 DEF SetEvent, DeliveryInv, TypeOK
  <2> QED
    BY <2>2, <2>3, <2>4, <2>5, DeliveryKept
\* Nor has one whose last websocket is being closed.
<1>3. ASSUME NEW s \in Sockets, RemoveEvents(s) PROVE DeliveryInv'
  <2>1. map_[UserOf[s]] = {} /\ ws[s] = "unregister"
    BY <1>3 DEF RemoveEvents, SerialInv
  <2>2. \A t \in Sockets : UserOf[t] = UserOf[s] => ws[t] # "open"
    BY <2>1, EmptyBucket
  <2>3. \A u \in Users \ {UserOf[s]} : lifecycle'[u] = lifecycle[u]
    BY <1>3, <1>t, SocketsAssumption DEF RemoveEvents, User, TypeOK
  <2>4. \A t \in Sockets : ws'[t] = ws[t] \/ (t = s /\ ws'[t] \in {"erase", "closed"})
    BY <1>3, <1>t DEF RemoveEvents, TypeOK
  <2>5. dispatch.expect \subseteq Sockets /\ UNCHANGED <<opened, loopVars>>
    BY <1>3, <1>t DEF RemoveEvents, TypeOK
  <2> QED
    BY <2>2, <2>3, <2>4, <2>5, DeliveryKept
\* The one callback of the user is to be called, and nothing is written yet.
<1>4. ASSUME NEW u \in Users, NEW target \in BOOLEAN, DomainEvent(u, target)
      PROVE  DeliveryInv'
  <2>1. /\ dispatch'.todo = Registered(u) /\ dispatch'.cur = {}
        /\ dispatch'.expect = {s \in Sockets : UserOf[s] = u /\ ws[s] = "open"}
        /\ UNCHANGED <<ws, lifecycle, opened>>
        /\ got' = [s \in Sockets |-> 0]
    BY <1>4 DEF DomainEvent
  <2>2. ASSUME NEW s \in dispatch'.expect
        PROVE  /\ ws'[s] = "open" /\ got'[s] = 0
               /\ dispatch'.todo \cup dispatch'.cur \subseteq lifecycle'[UserOf[s]]
               /\ opened'[UserOf[s]] <= 1 => dispatch'.todo # {}
    <3>1. s \in Sockets /\ UserOf[s] = u /\ ws[s] = "open"
      BY <2>1, <2>2
    <3>2. Registered(u) \subseteq lifecycle[u]
      BY <3>1, OneCallback
    <3>3. opened[u] <= 1 => Registered(u) = lifecycle[u]
      BY <1>4, <3>1, OneCallback DEF DomainEvent
    <3>4. lifecycle[u] # {}
      BY <3>1 DEF SerialInv, Subscribed
    <3> QED
      BY <2>1, <3>1, <3>2, <3>3, <3>4
  <2> QED
    BY <2>1, <2>2 DEF DeliveryInv, LoopIdle
\* libvirt still has the callback of an event that is stored.
<1>5. ASSUME NEW e \in Sockets, EnterCallback(e) PROVE DeliveryInv'
  <2>1. /\ dispatch'.todo = dispatch.todo \ {e} /\ dispatch.cur = {} /\ e \in dispatch.todo
        /\ dispatch'.cur = {c.ev : c \in {d \in callbacks : d.ev = e}}
        /\ dispatch'.expect = dispatch.expect /\ dispatch'.target = dispatch.target
        /\ UNCHANGED <<ws, lifecycle, opened, got>>
    BY <1>5, <1>t DEF EnterCallback, TypeOK
  <2>2. dispatch'.cur \subseteq {e}
    BY <2>1
  <2>3. ASSUME NEW s \in dispatch.expect, dispatch.target, ws[s] = "open"
        PROVE  /\ dispatch'.todo \cup dispatch'.cur \subseteq lifecycle[UserOf[s]]
               /\ got[s] = 0
               /\ e \in dispatch'.cur
    <3>1. e \in lifecycle[UserOf[s]] /\ dispatch.todo \subseteq lifecycle[UserOf[s]]
      BY <2>1, <2>3 DEF DeliveryInv
    <3>2. s \in Sockets
      BY <1>t DEF TypeOK
    <3>3. PICK c \in callbacks : c.ev = e
      BY <3>1, <3>2 DEF SingleInv
    <3>4. e \in dispatch'.cur
      BY <2>1, <3>3
    <3> QED
      BY <2>1, <2>2, <2>3, <3>1, <3>4 DEF DeliveryInv, LoopIdle
  <2> QED
    BY <2>1, <2>2, <2>3 DEF DeliveryInv, LoopIdle
\* The event of that callback is the only one, and all open websockets of its
\* user are in the pool.
<1>6. ASSUME NEW e \in Sockets, Broadcast(e) PROVE DeliveryInv'
  <2>1. /\ dispatch'.todo = dispatch.todo /\ dispatch'.cur = {} /\ e \in dispatch.cur
        /\ dispatch'.expect = dispatch.expect /\ dispatch'.target = dispatch.target
        /\ UNCHANGED <<ws, lifecycle, opened>>
    BY <1>6, <1>t DEF Broadcast, TypeOK
  <2>2. ASSUME NEW s \in dispatch.expect, dispatch.target, ws[s] = "open"
        PROVE  dispatch.todo = {} /\ got'[s] = 1
    <3>1. /\ dispatch.todo \cup dispatch.cur \subseteq lifecycle[UserOf[s]]
          /\ got[s] = 0
      BY <2>1, <2>2 DEF DeliveryInv, LoopIdle
    <3>2. s \in Sockets
      BY <1>t DEF TypeOK
    <3>3. dispatch.todo = {}
      BY <2>1, <3>1, <3>2 DEF DeliveryInv, SingleInv
    <3>4. UserOf[e] = UserOf[s]
      BY <1>t, <2>1, <3>1, <3>2, SocketsAssumption DEF IndInv, EntryInv, TypeOK
    <3>a. topic[e] = UserOf[s]
      <4>1. PICK c \in callbacks : c.ev = e
        BY <2>1, <3>1, <3>2 DEF SingleInv
      <4> QED
        BY <3>4, <4>1 DEF SerialInv, CaptureInv
    <3>5. s \in map_[topic[e]] /\ Streaming(s)
      <4>1. PICK k \in Keys : s \in map_[k] /\ k \in {UserOf[s], NoUser}
        BY <2>2, <3>2 DEF IndInv, PoolInv, Pooled
      <4> QED
        BY <2>2, <3>a, <4>1 DEF SerialInv, CaptureInv, Streaming
    <3> QED
      BY <1>6, <1>t, <2>2, <3>1, <3>2, <3>3, <3>5 DEF Broadcast, TypeOK
  <2> QED
    BY <2>1, <2>2 DEF DeliveryInv, LoopIdle
<1>7. CASE \/ \E u \in Users : Link(u)
           \/ \E s \in Sockets : BroadcastFreed(s)
           \/ UNCHANGED vars
  <2>1. UNCHANGED <<ws, lifecycle, loopVars>>
    BY <1>7 DEF Link, ResetConnection, Connected, ConnectFails, LinkLost, BroadcastFreed, vars
  <2>2. \A u \in Users : opened'[u] <= 1 => opened[u] <= 1
    <3>1. ASSUME NEW u \in Users, Connected(u)
          PROVE  \A v \in Users : opened'[v] <= 1 => opened[v] <= 1
      <4>1. opened' = [opened EXCEPT ![u] = @ + 1] /\ opened \in [Users -> Nat]
        BY <3>1, <1>t DEF Connected, TypeOK
      <4> QED
        BY <4>1
    <3>2. ASSUME ~\E u \in Users : Connected(u) PROVE opened' = opened
      BY <1>7, <3>2 DEF Link, ResetConnection, ConnectFails, LinkLost, BroadcastFreed, vars
    <3> QED
      BY <3>1, <3>2
  <2>3. dispatch.expect \subseteq Sockets
    BY <1>t DEF TypeOK
  <2> QED
    BY <2>1, <2>2, <2>3, DeliveryKept
<1> QED
  BY <1>1, <1>2, <1>3, <1>4, <1>5, <1>6, <1>7 DEF Next, Handler, EventThread

\* With one thread, SingleInv and DeliveryInv hold in every reachable state.
LEMMA DeliveryInductive == ASSUME Threads = 1 PROVE Spec => [](SingleInv /\ DeliveryInv)
<1>1. Init => SingleInv /\ DeliveryInv
  BY UserOfType DEF Init, SingleInv, DeliveryInv, Keys
<1>2. /\ IndInv /\ SerialInv /\ SingleInv /\ DeliveryInv /\ [Next]_vars
      => (SingleInv /\ DeliveryInv)'
  BY SingleStep, DeliveryStep
<1> QED
  BY <1>1, <1>2, Inductive, SerialInductive, PTL DEF Spec

\* With one io_context thread and as long as no libvirt connection was opened
\* again, libvirt calls webvirtd for every user with an open websocket.
THEOREM SerialIsWatched ==
    ASSUME Threads = 1 PROVE Spec => [](NeverReopened => CurrentLinkWatched)
<1>1. IndInv /\ SerialInv /\ SingleInv => (NeverReopened => CurrentLinkWatched)
  <2> SUFFICES ASSUME IndInv, SerialInv, SingleInv, NeverReopened,
                      NEW s \in Sockets, ws[s] = "open", Usable(UserOf[s])
               PROVE  Registered(UserOf[s]) # {}
    BY DEF CurrentLinkWatched
  <2>1. Registered(UserOf[s]) = lifecycle[UserOf[s]]
    BY OneCallback, UserOfType DEF NeverReopened
  <2> QED
    BY <2>1 DEF SerialInv, Subscribed
<1> QED
  BY <1>1, Inductive, SerialInductive, DeliveryInductive, PTL

\* Under the same conditions, a lifecycle event has been written exactly once to
\* each websocket that was open when it occurred and still is, although sockets
\* join and leave and other events come and go while it is handed out.
THEOREM SerialDeliversOnce ==
    ASSUME Threads = 1 PROVE Spec => [](NeverReopened => ExactlyOnce)
<1>1. TypeOK /\ DeliveryInv => (NeverReopened => ExactlyOnce)
  BY UserOfType DEF TypeOK, DeliveryInv, NeverReopened, ExactlyOnce
<1> QED
  BY <1>1, TypeCorrect, DeliveryInductive, PTL

\* With one io_context thread, no event is written twice to an open websocket,
\* however often the libvirt connection is lost and reopened.
THEOREM SerialNeverRepeats == ASSUME Threads = 1 PROVE Spec => []AtMostOnce
<1>1. DeliveryInv => AtMostOnce
  BY DEF DeliveryInv, AtMostOnce
<1> QED
  BY <1>1, DeliveryInductive, PTL
=============================================================================
