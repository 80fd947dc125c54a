--------------------------- MODULE VirtPoolProofs ---------------------------
(***************************************************************************)
(* Theorems about VirtPool, for every set of users, threads and links and   *)
(* any number of retries.                                                   *)
(***************************************************************************)
EXTENDS VirtPool, FiniteSetTheorems, TLAPS

\* Every step of VirtPool keeps the variables in their types.
LEMMA TypeStep == TypeOK /\ [Next]_vars => TypeOK'
<1> SUFFICES ASSUME TypeOK, [Next]_vars PROVE TypeOK'
  OBVIOUS
<1> USE DEF TypeOK, Pc, Outcome, poolVars, linkVars, requestVars
<1>1. ASSUME NEW t \in Threads, NEW u \in Users, Request(t, u) PROVE TypeOK'
  BY <1>1 DEF Request
<1>2. ASSUME NEW t \in Threads, GetOpen(t) \/ GetStale(t) PROVE TypeOK'
  BY <1>2 DEF GetOpen, GetStale
<1>3. ASSUME NEW t \in Threads, NEW l \in Links, Connect(t, l) PROVE TypeOK'
  BY <1>3 DEF Connect
<1>4. ASSUME NEW t \in Threads, ConnectThrows(t) \/ Watch(t) PROVE TypeOK'
  BY <1>4 DEF ConnectThrows, Watch
<1>5. ASSUME NEW t \in Threads, Call(t) \/ CallReturns(t) \/ CallFails(t)
      PROVE  TypeOK'
  BY <1>5 DEF Call, CallReturns, CallFails
<1>a. ASSUME NEW l, CloseCallback(l)
      PROVE  closed_' \in [Users -> BOOLEAN] /\ noticed' \subseteq DOMAIN owner
  BY <1>a DEF CloseCallback
<1>6. ASSUME NEW t \in Threads, CallRetries(t) \/ CallExhausts(t) PROVE TypeOK'
  <2>1. closed_' \in [Users -> BOOLEAN] /\ noticed' \subseteq DOMAIN owner
    BY <1>6, <1>a DEF CallRetries, CallExhausts
  <2>2. CASE CallRetries(t)
    BY <2>1, <2>2 DEF CallRetries
  <2>3. CASE CallExhausts(t)
    BY <2>1, <2>3 DEF CallExhausts
  <2> QED
    BY <1>6, <2>2, <2>3
<1>7. ASSUME NEW l \in Links, Die(l) \/ LoopNotices(l) PROVE TypeOK'
  <2>1. CASE Die(l)
    BY <2>1 DEF Die
  <2>2. CASE LoopNotices(l)
    <3>1. closed_' \in [Users -> BOOLEAN] /\ noticed' \subseteq DOMAIN owner
      BY <2>2, <1>a DEF LoopNotices
    <3> QED
      BY <2>2, <3>1 DEF LoopNotices
  <2> QED
    BY <1>7, <2>1, <2>2
<1>8. CASE UNCHANGED vars
  BY <1>8 DEF vars
<1> QED
  BY <1>1, <1>2, <1>3, <1>4, <1>5, <1>6, <1>7, <1>8 DEF Next, Route

\* The close callback of a link stores to the closed_ of the entry that still
\* holds this very link, whichever thread runs it.
LEMMA CallbackStep ==
    ASSUME IndInv, TypeOK', NEW l \in Links, CloseCallback(l),
           conn_' = conn_, alive' = alive, watched' = watched, owner' = owner,
           connection_mutex_' = connection_mutex_, user' = user,
           \A t \in Threads : pc'[t] \in {"connect", "watch"} => pc'[t] = pc[t]
    PROVE  IndInv'
<1> USE LinksAssumption DEF IndInv, TypeOK, CloseCallback
<1>1. conn_[owner[l]] = l /\ l \in DOMAIN owner
  BY DEF LinkInv
<1>2. LockInv'
  BY DEF LockInv
<1>3. EntryInv'
  BY <1>1 DEF EntryInv
<1>4. LinkInv'
  BY DEF LinkInv
<1>5. ClosedTracksLink'
  BY <1>1 DEF ClosedTracksLink, EntryInv
<1> QED
  BY <1>2, <1>3, <1>4, <1>5

\* Every step of VirtPool preserves the inductive invariant.
LEMMA IndStep == IndInv /\ [Next]_vars => IndInv'
<1> SUFFICES ASSUME IndInv, [Next]_vars PROVE IndInv'
  OBVIOUS
<1>0. TypeOK'
  BY TypeStep DEF IndInv
<1> USE LinksAssumption DEF IndInv, TypeOK, Pc, poolVars, linkVars, requestVars
<1>1. ASSUME NEW t \in Threads, NEW u \in Users, Request(t, u) PROVE IndInv'
  BY <1>0, <1>1 DEF Request, LockInv, EntryInv, LinkInv, ClosedTracksLink
<1>2. ASSUME NEW t \in Threads, GetOpen(t) PROVE IndInv'
  BY <1>0, <1>2 DEF GetOpen, LockInv, EntryInv, LinkInv, ClosedTracksLink
\* The entry that is replaced has no link, or one whose callback has run.
<1>3. ASSUME NEW t \in Threads, GetStale(t) PROVE IndInv'
  <2>1. LockInv'
    BY <1>3 DEF GetStale, GetLocks, LockInv
  <2>2. EntryInv' /\ ClosedTracksLink'
    BY <1>3 DEF GetStale, EntryInv, ClosedTracksLink
  <2>3. LinkInv'
    BY <1>3 DEF GetStale, LinkInv, EntryInv, ClosedTracksLink
  <2> QED
    BY <1>0, <2>1, <2>2, <2>3
<1>4. ASSUME NEW t \in Threads, NEW l \in Links, Connect(t, l) PROVE IndInv'
  <2>1. LockInv'
    BY <1>4 DEF Connect, LockInv
  <2>2. EntryInv'
    BY <1>4 DEF Connect, EntryInv
  <2>3. ClosedTracksLink'
    BY <1>4 DEF Connect, ClosedTracksLink
  <2>4. LinkInv'
    BY <1>4 DEF Connect, LinkInv, EntryInv
  <2> QED
    BY <1>0, <2>1, <2>2, <2>3, <2>4
<1>5. ASSUME NEW t \in Threads, ConnectThrows(t) PROVE IndInv'
  <2>1. LockInv'
    <3>1. pc[t] \in {"connect", "watch"} /\ connection_mutex_ = {t}
      BY <1>5 DEF ConnectThrows, LockInv
    <3>2. \A x \in Threads : pc[x] \in {"connect", "watch"} => x = t
      BY <3>1 DEF LockInv
    <3>3. \A x \in Threads : pc'[x] \notin {"connect", "watch"}
      BY <1>5, <3>2 DEF ConnectThrows
    <3> QED
      BY <3>3 DEF LockInv
  <2> QED
    BY <1>0, <1>5, <2>1 DEF ConnectThrows, EntryInv, LinkInv, ClosedTracksLink
<1>6. ASSUME NEW t \in Threads, Watch(t) PROVE IndInv'
  <2>1. LockInv'
    <3>1. pc[t] \in {"connect", "watch"} /\ connection_mutex_ = {t}
      BY <1>6 DEF Watch, LockInv
    <3>2. \A x \in Threads : pc[x] \in {"connect", "watch"} => x = t
      BY <3>1 DEF LockInv
    <3>3. \A x \in Threads : pc'[x] \notin {"connect", "watch"}
      BY <1>6, <3>2 DEF Watch
    <3> QED
      BY <3>3 DEF LockInv
  <2>2. EntryInv' /\ ClosedTracksLink'
    BY <1>6 DEF Watch, EntryInv, ClosedTracksLink
  <2>3. LinkInv'
    BY <1>6 DEF Watch, LinkInv
  <2> QED
    BY <1>0, <2>1, <2>2, <2>3
<1>7. ASSUME NEW t \in Threads, Call(t) \/ CallReturns(t) \/ CallFails(t)
      PROVE  IndInv'
  <2>1. LockInv'
    BY <1>7 DEF Call, CallReturns, CallFails, LockInv
  <2>2. UNCHANGED <<conn_, closed_, linkVars>>
    BY <1>7 DEF Call, CallReturns, CallFails
  <2> QED
    BY <1>0, <2>1, <2>2 DEF EntryInv, LinkInv, ClosedTracksLink
<1>8. ASSUME NEW t \in Threads, CallRetries(t) \/ CallExhausts(t) PROVE IndInv'
  <2>1. using[t] \in Links /\ CloseCallback(using[t])
    BY <1>8 DEF CallRetries, CallExhausts, CloseCallback
  <2>2. \A x \in Threads : pc'[x] \in {"connect", "watch"} => pc'[x] = pc[x]
    BY <1>8 DEF CallRetries, CallExhausts
  <2> HIDE DEF IndInv, TypeOK
  <2> QED
    BY <1>0, <1>8, <2>1, <2>2, CallbackStep DEF CallRetries, CallExhausts
<1>9. ASSUME NEW l \in Links, Die(l) PROVE IndInv'
  BY <1>0, <1>9 DEF Die, LockInv, EntryInv, LinkInv, ClosedTracksLink
<1>10. ASSUME NEW l \in Links, LoopNotices(l) PROVE IndInv'
  <2> HIDE DEF IndInv, TypeOK
  <2> QED
    BY <1>0, <1>10, CallbackStep DEF LoopNotices
<1>11. CASE UNCHANGED vars
  BY <1>0, <1>11 DEF vars, LockInv, EntryInv, LinkInv, ClosedTracksLink
<1> QED
  BY <1>1, <1>2, <1>3, <1>4, <1>5, <1>6, <1>7, <1>8, <1>9, <1>10, <1>11
  DEF Next, Route

\* The inductive invariant holds in every reachable state.
LEMMA Inductive == Spec => []IndInv
<1>1. ASSUME Init PROVE IndInv
  <2>1. DOMAIN owner = {}
    BY <1>1 DEF Init
  <2>2. TypeOK
    BY <1>1, <2>1 DEF Init, TypeOK, Pc, Outcome
  <2> QED
    BY <1>1, <2>1, <2>2, LinksAssumption
    DEF Init, IndInv, LockInv, EntryInv, LinkInv, ClosedTracksLink
<1> QED
  BY <1>1, IndStep, PTL DEF Spec

\* Type correctness of the connection pool.
THEOREM TypeCorrect == Spec => []TypeOK
<1>1. IndInv => TypeOK
  BY DEF IndInv
<1> QED
  BY <1>1, Inductive, PTL

\* However many requests race for a stale connection, connect() is only called
\* on an entry without link: the overflow_error in it is unreachable.
THEOREM ConnectsOnce == Spec => []NeverConnectTwice
<1>1. IndInv => NeverConnectTwice
  BY DEF IndInv, LockInv, NeverConnectTwice
<1> QED
  BY <1>1, Inductive, PTL

\* A late close callback never marks a newer link as closed, and one that ran
\* is never forgotten, although all links of a user share one closed_.
THEOREM ClosedIsAccurate == Spec => []ClosedTracksLink
<1>1. IndInv => ClosedTracksLink
  BY DEF IndInv
<1> QED
  BY <1>1, Inductive, PTL

\* The pool never gives up a link that works: a user has at most one.
THEOREM WorkingLinkIsKept == Spec => []NoLinkDropped
<1>1. IndInv => NoLinkDropped
  BY DEF IndInv, TypeOK, LinkInv, NoLinkDropped
<1> QED
  BY <1>1, Inductive, PTL

\* connection_mutex_ is held exactly by a thread that is connecting, whichever
\* of the ways out of get() the others took.
THEOREM MutexIsReturned == Spec => []MutexInUse
<1>1. ASSUME Init PROVE MutexInUse
  BY <1>1 DEF Init, MutexInUse
<1>2. ASSUME IndInv, MutexInUse, [Next]_vars PROVE MutexInUse'
  <2> USE <1>2 DEF IndInv, TypeOK, Pc, MutexInUse, LockInv
  <2>1. CASE connection_mutex_' = {}
    BY <2>1
  <2>2. ASSUME NEW t \in Threads, GetStale(t) PROVE MutexInUse'
    BY <2>2 DEF GetStale
  \* Nobody else changes the mutex, and its holder only moves on in connect().
  <2>3. ASSUME connection_mutex_' = connection_mutex_,
               \A t \in Threads : pc[t] \in {"connect", "watch"} =>
                                    pc'[t] \in {"connect", "watch"}
        PROVE  MutexInUse'
    BY <2>3
  <2>4. CASE \E t \in Threads, u \in Users : Request(t, u)
    BY <2>3, <2>4 DEF Request
  <2>5. ASSUME NEW t \in Threads, Route(t) PROVE MutexInUse'
    BY <2>1, <2>2, <2>3, <2>5, ZenonT(60) DEF Route, GetOpen, Connect, ConnectThrows, Watch, Call,
        CallReturns, CallRetries, CallExhausts, CallFails
  <2>6. CASE (\E l \in Links : Die(l) \/ LoopNotices(l)) \/ UNCHANGED vars
    BY <2>3, <2>6 DEF Die, LoopNotices, vars
  <2> QED
    BY <2>4, <2>5, <2>6 DEF Next
<1> QED
  BY <1>1, <1>2, Inductive, PTL DEF Spec

\* A link that died before its close callback was registered is handed out as
\* open for ever: no step of any thread takes it out of the pool.
THEOREM BlindLinkStays == Spec => BlindForever
<1>1. ASSUME IndInv, [Next]_vars, NEW u \in Users, Blind(u)
      PROVE  ~closed_[u] /\ conn_'[u] = conn_[u] /\ Blind(u)'
  <2> USE DEF IndInv, TypeOK, Blind, poolVars, linkVars, requestVars
  <2>1. ~closed_[u] /\ conn_[u] \in DOMAIN owner /\ owner[conn_[u]] = u
    BY <1>1 DEF LinkInv, EntryInv, ClosedTracksLink
  <2>2. conn_'[u] = conn_[u]
    <3>1. ASSUME NEW t \in Threads, GetStale(t) PROVE conn_'[u] = conn_[u]
      BY <2>1, <3>1 DEF GetStale
    <3>2. ASSUME NEW t \in Threads, NEW l \in Links, Connect(t, l)
          PROVE  conn_'[u] = conn_[u]
      BY <1>1, <3>2 DEF Connect
    <3> QED
      BY <1>1, <3>1, <3>2 DEF Next, Route, Request, GetOpen, ConnectThrows, Watch, Call,
          CallReturns, CallRetries, CallExhausts, CallFails, Die, LoopNotices, vars
  <2>3. conn_[u] \notin alive' \cup watched'
    <3>1. ASSUME NEW t \in Threads, NEW l \in Links, Connect(t, l)
          PROVE  conn_[u] \notin alive' \cup watched'
      BY <1>1, <2>1, <3>1 DEF Connect
    <3>2. ASSUME NEW t \in Threads, Watch(t) PROVE conn_[u] \notin alive' \cup watched'
      BY <1>1, <3>2 DEF Watch
    <3>3. ASSUME NEW l \in Links, Die(l) PROVE conn_[u] \notin alive' \cup watched'
      BY <1>1, <3>3 DEF Die
    <3> QED
      BY <1>1, <3>1, <3>2, <3>3 DEF Next, Route, Request, GetOpen, GetStale, ConnectThrows,
          Call, CallReturns, CallRetries, CallExhausts, CallFails, LoopNotices, vars
  <2> QED
    BY <1>1, <2>1, <2>2, <2>3
<1>2. IndInv /\ [Next]_vars =>
        [\A u \in Users :
            Blind(u) => ~closed_[u] /\ conn_'[u] = conn_[u] /\ Blind(u)']_vars
  BY <1>1
<1> QED
  BY <1>2, Inductive, PTL DEF Spec, BlindForever
----------------------------------------------------------------------------
(***************************************************************************)
(* The number of retries.                                                   *)
(***************************************************************************)
\* Only finitely many links of a user can be lost, and a step that forgets no
\* close callback does not make them fewer.
LEMMA LostGrows ==
    ASSUME TypeOK, TypeOK', NEW u \in Users, noticed \subseteq noticed',
           \A l \in noticed : owner'[l] = owner[l]
    PROVE  /\ Cardinality(Lost(u)) \in Nat
           /\ Cardinality(Lost(u)') \in Nat
           /\ Cardinality(Lost(u)) <= Cardinality(Lost(u)')
<1>1. Lost(u) \subseteq Lost(u)' /\ Lost(u)' \subseteq Links
  BY DEF Lost, TypeOK
<1>2. IsFiniteSet(Lost(u)')
  BY <1>1, LinksAssumption, FS_Subset
<1> QED
  BY <1>1, <1>2, FS_Subset, FS_CardinalityType

\* The close callback of a link that a call of user u uses adds one to u's losses.
LEMMA LostOneMore ==
    ASSUME TypeOK, TypeOK', NEW l, CloseCallback(l), owner' = owner,
           NEW u \in Users, owner[l] = u
    PROVE  /\ Cardinality(Lost(u)) \in Nat
           /\ Cardinality(Lost(u)') = Cardinality(Lost(u)) + 1
<1>1. Lost(u)' = Lost(u) \cup {l} /\ l \notin Lost(u) /\ Lost(u) \subseteq Links
  BY DEF Lost, TypeOK, CloseCallback
<1>2. IsFiniteSet(Lost(u))
  BY <1>1, LinksAssumption, FS_Subset
<1> QED
  BY <1>1, <1>2, FS_AddElement, FS_CardinalityType

\* Every step preserves BudgetInv.
LEMMA BudgetStep == IndInv /\ BudgetInv /\ [Next]_vars => BudgetInv'
<1> SUFFICES ASSUME IndInv, BudgetInv, [Next]_vars PROVE BudgetInv'
  OBVIOUS
<1>t. TypeOK /\ TypeOK'
  BY TypeStep DEF IndInv
<1> USE DEF poolVars, linkVars, requestVars
<1>m. noticed \subseteq noticed' /\ \A l \in DOMAIN owner : l \in DOMAIN owner' /\ owner'[l] = owner[l]
  BY <1>t, ZenonT(60) DEF Next, Route, vars, Request, GetOpen, GetStale, Connect, ConnectThrows, Watch,
      Call, CallReturns, CallRetries, CallExhausts, CallFails, Die, LoopNotices,
      CloseCallback, TypeOK
<1>g. \A u \in Users : /\ Cardinality(Lost(u)) \in Nat
                       /\ Cardinality(Lost(u)') \in Nat
                       /\ Cardinality(Lost(u)) <= Cardinality(Lost(u)')
  <2>1. \A l \in noticed : owner'[l] = owner[l]
    BY <1>t, <1>m DEF TypeOK
  <2> QED
    BY <1>t, <1>m, <2>1, LostGrows
<1> DEFINE Uses(t) == pc[t] = "call" /\ using[t] # NoLink =>
                         using[t] \in DOMAIN owner /\ owner[using[t]] = user[t]
           Spent(t) == /\ retry_[t] <= Cardinality(Lost(user[t])) /\ retry_[t] <= Retries
                       /\ outcome[t] = "exhausted" =>
                             Cardinality(Lost(user[t])) > Retries
<1>b. \A t \in Threads : Uses(t) /\ Spent(t) /\ user[t] \in Users /\ retry_[t] \in Nat
  BY <1>t DEF BudgetInv, TypeOK
<1>i. SUFFICES ASSUME NEW t \in Threads PROVE Uses(t)' /\ Spent(t)'
  BY DEF BudgetInv
\* What a thread keeps when it does nothing to its request.
<1>k. ASSUME user'[t] = user[t], retry_'[t] = retry_[t],
             outcome'[t] \in {outcome[t], "none", "ok", "unable", "broken"}
      PROVE  Spent(t)'
  BY <1>k, <1>b, <1>g, RetriesAssumption
<1>l. ASSUME user'[t] = user[t], using'[t] = using[t], pc'[t] = "call" => pc[t] = "call"
      PROVE  Uses(t)'
  BY <1>l, <1>b, <1>m
<1> HIDE DEF Uses, Spent
<1>1. ASSUME NEW x \in Threads, NEW u \in Users, Request(x, u) PROVE Uses(t)' /\ Spent(t)'
  <2>1. CASE x = t
    BY <1>1, <1>t, <1>g, <2>1, RetriesAssumption DEF Request, TypeOK, Uses, Spent
  <2>2. CASE x # t
    BY <1>1, <1>t, <1>k, <1>l, <2>2 DEF Request, TypeOK
  <2> QED
    BY <2>1, <2>2
<1>2. ASSUME NEW x \in Threads, Call(x) PROVE Uses(t)' /\ Spent(t)'
  <2>1. Spent(t)'
    BY <1>2, <1>k DEF Call
  <2>2. CASE x = t
    BY <1>2, <1>t, <2>1, <2>2 DEF Call, TypeOK, Uses, IndInv, EntryInv
  <2>3. CASE x # t
    BY <1>2, <1>t, <1>l, <2>1, <2>3 DEF Call, TypeOK
  <2> QED
    BY <2>2, <2>3
<1>3. ASSUME NEW x \in Threads, CallRetries(x) PROVE Uses(t)' /\ Spent(t)'
  <2>1. Uses(t)'
    BY <1>3, <1>t, <1>l DEF CallRetries, TypeOK
  <2>2. CASE x = t
    <3>1. CloseCallback(using[t]) /\ using[t] \in DOMAIN owner
      BY <1>3, <1>t, <2>2 DEF CallRetries, CloseCallback, TypeOK
    <3>2. owner[using[t]] = user[t]
      BY <1>3, <1>b, <3>1, <2>2, <1>t, LinksAssumption DEF Uses, CallRetries, TypeOK
    <3>3. Cardinality(Lost(user[t])') = Cardinality(Lost(user[t])) + 1
      BY <1>3, <1>b, <1>t, <3>1, <3>2, LostOneMore DEF CallRetries
    <3> QED
      BY <1>3, <1>b, <1>g, <1>t, <2>1, <2>2, <3>3, RetriesAssumption
      DEF CallRetries, MayRetry, Spent, TypeOK
  <2>3. CASE x # t
    BY <1>3, <1>t, <1>k, <2>1, <2>3 DEF CallRetries, TypeOK
  <2> QED
    BY <2>2, <2>3
<1>4. ASSUME NEW x \in Threads, CallExhausts(x) PROVE Uses(t)' /\ Spent(t)'
  <2>1. Uses(t)'
    BY <1>4, <1>t, <1>l DEF CallExhausts, TypeOK
  <2>2. CASE x = t
    <3>1. CloseCallback(using[t]) /\ using[t] \in DOMAIN owner
      BY <1>4, <1>t, <2>2 DEF CallExhausts, CloseCallback, TypeOK
    <3>2. owner[using[t]] = user[t]
      BY <1>4, <1>b, <3>1, <2>2, <1>t, LinksAssumption DEF Uses, CallExhausts, TypeOK
    <3>3. Cardinality(Lost(user[t])') = Cardinality(Lost(user[t])) + 1
      BY <1>4, <1>b, <1>t, <3>1, <3>2, LostOneMore DEF CallExhausts
    <3> QED
      BY <1>4, <1>b, <1>g, <1>t, <2>1, <2>2, <3>3, RetriesAssumption
      DEF CallExhausts, MayRetry, Spent, TypeOK
  <2>3. CASE x # t
    BY <1>4, <1>t, <1>k, <2>1, <2>3 DEF CallExhausts, TypeOK
  <2> QED
    BY <2>2, <2>3
<1>5. ASSUME NEW x \in Threads,
             \/ GetOpen(x) \/ GetStale(x) \/ (\E l \in Links : Connect(x, l))
             \/ ConnectThrows(x) \/ Watch(x) \/ CallReturns(x) \/ CallFails(x)
      PROVE  Uses(t)' /\ Spent(t)'
  BY <1>5, <1>t, <1>k, <1>l DEF GetOpen, GetStale, Connect, ConnectThrows, Watch,
      CallReturns, CallFails, TypeOK
<1>6. CASE (\E l \in Links : Die(l) \/ LoopNotices(l)) \/ UNCHANGED vars
  BY <1>6, <1>k, <1>l DEF Die, LoopNotices, vars
<1> QED
  BY <1>1, <1>2, <1>3, <1>4, <1>5, <1>6 DEF Next, Route

\* BudgetInv holds in every reachable state.
LEMMA BudgetInductive == Spec => []BudgetInv
<1>1. ASSUME Init PROVE BudgetInv
  <2>1. \A u \in Users : Lost(u) = {}
    BY <1>1 DEF Init, Lost
  <2>2. Cardinality({}) = 0
    BY FS_EmptySet
  <2>3. \A t \in Threads : Cardinality(Lost(user[t])) = 0
    BY <1>1, <2>1, <2>2 DEF Init
  <2>4. \A t \in Threads : pc[t] = "idle" /\ retry_[t] = 0 /\ outcome[t] = "none"
    BY <1>1 DEF Init
  <2> QED
    BY <2>3, <2>4, RetriesAssumption DEF BudgetInv
<1> QED
  BY <1>1, BudgetStep, Inductive, PTL DEF Spec

\* A request is given up only after it has lost one link more than the retries
\* that the router grants it, and never gets one more: no attempt is lost or
\* added, whoever else uses up links.
THEOREM RetriesAreGranted == Spec => []RetryBudget
<1>1. BudgetInv => RetryBudget
  BY DEF BudgetInv, RetryBudget, Lost
<1> QED
  BY <1>1, BudgetInductive, PTL

\* An outcome is left over from an earlier request only while the thread is idle.
LEMMA OutcomeInductive == Spec => [](\A t \in Threads : pc[t] # "idle" => outcome[t] = "none")
<1> DEFINE Inv == \A t \in Threads : pc[t] # "idle" => outcome[t] = "none"
<1>1. Init => Inv
  BY DEF Init
<1>2. ASSUME TypeOK, Inv, [Next]_vars PROVE Inv'
  <2> USE <1>2 DEF TypeOK, requestVars
  <2>1. ASSUME NEW t \in Threads, NEW u \in Users, Request(t, u) PROVE Inv'
    BY <2>1 DEF Request
  <2>2. ASSUME NEW t \in Threads,
               \/ GetOpen(t) \/ GetStale(t) \/ (\E l \in Links : Connect(t, l))
               \/ Watch(t) \/ Call(t) \/ CallRetries(t)
        PROVE  Inv'
    <3>1. outcome' = outcome /\ pc[t] # "idle"
      BY <2>2 DEF GetOpen, GetStale, Connect, Watch, Call, CallRetries
    <3>2. \A x \in Threads : x # t => pc'[x] = pc[x]
      BY <2>2 DEF GetOpen, GetStale, Connect, Watch, Call, CallRetries
    <3> QED
      BY <3>1, <3>2
  <2>3. ASSUME NEW t \in Threads,
               ConnectThrows(t) \/ CallReturns(t) \/ CallExhausts(t) \/ CallFails(t)
        PROVE  Inv'
    BY <2>3 DEF ConnectThrows, CallReturns, CallExhausts, CallFails
  <2>4. CASE (\E l \in Links : Die(l) \/ LoopNotices(l)) \/ UNCHANGED vars
    BY <2>4 DEF Die, LoopNotices, vars
  <2> HIDE DEF Inv
  <2> QED
    BY <2>1, <2>2, <2>3, <2>4 DEF Next, Route
<1> QED
  BY <1>1, <1>2, TypeCorrect, PTL DEF Spec

\* A route takes a failed call for an answer only for one of three reasons: its
\* entry was reset under it, another thread noticed first, or nobody ever will.
THEOREM BrokenOnlyIf == Spec => BrokenAnswer
<1> DEFINE Fresh == \A t \in Threads : pc[t] # "idle" => outcome[t] = "none"
<1>1. ASSUME IndInv, BudgetInv, Fresh, [Next]_vars, NEW t \in Threads,
             pc[t] = "call", outcome'[t] = "broken"
      PROVE  \/ using[t] = NoLink
             \/ using[t] \in noticed
             \/ Blind(user[t]) /\ conn_[user[t]] = using[t]
  <2>0. CallFails(t)
    <3>1. outcome[t] = "none"
      BY <1>1
    <3> QED
      BY <1>1, <3>1, ZenonT(60) DEF IndInv, TypeOK, Next, Route, Request, GetOpen, GetStale, Connect,
          ConnectThrows, Watch, Call, CallReturns, CallRetries, CallExhausts, CallFails, Die,
          LoopNotices, vars, requestVars
  <2> SUFFICES ASSUME using[t] # NoLink, using[t] \notin noticed
               PROVE  Blind(user[t]) /\ conn_[user[t]] = using[t]
    OBVIOUS
  <2>1. using[t] \in DOMAIN owner /\ owner[using[t]] = user[t]
    BY <1>1 DEF BudgetInv
  <2>2. conn_[user[t]] = using[t]
    BY <1>1, <2>1 DEF IndInv, LinkInv
  <2> QED
    BY <2>0, <2>2 DEF CallFails, Blind
<1>2. IndInv /\ BudgetInv /\ Fresh /\ [Next]_vars =>
        [\A t \in Threads :
            pc[t] = "call" /\ outcome'[t] = "broken" =>
                \/ using[t] = NoLink
                \/ using[t] \in noticed
                \/ Blind(user[t]) /\ conn_[user[t]] = using[t]]_vars
  BY <1>1
<1> QED
  BY <1>2, Inductive, BudgetInductive, OutcomeInductive, PTL DEF Spec, BrokenAnswer
=============================================================================
