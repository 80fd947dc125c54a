------------------------------ MODULE VirtPool ------------------------------
(***************************************************************************)
(* libvirt connections: how requests share, lose and reopen them.           *)
(*                                                                          *)
(* Each thread of the io_context runs one request at a time: the router     *)
(* calls the route through retry (http/router.cpp, util/retry.hpp), the     *)
(* route takes the user's connection from the pool (http/middleware.cpp,    *)
(* virt/connection_pool.cpp) and makes a libvirt call with it.  The event   *)
(* thread runs libvirt's event loop.  When libvirt notices that a link has  *)
(* died it runs the close callback, on whichever thread notices             *)
(* (virt/connection.cpp).                                                   *)
(***************************************************************************)
EXTENDS Naturals, FiniteSets

CONSTANTS
    Users,       \* libvirt user names
    Threads,     \* the threads in io_context::run
    Links,       \* bound: the libvirt connections that virConnectOpen returns
    NoLink,      \* a null connect_ptr
    Retries,     \* retry::retries_, which the router sets to 5
    MaxRequests  \* bound: requests that arrive

ASSUME LinksAssumption == NoLink \notin Links /\ IsFiniteSet(Links)
ASSUME RetriesAssumption == Retries \in Nat /\ MaxRequests \in Nat

VARIABLES
    conn_,             \* per user, connect_ptr of its entry in the pool
    closed_,           \* per user, closed_ of that entry
    connection_mutex_, \* the thread in connection_pool::get (none or one)
    alive,             \* external: the links whose peer is there
    watched,           \* external: the links with a registered close callback
    noticed,           \* external: the links whose close callback has run
    owner,             \* the user each opened link was opened for
    pc,                \* per thread, see Pc
    user,              \* per thread, user of the request
    using,             \* per thread, the connect_ptr copied into a libvirt call
    retry_,            \* per thread, retry::retry_ of the request
    outcome,           \* per thread, how its latest request was answered
    requests,          \* number of requests that have arrived
    fatal              \* the process has been terminated

poolVars == <<conn_, closed_>>
linkVars == <<alive, watched, noticed, owner>>
requestVars == <<user, using, retry_, outcome, requests>>
vars == <<poolVars, connection_mutex_, linkVars, pc, requestVars, fatal>>

(***************************************************************************)
(* Where a thread is.                                                       *)
(*   idle     no request                                                    *)
(*   get      about to call connection_pool::get                            *)
(*   connect  in get, entry replaced, about to call virConnectOpen          *)
(*   watch    in connect, link opened, about to register the close callback *)
(*   route    in the route, with a reference to the pool's entry            *)
(*   call     in a libvirt call                                             *)
(***************************************************************************)
Pc == {"idle", "get", "connect", "watch", "route", "call"}
Outcome == {"none", "ok", "unable", "exhausted", "broken"}

Init ==
    /\ conn_ = [u \in Users |-> NoLink]
    /\ closed_ = [u \in Users |-> TRUE]
    /\ connection_mutex_ = {}
    /\ alive = {} /\ watched = {} /\ noticed = {}
    /\ owner \in [{} -> Users]
    /\ pc = [t \in Threads |-> "idle"]
    /\ user \in [Threads -> Users]
    /\ using = [t \in Threads |-> NoLink]
    /\ retry_ = [t \in Threads |-> 0]
    /\ outcome = [t \in Threads |-> "none"]
    /\ requests = 0
    /\ fatal = FALSE
----------------------------------------------------------------------------
\* A request of user u arrives: router::run starts its route with a new retry.
Request(t, u) ==
    /\ ~fatal
    /\ pc[t] = "idle"
    /\ requests < MaxRequests
    /\ requests' = requests + 1
    /\ pc' = [pc EXCEPT ![t] = "get"]
    /\ user' = [user EXCEPT ![t] = u]
    /\ retry_' = [retry_ EXCEPT ![t] = 0]
    /\ outcome' = [outcome EXCEPT ![t] = "none"]
    /\ UNCHANGED <<poolVars, connection_mutex_, linkVars, using, fatal>>

\* Mutant: a pool without connection_mutex_.
GetUnlocked(t) == TRUE

\* connection_pool::get can take connection_mutex_.
GetLocks(t) == connection_mutex_ = {}

\* connection_pool::get: an open connection is handed out ...
GetOpen(t) ==
    /\ ~fatal
    /\ pc[t] = "get"
    /\ GetLocks(t)
    /\ ~closed_[user[t]]
    /\ pc' = [pc EXCEPT ![t] = "route"]
    /\ UNCHANGED <<poolVars, connection_mutex_, linkVars, requestVars, fatal>>

\* Mutant: a pool that replaces the entry for every request, open or not.
GetAlways(t) ==
    /\ ~fatal
    /\ pc[t] = "get"
    /\ GetLocks(t)
    /\ connection_mutex_' = {t}
    /\ conn_' = [conn_ EXCEPT ![user[t]] = NoLink]
    /\ pc' = [pc EXCEPT ![t] = "connect"]
    /\ UNCHANGED <<closed_, linkVars, requestVars, fatal>>

\* ... and a missing or stale one is replaced by a default-constructed one.
GetStale(t) ==
    /\ ~fatal
    /\ pc[t] = "get"
    /\ GetLocks(t)
    /\ closed_[user[t]]
    /\ connection_mutex_' = {t}
    /\ conn_' = [conn_ EXCEPT ![user[t]] = NoLink]
    /\ pc' = [pc EXCEPT ![t] = "connect"]
    /\ UNCHANGED <<closed_, linkVars, requestVars, fatal>>

\* Mutant: a connect that does not clear closed_.
ConnectKeepsClosed(t, l) ==
    /\ ~fatal
    /\ pc[t] = "connect"
    /\ l \in Links \ DOMAIN owner
    /\ conn_' = [conn_ EXCEPT ![user[t]] = l]
    /\ alive' = alive \cup {l}
    /\ owner' = [k \in DOMAIN owner \cup {l} |-> IF k = l THEN user[t] ELSE owner[k]]
    /\ pc' = [pc EXCEPT ![t] = "watch"]
    /\ UNCHANGED <<closed_, connection_mutex_, watched, noticed, requestVars, fatal>>

\* virt::connection::connect: virConnectOpen returns a link, and closed_ is
\* cleared before the close callback is registered.
Connect(t, l) ==
    /\ ~fatal
    /\ pc[t] = "connect"
    /\ conn_[user[t]] = NoLink
    /\ l \in Links \ DOMAIN owner
    /\ conn_' = [conn_ EXCEPT ![user[t]] = l]
    /\ closed_' = [closed_ EXCEPT ![user[t]] = FALSE]
    /\ alive' = alive \cup {l}
    /\ owner' = [k \in DOMAIN owner \cup {l} |-> IF k = l THEN user[t] ELSE owner[k]]
    /\ pc' = [pc EXCEPT ![t] = "watch"]
    /\ UNCHANGED <<connection_mutex_, watched, noticed, requestVars, fatal>>

\* Mutant: an exception that leaves get() with the mutex locked.
ConnectThrowsLocked(t) ==
    /\ ~fatal
    /\ pc[t] = "connect"
    /\ pc' = [pc EXCEPT ![t] = "idle"]
    /\ outcome' = [outcome EXCEPT ![t] = "unable"]
    /\ UNCHANGED <<poolVars, connection_mutex_, linkVars, user, using, retry_,
                   requests, fatal>>

\* connect throws: it was connected already, or virConnectOpen failed.
\* with_libvirt answers "Unable to connect to libvirt".
ConnectThrows(t) ==
    /\ ~fatal
    /\ pc[t] = "connect"
    /\ connection_mutex_' = {}
    /\ pc' = [pc EXCEPT ![t] = "idle"]
    /\ outcome' = [outcome EXCEPT ![t] = "unable"]
    /\ UNCHANGED <<poolVars, linkVars, user, using, retry_, requests, fatal>>

\* The rest of connect: virConnectRegisterCloseCallback, whose result is not
\* looked at.  A link that has died by then gets no callback.
Watch(t) ==
    /\ ~fatal
    /\ pc[t] = "watch"
    /\ watched' = watched \cup ({conn_[user[t]]} \cap alive)
    /\ connection_mutex_' = {}
    /\ pc' = [pc EXCEPT ![t] = "route"]
    /\ UNCHANGED <<poolVars, alive, noticed, owner, requestVars, fatal>>

\* The route calls libvirt with a copy of the connect_ptr it finds.
Call(t) ==
    /\ ~fatal
    /\ pc[t] = "route"
    /\ using' = [using EXCEPT ![t] = conn_[user[t]]]
    /\ pc' = [pc EXCEPT ![t] = "call"]
    /\ UNCHANGED <<poolVars, connection_mutex_, linkVars, user, retry_, outcome,
                   requests, fatal>>

\* The call succeeds, and the request is answered.
CallReturns(t) ==
    /\ ~fatal
    /\ pc[t] = "call"
    /\ using[t] \in alive
    /\ pc' = [pc EXCEPT ![t] = "idle"]
    /\ outcome' = [outcome EXCEPT ![t] = "ok"]
    /\ UNCHANGED <<poolVars, connection_mutex_, linkVars, user, using, retry_,
                   requests, fatal>>

\* Mutant: a close callback that only throws.
CloseCallbackSilent(l) ==
    /\ l \in watched \ (alive \cup noticed)
    /\ noticed' = noticed \cup {l}
    /\ UNCHANGED closed_

\* The close callback of link l: it stores to the closed_ it was given, that of
\* the pool's entry for the user, and throws retry_error.
CloseCallback(l) ==
    /\ l \in watched \ (alive \cup noticed)
    /\ noticed' = noticed \cup {l}
    /\ closed_' = [closed_ EXCEPT ![owner[l]] = TRUE]

\* Mutant: a retry that gives up one attempt early.
MayRetryLess(t) == retry_[t] + 1 < Retries

\* retry::operator(): another attempt is left.
MayRetry(t) == retry_[t] < Retries

\* The call is the first to notice that its link died: the request is retried ...
CallRetries(t) ==
    /\ ~fatal
    /\ pc[t] = "call"
    /\ CloseCallback(using[t])
    /\ MayRetry(t)
    /\ retry_' = [retry_ EXCEPT ![t] = @ + 1]
    /\ pc' = [pc EXCEPT ![t] = "get"]
    /\ UNCHANGED <<conn_, connection_mutex_, alive, watched, owner, user, using,
                   outcome, requests, fatal>>

\* ... or answered with a 500 when no attempt is left.
CallExhausts(t) ==
    /\ ~fatal
    /\ pc[t] = "call"
    /\ CloseCallback(using[t])
    /\ ~MayRetry(t)
    /\ pc' = [pc EXCEPT ![t] = "idle"]
    /\ outcome' = [outcome EXCEPT ![t] = "exhausted"]
    /\ UNCHANGED <<conn_, connection_mutex_, alive, watched, owner, user, using,
                   retry_, requests, fatal>>

\* The call fails without a close callback: the link's callback has run before
\* or was never registered, or another thread had reset the entry.  The route
\* takes the error for an answer: no domains, no such domain, and so on.
CallFails(t) ==
    /\ ~fatal
    /\ pc[t] = "call"
    /\ using[t] \notin alive
    /\ using[t] \in watched => using[t] \in noticed
    /\ pc' = [pc EXCEPT ![t] = "idle"]
    /\ outcome' = [outcome EXCEPT ![t] = "broken"]
    /\ UNCHANGED <<poolVars, connection_mutex_, linkVars, user, using, retry_,
                   requests, fatal>>

\* External: the peer of a link goes away.
Die(l) ==
    /\ ~fatal
    /\ l \in alive
    /\ alive' = alive \ {l}
    /\ UNCHANGED <<poolVars, connection_mutex_, watched, noticed, owner, pc,
                   requestVars, fatal>>

\* The event loop is the first to notice: nothing catches what the callback
\* throws out of event::run_one, and the process is terminated.
LoopNotices(l) ==
    /\ ~fatal
    /\ CloseCallback(l)
    /\ fatal' = TRUE
    /\ UNCHANGED <<conn_, connection_mutex_, alive, watched, owner, pc, requestVars>>
----------------------------------------------------------------------------
Route(t) ==
    \/ GetOpen(t) \/ GetStale(t) \/ (\E l \in Links : Connect(t, l))
    \/ ConnectThrows(t) \/ Watch(t) \/ Call(t) \/ CallReturns(t)
    \/ CallRetries(t) \/ CallExhausts(t) \/ CallFails(t)

Next ==
    \/ \E t \in Threads, u \in Users : Request(t, u)
    \/ \E t \in Threads : Route(t)
    \/ \E l \in Links : Die(l) \/ LoopNotices(l)

Spec == Init /\ [][Next]_vars

\* The threads are scheduled; requests and dying links are not promised.
FairSpec == Spec /\ \A t \in Threads : WF_vars(Route(t))
----------------------------------------------------------------------------
(***************************************************************************)
(* Properties.                                                              *)
(***************************************************************************)
\* Every variable stays in the set of values that the data it models can have.
TypeOK ==
    /\ conn_ \in [Users -> Links \cup {NoLink}]
    /\ closed_ \in [Users -> BOOLEAN]
    /\ connection_mutex_ \subseteq Threads
    /\ DOMAIN owner \subseteq Links
    /\ owner \in [DOMAIN owner -> Users]
    /\ alive \subseteq DOMAIN owner
    /\ watched \subseteq DOMAIN owner
    /\ noticed \subseteq DOMAIN owner
    /\ pc \in [Threads -> Pc]
    /\ user \in [Threads -> Users]
    /\ using \in [Threads -> Links \cup {NoLink}]
    /\ retry_ \in [Threads -> Nat]
    /\ outcome \in [Threads -> Outcome]
    /\ requests \in Nat
    /\ fatal \in BOOLEAN

\* connect() never throws "cannot connect more than once": no other request
\* connects the entry between its replacement in get() and virConnectOpen.
NeverConnectTwice ==
    \A t \in Threads : pc[t] = "connect" => conn_[user[t]] = NoLink

\* closed_ says of the entry's own link whether its close callback has run,
\* although the callbacks of all links of a user store to the same closed_.
ClosedTracksLink ==
    \A u \in Users : conn_[u] # NoLink => (closed_[u] <=> conn_[u] \in noticed)

\* A link that works is never given up: it is the one in the pool.
NoLinkDropped ==
    \A l \in alive : conn_[owner[l]] = l

\* A request is answered with the error of retry only after it has seen one
\* close callback more than the router allows retries ("If it fails the sixth
\* time", router.cpp), each from a link of its own; and no request is tried
\* more often than that.
RetryBudget ==
    \A t \in Threads :
        /\ outcome[t] = "exhausted" =>
              Cardinality({l \in noticed : owner[l] = user[t]}) > Retries
        /\ retry_[t] <= Retries

\* Every request is answered: none waits for ever for connection_mutex_ or
\* retries without end.
RequestAnswered ==
    \A t \in Threads : pc[t] # "idle" ~> pc[t] = "idle" \/ fatal

\* connection_mutex_ is never leaked: whoever holds it is in connect(), and
\* only one thread is.  Every exception that leaves get() has unlocked it.
MutexInUse ==
    /\ \A t \in connection_mutex_ : pc[t] \in {"connect", "watch"}
    /\ \A t, s \in connection_mutex_ : t = s

\* The pool's link of user u died between virConnectOpen and the registration
\* of its close callback.
Blind(u) == conn_[u] # NoLink /\ conn_[u] \notin alive \cup watched

\* connect() clears closed_ before it registers the callback.  If the link dies
\* in between, the pool goes on handing it out as open for ever: no request, no
\* retry and no callback of an older link replaces it.
BlindForever ==
    [][\A u \in Users :
          Blind(u) => ~closed_[u] /\ conn_'[u] = conn_[u] /\ Blind(u)']_vars

\* A route takes a dead link for an answer only if another request reset the
\* entry under it, another thread ran the link's close callback first, or the
\* link is the one that can no longer be noticed.
BrokenAnswer ==
    [][\A t \in Threads :
          pc[t] = "call" /\ outcome'[t] = "broken" =>
              \/ using[t] = NoLink
              \/ using[t] \in noticed
              \/ Blind(user[t]) /\ conn_[user[t]] = using[t]]_vars
----------------------------------------------------------------------------
(***************************************************************************)
(* The inductive invariant behind the theorems of VirtPoolProofs.           *)
(***************************************************************************)
\* connection_mutex_ is held by the thread that connects, and only its step
\* of connect() leaves the entry without a link.
LockInv ==
    \A t \in Threads :
        /\ pc[t] \in {"connect", "watch"} => connection_mutex_ = {t}
        /\ pc[t] = "connect" => conn_[user[t]] = NoLink
        /\ pc[t] = "watch" => conn_[user[t]] \in DOMAIN owner \ watched

\* An entry's link was opened for its user; an entry without link is closed.
EntryInv ==
    \A u \in Users :
        /\ conn_[u] # NoLink => conn_[u] \in DOMAIN owner /\ owner[conn_[u]] = u
        /\ conn_[u] = NoLink => closed_[u]

\* A link stays in the pool until its close callback has run, whether it works,
\* has died or never got a callback.
LinkInv ==
    /\ noticed \subseteq watched \ alive
    /\ \A l \in DOMAIN owner \ noticed : conn_[owner[l]] = l

\* The links of a user whose close callback has run.
Lost(u) == {l \in noticed : owner[l] = u}

\* A call uses a link of the request's user; each retry has used up one, and so
\* has the attempt after the last retry.
BudgetInv ==
    \A t \in Threads :
        /\ pc[t] = "call" /\ using[t] # NoLink =>
              using[t] \in DOMAIN owner /\ owner[using[t]] = user[t]
        /\ retry_[t] <= Cardinality(Lost(user[t])) /\ retry_[t] <= Retries
        /\ outcome[t] = "exhausted" => Cardinality(Lost(user[t])) > Retries

IndInv ==
    /\ TypeOK
    /\ LockInv
    /\ EntryInv
    /\ LinkInv
    /\ ClosedTracksLink
=============================================================================
