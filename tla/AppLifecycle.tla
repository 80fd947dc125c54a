---------------------------- MODULE AppLifecycle ----------------------------
(***************************************************************************)
(* Start and stop of webvirtd: the main thread (main.cpp, app::run,         *)
(* http::server::run, ~app), the libvirt event thread (app::event_loop) and *)
(* the workers of thread::worker_pool.  SIGINT posts a handler to the       *)
(* io_context that stops it.                                                *)
(***************************************************************************)
CONSTANT
    Workers     \* the threads that the worker_pool may create

VARIABLES
    main,         \* main thread, see MainPc
    event,        \* event thread, see EventPc
    threads,      \* the workers that worker_pool::start is to create
    worker,       \* per worker: none, running (in io_context::run), handler, done
    event_loop_,  \* app::event_loop_
    event_error_, \* app::event_error_
    notified,     \* notify_one has ended the wait of app::run
    registered,   \* virt::event::register_impl has succeeded
    posted,       \* the stop handler is queued in the io_context
    stopped,      \* the io_context is stopped
    destroyed     \* the members of app that have been destroyed

loopVars == <<event, event_loop_, event_error_, notified, registered>>
ioVars == <<threads, worker, posted, stopped>>
vars == <<main, loopVars, ioVars, destroyed>>

(***************************************************************************)
(*   init      app constructed, socket not set up                           *)
(*   run       entering app::run                                            *)
(*   lock      event thread created, about to wait on event_cv_             *)
(*   wait      in event_cv_.wait                                            *)
(*   woken     about to look at event_error_                                *)
(*   start     in server::run, starting the workers                         *)
(*   serve     in io_context::run                                           *)
(*   handler   in a handler of the io_context                               *)
(*   destruct  entering ~app                                                *)
(*   join      joining the event thread                                     *)
(*   members   destroying the members of app                                *)
(*   workers   in ~server, joining the workers                              *)
(*   exit      webvirt_main has returned                                    *)
(***************************************************************************)
MainPc == {"init", "run", "lock", "wait", "woken", "start", "serve", "handler",
           "destruct", "join", "members", "workers", "exit"}
EventPc == {"none", "register", "notify", "loop", "iterate", "done"}
WorkerPc == {"none", "running", "handler", "done"}

Init ==
    /\ main = "init"
    /\ event = "none"
    /\ threads = {}
    /\ worker = [w \in Workers |-> "none"]
    /\ event_loop_ = TRUE
    /\ event_error_ = FALSE
    /\ notified = FALSE
    /\ registered = FALSE
    /\ posted = FALSE
    /\ stopped = FALSE
    /\ destroyed = {}
----------------------------------------------------------------------------
(***************************************************************************)
(* The main thread.                                                         *)
(***************************************************************************)
\* setup_socket succeeds, or webvirt_main returns its error code.
SetupSocket ==
    /\ main = "init"
    /\ main' \in {"run", "destruct"}
    /\ UNCHANGED <<loopVars, ioVars, destroyed>>

\* app::run creates the event thread ...
StartEventThread ==
    /\ main = "run"
    /\ main' = "lock"
    /\ event' = "register"
    /\ UNCHANGED <<event_loop_, event_error_, notified, registered, ioVars, destroyed>>

\* ... locks event_mutex_ and waits for a notification.
Wait ==
    /\ main = "lock"
    /\ main' = "wait"
    /\ UNCHANGED <<loopVars, ioVars, destroyed>>

\* The wait has no predicate: a wakeup without notification ends it as well.
SpuriousWakeup ==
    /\ main = "wait"
    /\ main' = "woken"
    /\ UNCHANGED <<loopVars, ioVars, destroyed>>

\* Mutant: an app::run that does not look at event_error_.
ErrorIgnored == FALSE

\* The registration of the event implementation is known to have failed.
RegistrationFailed == event_error_

\* app::run returns on an error, or goes on to server::run, which looks up how
\* many workers the configuration asks for.
CheckError(T) ==
    /\ main = "woken"
    /\ IF RegistrationFailed
       THEN main' = "destruct" /\ UNCHANGED threads
       ELSE main' = "start" /\ threads' = T
    /\ UNCHANGED <<loopVars, worker, posted, stopped, destroyed>>

\* worker_pool::start creates the workers.
StartWorker(w) ==
    /\ main = "start"
    /\ w \in threads
    /\ worker[w] = "none"
    /\ worker' = [worker EXCEPT ![w] = "running"]
    /\ UNCHANGED <<main, loopVars, threads, posted, stopped, destroyed>>

\* All workers are started: the main thread runs the io_context, too.
Serve ==
    /\ main = "start"
    /\ \A w \in threads : worker[w] # "none"
    /\ main' = "serve"
    /\ UNCHANGED <<loopVars, ioVars, destroyed>>

\* A handler of the io_context starts and ends on the main thread.
MainHandler ==
    /\ \/ main = "serve" /\ ~stopped /\ main' = "handler"
       \/ main = "handler" /\ main' = "serve"
    /\ UNCHANGED <<loopVars, ioVars, destroyed>>

\* io_context::run returns, and webvirt_main destroys its app.
ServeReturns ==
    /\ main = "serve"
    /\ stopped
    /\ main' = "destruct"
    /\ UNCHANGED <<loopVars, ioVars, destroyed>>

\* Mutants: a destructor that does not stop the event loop, and one that does
\* not join the event thread.
KeepLooping == TRUE
JoinSkipped == TRUE

\* The value ~app stores to event_loop_.
LoopFlag == FALSE

\* The event thread is not joinable, or join() returns.
EventThreadEnded == event \in {"none", "done"}

\* ~app tells the event loop to end ...
Destruct ==
    /\ main = "destruct"
    /\ event_loop_' = LoopFlag
    /\ main' = "join"
    /\ UNCHANGED <<event, event_error_, notified, registered, ioVars, destroyed>>

\* ... and joins the event thread.
JoinEventThread ==
    /\ main = "join"
    /\ EventThreadEnded
    /\ main' = "members"
    /\ UNCHANGED <<loopVars, ioVars, destroyed>>

\* The members are destroyed in the reverse order of their declaration: which
\* ones are gone when the destructor of member m runs.
GoneBefore == [events_ |-> {}, websockets_ |-> {"events_"},
               pool_ |-> {"events_", "websockets_"}]

DestroyMember(m) ==
    /\ main = "members"
    /\ destroyed = GoneBefore[m]
    /\ destroyed' = destroyed \cup {m}
    /\ main' = IF m = "pool_" THEN "workers" ELSE "members"
    /\ UNCHANGED <<loopVars, ioVars>>

\* ~server joins the workers, and webvirt_main returns.
JoinWorkers ==
    /\ main = "workers"
    /\ \A w \in Workers : worker[w] \in {"none", "done"}
    /\ destroyed' = destroyed \cup {"server_"}
    /\ main' = "exit"
    /\ UNCHANGED <<loopVars, ioVars>>
----------------------------------------------------------------------------
(***************************************************************************)
(* The event thread: app::event_loop.                                       *)
(***************************************************************************)
\* The event implementation and its 20 ms timeout are registered, or not.
Register ==
    /\ event = "register"
    /\ \E ok \in BOOLEAN :
          /\ registered' = ok
          /\ event_error_' = ~ok
    /\ event' = "notify"
    /\ UNCHANGED <<main, event_loop_, notified, ioVars, destroyed>>

\* notify_one wakes the main thread if it waits, and is lost if it does not.
Notify ==
    /\ event = "notify"
    /\ IF main = "wait"
       THEN main' = "woken" /\ notified' = TRUE
       ELSE UNCHANGED <<main, notified>>
    /\ event' = IF event_error_ THEN "done" ELSE "loop"
    /\ UNCHANGED <<event_loop_, event_error_, registered, ioVars, destroyed>>

\* while (event_loop_) run_one(): an iteration runs callbacks of events_.
Loop ==
    /\ \/ event = "loop" /\ event' = IF event_loop_ THEN "iterate" ELSE "done"
       \/ event = "iterate" /\ event' = "loop"
    /\ UNCHANGED <<main, event_loop_, event_error_, notified, registered, ioVars, destroyed>>
----------------------------------------------------------------------------
(***************************************************************************)
(* The workers and the io_context.                                          *)
(***************************************************************************)
\* Mutant: a worker that goes on with the queue of a stopped io_context.
WorkerIgnoresStop(w) ==
    /\ \/ worker[w] = "running" /\ worker' = [worker EXCEPT ![w] = "handler"]
       \/ worker[w] = "handler" /\ worker' = [worker EXCEPT ![w] = "running"]
    /\ UNCHANGED <<main, loopVars, threads, posted, stopped, destroyed>>

\* worker::loop: io_context::run runs handlers until it is stopped.
WorkerHandler(w) ==
    /\ \/ worker[w] = "running" /\ ~stopped /\ worker' = [worker EXCEPT ![w] = "handler"]
       \/ worker[w] = "handler" /\ worker' = [worker EXCEPT ![w] = "running"]
    /\ UNCHANGED <<main, loopVars, threads, posted, stopped, destroyed>>

WorkerReturns(w) ==
    /\ worker[w] = "running"
    /\ stopped
    /\ worker' = [worker EXCEPT ![w] = "done"]
    /\ UNCHANGED <<main, loopVars, threads, posted, stopped, destroyed>>

\* signal::int_ calls http::io_context::stop, which posts the stop.
Interrupt ==
    /\ main # "exit"
    /\ ~posted
    /\ posted' = TRUE
    /\ UNCHANGED <<main, loopVars, threads, worker, stopped, destroyed>>

\* Some thread in io_context::run runs the stop handler.
RunStop ==
    /\ posted
    /\ ~stopped
    /\ main = "serve" \/ \E w \in Workers : worker[w] = "running"
    /\ stopped' = TRUE
    /\ UNCHANGED <<main, loopVars, threads, worker, posted, destroyed>>
----------------------------------------------------------------------------
MainThread ==
    \/ SetupSocket \/ StartEventThread \/ Wait
    \/ (\E T \in SUBSET Workers : CheckError(T))
    \/ (\E w \in Workers : StartWorker(w)) \/ Serve \/ ServeReturns
    \/ Destruct \/ JoinEventThread \/ (\E m \in DOMAIN GoneBefore : DestroyMember(m))
    \/ JoinWorkers

EventThread == Register \/ Notify \/ Loop

Next ==
    \/ MainThread
    \/ MainHandler
    \/ SpuriousWakeup
    \/ EventThread
    \/ \E w \in Workers : WorkerHandler(w) \/ WorkerReturns(w)
    \/ Interrupt
    \/ RunStop

Spec == Init /\ [][Next]_vars

\* All threads are scheduled, handlers end, and a posted handler is run.
\* Signals, spurious wakeups and new handlers are not promised.
Fairness ==
    /\ WF_vars(MainThread)
    /\ WF_vars(MainHandler /\ main = "handler")
    /\ WF_vars(EventThread)
    /\ \A w \in Workers : /\ WF_vars(WorkerHandler(w) /\ worker[w] = "handler")
                          /\ WF_vars(WorkerReturns(w))
    /\ SF_vars(RunStop)

FairSpec == Spec /\ Fairness
----------------------------------------------------------------------------
(***************************************************************************)
(* Properties.                                                              *)
(***************************************************************************)
\* Every variable stays in the set of values that the data it models can have.
TypeOK ==
    /\ main \in MainPc
    /\ event \in EventPc
    /\ threads \subseteq Workers
    /\ worker \in [Workers -> WorkerPc]
    /\ event_loop_ \in BOOLEAN
    /\ event_error_ \in BOOLEAN
    /\ notified \in BOOLEAN
    /\ registered \in BOOLEAN
    /\ posted \in BOOLEAN
    /\ stopped \in BOOLEAN
    /\ destroyed \subseteq {"events_", "websockets_", "pool_", "server_"}

\* A notified app::run has the outcome of the registration: it runs the server
\* only with libvirt's event loop registered.  (A spurious wakeup may run it
\* before, and then whatever the outcome.)
ServesRegistered ==
    notified /\ main \in {"start", "serve", "handler"} => registered

\* "This event must not outlive the connection" (virt::event): the events go
\* before the connections, and neither goes, nor the websockets, while the
\* event thread may be in one of their callbacks.
MembersOutliveCallbacks ==
    /\ "pool_" \in destroyed => "events_" \in destroyed
    /\ destroyed # {} => event # "iterate"

\* The main thread is in ~app or past it.
Ending == main \in {"destruct", "join", "members", "workers", "exit"}

\* ~server joins the workers after the other members of app are gone, so that a
\* handler may still be in them; but no worker starts a handler from ~app on.
LastHandlers ==
    [][Ending =>
          \A w \in Workers : worker'[w] = "handler" => worker[w] = "handler"]_vars

\* When webvirt_main has returned, no other thread of the process is left.
ExitsAlone ==
    main = "exit" => EventThreadEnded /\ \A w \in Workers : worker[w] \in {"none", "done"}

\* Once the server runs, SIGINT ends the process: nobody joins a thread that
\* does not end.
InterruptEndsProcess == posted /\ main = "serve" ~> main = "exit"

\* "1. Start a threaded libvirt event loop 2. Run the internal http::server"
\* (app::run): it gets to the server, or returns because the registration failed.
RunStarts == main = "run" ~> main \in {"serve", "destruct"}
----------------------------------------------------------------------------
(***************************************************************************)
(* The inductive invariants behind the theorems of DaemonProofs.            *)
(***************************************************************************)
\* Once the event thread is joined it has ended, and only then members go.
JoinInv ==
    /\ main \in {"members", "workers", "exit"} => event \in {"none", "done"}
    /\ destroyed # {} => main \in {"members", "workers", "exit"}
    /\ "pool_" \in destroyed => "events_" \in destroyed

\* The main thread is woken after the outcome of the registration is known.
WakeInv ==
    /\ event \in {"notify", "loop", "iterate", "done"} => registered \/ event_error_
    /\ main \in {"init", "run"} => event = "none"
    /\ main \in {"init", "run", "lock", "wait"} => ~notified
    /\ notified => event \in {"loop", "iterate", "done"}
    /\ notified /\ main \in {"start", "serve", "handler"} => registered

\* ~app begins after the io_context has been stopped, or before a worker starts.
StopInv ==
    /\ main \in {"init", "run", "lock", "wait", "woken"} =>
          \A w \in Workers : worker[w] = "none"
    /\ Ending => stopped \/ \A w \in Workers : worker[w] = "none"
    /\ ExitsAlone
=============================================================================
