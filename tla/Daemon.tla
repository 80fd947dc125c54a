------------------------------- MODULE Daemon -------------------------------
(***************************************************************************)
(* webvirtd as a process: main() reads the configuration (Config) and then  *)
(* runs and stops the application (AppLifecycle), whose server asks the     *)
(* configuration for the number of its workers.  SIGINT is handled from the *)
(* start: until the io_context runs, its handler only waits in the queue.   *)
(***************************************************************************)
EXTENDS AppLifecycle, Config, FiniteSets

ASSUME ThreadsAssumption ==
    /\ IsFiniteSet(Workers)
    /\ "threads" \in Settings
    /\ \A n \in Values : n <= Cardinality(Workers)

daemonVars == <<vars, configVars>>

DaemonInit == Init /\ ConfigInit

\* Mutant: a server that takes the number of workers from the defaults.
DefaultWorkers == {T \in SUBSET Workers : Cardinality(T) = Default["threads"]}

\* server::run: config::ref().get<unsigned>("threads").
ConfiguredWorkers == {T \in SUBSET Workers : Cardinality(T) = Get("threads")}

\* main() before webvirt_main.
Configure == ConfigNext /\ UNCHANGED vars

\* main() in webvirt_main: the steps of AppLifecycle, with the configured
\* number of workers.
RunMain ==
    /\ stage = "launched"
    /\ \/ SetupSocket \/ StartEventThread \/ Wait
       \/ (\E T \in ConfiguredWorkers : CheckError(T))
       \/ (\E w \in Workers : StartWorker(w)) \/ Serve \/ ServeReturns
       \/ Destruct \/ JoinEventThread \/ (\E m \in DOMAIN GoneBefore : DestroyMember(m))
       \/ JoinWorkers
    /\ UNCHANGED configVars

\* The other threads, and what happens to main() while it waits or serves.
RunOthers ==
    /\ \/ MainHandler \/ SpuriousWakeup \/ EventThread \/ RunStop
       \/ \E w \in Workers : WorkerHandler(w) \/ WorkerReturns(w)
    /\ UNCHANGED configVars

\* SIGINT, unless the process has ended.
Signal ==
    /\ stage \notin {"printed", "rejected", "aborted"}
    /\ Interrupt
    /\ UNCHANGED configVars

DaemonNext == Configure \/ RunMain \/ RunOthers \/ Signal

DaemonSpec == DaemonInit /\ [][DaemonNext]_daemonVars

\* As for AppLifecycle; main() also gets through its configuration.
DaemonFairness ==
    /\ WF_daemonVars(Configure)
    /\ WF_daemonVars(RunMain)
    /\ WF_daemonVars(MainHandler /\ main = "handler" /\ UNCHANGED configVars)
    /\ WF_daemonVars(EventThread /\ UNCHANGED configVars)
    /\ \A w \in Workers :
          /\ WF_daemonVars(WorkerHandler(w) /\ worker[w] = "handler" /\ UNCHANGED configVars)
          /\ WF_daemonVars(WorkerReturns(w) /\ UNCHANGED configVars)
    /\ SF_daemonVars(RunStop /\ UNCHANGED configVars)

DaemonFairSpec == DaemonSpec /\ DaemonFairness
----------------------------------------------------------------------------
(***************************************************************************)
(* Properties.                                                              *)
(***************************************************************************)
\* The server serves with as many workers as the configuration asks for, none of
\* them missing, and the application starts with a complete configuration only:
\* config::get never throws for want of the option.
WorkersAsConfigured ==
    /\ main # "init" => stage = "launched" /\ "threads" \in DOMAIN vm_.values
    /\ main \in {"serve", "handler"} =>
          Cardinality({w \in Workers : worker[w] # "none"}) = Get("threads")
----------------------------------------------------------------------------
(***************************************************************************)
(* The inductive invariant behind the theorems of DaemonProofs.             *)
(***************************************************************************)
\* The application runs with the configuration read, and its server creates the
\* configured workers before it serves.
LaunchInv ==
    /\ stage # "launched" => main = "init"
    /\ stage = "launched" => "threads" \in DOMAIN vm_.values
    /\ main \in {"init", "run", "lock", "wait", "woken"} =>
          \A w \in Workers : worker[w] = "none"
    /\ main \in {"init", "run"} => event = "none"
    /\ main \in {"start", "serve", "handler"} =>
          /\ Cardinality(threads) = Get("threads")
          /\ \A w \in Workers : worker[w] # "none" => w \in threads
    /\ main \in {"serve", "handler"} => \A w \in threads : worker[w] # "none"
=============================================================================
