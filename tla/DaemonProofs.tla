---------------------------- MODULE DaemonProofs ----------------------------
(***************************************************************************)
(* Theorems about AppLifecycle, for any number of workers, and Daemon, for  *)
(* any options, too.                                                        *)
(***************************************************************************)
EXTENDS Daemon, TLAPS

----------------------------------------------------------------------------
(***************************************************************************)
(* AppLifecycle.                                                            *)
(***************************************************************************)
\* Every step keeps the type invariant.
LEMMA TypeStep == TypeOK /\ [Next]_vars => TypeOK'
<1> SUFFICES ASSUME TypeOK, [Next]_vars PROVE TypeOK'
  OBVIOUS
<1> USE DEF TypeOK, MainPc, EventPc, WorkerPc, loopVars, ioVars
<1>1. CASE SetupSocket \/ StartEventThread \/ Wait \/ SpuriousWakeup
  BY <1>1, ZenonT(60) DEF SetupSocket, StartEventThread, Wait, SpuriousWakeup
<1>2. CASE \E T \in SUBSET Workers : CheckError(T)
  BY <1>2 DEF CheckError
<1>3. ASSUME NEW w \in Workers, StartWorker(w) \/ WorkerHandler(w) \/ WorkerReturns(w)
      PROVE  TypeOK'
  <2>1. worker' \in [Workers -> WorkerPc]
    BY <1>3 DEF StartWorker, WorkerHandler, WorkerReturns
  <2>2. UNCHANGED <<main, loopVars, threads, posted, stopped, destroyed>>
    BY <1>3, Zenon DEF StartWorker, WorkerHandler, WorkerReturns
  <2> QED
    BY <2>1, <2>2
<1>4. CASE Serve \/ MainHandler \/ ServeReturns \/ JoinEventThread \/ JoinWorkers
  BY <1>4, ZenonT(60) DEF Serve, MainHandler, ServeReturns, JoinEventThread, JoinWorkers
<1>5. CASE Destruct
  BY <1>5 DEF Destruct, LoopFlag
<1>6. CASE \E m \in DOMAIN GoneBefore : DestroyMember(m)
  BY <1>6 DEF DestroyMember, GoneBefore
<1>7. CASE Register
  <2>1. registered' \in BOOLEAN /\ event_error_' \in BOOLEAN
    BY <1>7, Zenon DEF Register
  <2> QED
    BY <1>7, <2>1 DEF Register
<1>8. CASE Notify \/ Loop
  BY <1>8, ZenonT(60) DEF Notify, Loop
<1>9. CASE Interrupt \/ RunStop
  <2>1. posted' \in BOOLEAN /\ stopped' \in BOOLEAN
    BY <1>9 DEF Interrupt, RunStop
  <2>2. UNCHANGED <<main, loopVars, threads, worker, destroyed>>
    BY <1>9, Zenon DEF Interrupt, RunStop
  <2> QED
    BY <2>1, <2>2
<1>10. CASE UNCHANGED vars
  BY <1>10 DEF vars
<1> HIDE DEF TypeOK
<1> QED
  BY <1>1, <1>2, <1>3, <1>4, <1>5, <1>6, <1>7, <1>8, <1>9, <1>10
  DEF Next, MainThread, EventThread

\* Type correctness of start and stop.
THEOREM TypeCorrect == Spec => []TypeOK
<1>1. Init => TypeOK
  BY DEF Init, TypeOK, MainPc, EventPc, WorkerPc
<1> QED
  BY <1>1, TypeStep, PTL DEF Spec

\* Every step keeps the order of the shutdown: event thread, then members.
LEMMA JoinStep == JoinInv /\ [Next]_vars => JoinInv'
<1> SUFFICES ASSUME JoinInv, [Next]_vars PROVE JoinInv'
  OBVIOUS
<1> USE DEF JoinInv, loopVars, ioVars
<1>1. CASE SetupSocket \/ StartEventThread \/ Wait \/ SpuriousWakeup
           \/ \E T \in SUBSET Workers : CheckError(T)
  BY <1>1 DEF SetupSocket, StartEventThread, Wait, CheckError, SpuriousWakeup
<1>2. CASE \E w \in Workers : StartWorker(w)
  BY <1>2 DEF StartWorker
<1>3. CASE Serve \/ MainHandler \/ ServeReturns
  BY <1>3 DEF Serve, MainHandler, ServeReturns
<1>4. CASE Destruct
  BY <1>4 DEF Destruct
<1>5. CASE JoinEventThread
  BY <1>5 DEF JoinEventThread, EventThreadEnded
<1>6. ASSUME NEW m \in DOMAIN GoneBefore, DestroyMember(m) PROVE JoinInv'
  <2>1. m \in {"events_", "websockets_", "pool_"}
    BY DEF GoneBefore
  <2>2. CASE m = "events_"
    BY <1>6, <2>2 DEF DestroyMember
  <2>3. CASE m = "websockets_"
    BY <1>6, <2>3 DEF DestroyMember
  <2>4. CASE m = "pool_"
    BY <1>6, <2>4 DEF DestroyMember, GoneBefore
  <2> QED
    BY <2>1, <2>2, <2>3, <2>4
<1>7. CASE JoinWorkers
  BY <1>7 DEF JoinWorkers
<1>8. CASE Register \/ Notify \/ Loop
  BY <1>8 DEF Register, Notify, Loop
<1>9. CASE \E w \in Workers : WorkerHandler(w) \/ WorkerReturns(w)
  BY <1>9 DEF WorkerHandler, WorkerReturns
<1>10. CASE Interrupt \/ RunStop \/ UNCHANGED vars
  BY <1>10 DEF Interrupt, RunStop, vars
<1> QED
  BY <1>1, <1>2, <1>3, <1>4, <1>5, <1>6, <1>7, <1>8, <1>9, <1>10
  DEF Next, MainThread, EventThread

\* ~app never destroys events_, websockets_ or pool_ while the event thread may
\* be in a callback that uses them, and destroys events_ before pool_.
THEOREM CallbacksEndFirst == Spec => []MembersOutliveCallbacks
<1>1. Init => JoinInv
  BY DEF Init, JoinInv
<1>2. JoinInv => MembersOutliveCallbacks
  BY DEF JoinInv, MembersOutliveCallbacks
<1> QED
  BY <1>1, <1>2, JoinStep, PTL DEF Spec

\* Every step keeps what a notified app::run knows of the registration.
LEMMA WakeStep == WakeInv /\ [Next]_vars => WakeInv'
<1> SUFFICES ASSUME WakeInv, [Next]_vars PROVE WakeInv'
  OBVIOUS
<1> USE DEF WakeInv, loopVars, ioVars
<1>1. CASE SetupSocket \/ StartEventThread \/ Wait
  BY <1>1 DEF SetupSocket, StartEventThread, Wait
<1>2. CASE \E T \in SUBSET Workers : CheckError(T)
  BY <1>2 DEF CheckError, RegistrationFailed
<1>3. CASE SpuriousWakeup
  BY <1>3 DEF SpuriousWakeup
<1>4. CASE \E w \in Workers : StartWorker(w)
  BY <1>4 DEF StartWorker
<1>5. CASE Serve \/ MainHandler \/ ServeReturns
  BY <1>5 DEF Serve, MainHandler, ServeReturns
<1>6. CASE Destruct \/ JoinEventThread \/ JoinWorkers
  BY <1>6 DEF Destruct, JoinEventThread, JoinWorkers
<1>7. CASE \E m \in DOMAIN GoneBefore : DestroyMember(m)
  BY <1>7 DEF DestroyMember
<1>8. CASE Register
  <2>1. PICK ok \in BOOLEAN : registered' = ok /\ event_error_' = ~ok
    BY <1>8, Zenon DEF Register
  <2>2. registered' \/ event_error_'
    BY <2>1, Zenon
  <2>3. event = "register" /\ event' = "notify" /\ main' = main
    BY <1>8 DEF Register
  <2>4. notified' = notified
    BY <1>8 DEF Register
  <2> QED
    BY <2>2, <2>3, <2>4
<1>9. CASE Notify \/ Loop
  BY <1>9 DEF Notify, Loop
<1>10. CASE \E w \in Workers : WorkerHandler(w) \/ WorkerReturns(w)
  BY <1>10 DEF WorkerHandler, WorkerReturns
<1>11. CASE Interrupt \/ RunStop \/ UNCHANGED vars
  BY <1>11 DEF Interrupt, RunStop, vars
<1> QED
  BY <1>1, <1>2, <1>3, <1>4, <1>5, <1>6, <1>7, <1>8, <1>9, <1>10, <1>11
  DEF Next, MainThread, EventThread

\* If notify_one ended the wait of app::run, requests are served only after the
\* event implementation has been registered.
THEOREM RegisteredFirst == Spec => []ServesRegistered
<1>1. Init => WakeInv
  BY DEF Init, WakeInv
<1>2. WakeInv => ServesRegistered
  BY DEF WakeInv, ServesRegistered
<1> QED
  BY <1>1, <1>2, WakeStep, PTL DEF Spec

\* Every step keeps the io_context stopped before ~app, if there are workers.
LEMMA StopStep == StopInv /\ TypeOK /\ JoinInv /\ [Next]_vars => StopInv'
<1> SUFFICES ASSUME StopInv, TypeOK, JoinInv, [Next]_vars PROVE StopInv'
  OBVIOUS
<1>1. UNCHANGED <<main, worker, stopped, event>> => StopInv'
  BY DEF StopInv, Ending, ExitsAlone, EventThreadEnded
<1> USE DEF StopInv, Ending, ExitsAlone, EventThreadEnded, loopVars, ioVars
<1>2. CASE SetupSocket \/ StartEventThread \/ Wait \/ SpuriousWakeup
           \/ \E T \in SUBSET Workers : CheckError(T)
  BY <1>2 DEF SetupSocket, StartEventThread, Wait, CheckError, SpuriousWakeup
<1>3. ASSUME NEW w \in Workers, StartWorker(w) PROVE StopInv'
  BY <1>3 DEF StartWorker
<1>4. CASE Serve \/ MainHandler \/ ServeReturns
  BY <1>4 DEF Serve, MainHandler, ServeReturns
<1>5. CASE Destruct \/ JoinEventThread
  BY <1>5 DEF Destruct, JoinEventThread
<1>6. ASSUME NEW m \in DOMAIN GoneBefore, DestroyMember(m) PROVE StopInv'
  BY <1>6 DEF DestroyMember
<1>7. CASE JoinWorkers
  BY <1>7 DEF JoinWorkers, JoinInv
<1>8. CASE Register \/ Notify \/ Loop
  BY <1>8 DEF Register, Notify, Loop
<1>9. ASSUME NEW w \in Workers, WorkerHandler(w) \/ WorkerReturns(w) PROVE StopInv'
  <2>1. worker[w] \in {"running", "handler"} /\ main # "exit"
    BY <1>9 DEF WorkerHandler, WorkerReturns
  <2>2. stopped' = stopped /\ main' = main
    BY <1>9 DEF WorkerHandler, WorkerReturns
  <2> QED
    BY <2>1, <2>2
<1>10. CASE RunStop
  BY <1>10 DEF RunStop
<1>11. CASE Interrupt \/ UNCHANGED vars
  BY <1>11, <1>1 DEF Interrupt, vars
<1> QED
  BY <1>2, <1>3, <1>4, <1>5, <1>6, <1>7, <1>8, <1>9, <1>10, <1>11
  DEF Next, MainThread, EventThread

\* The order of the stop holds throughout.
LEMMA StopAlways == Spec => [](StopInv /\ TypeOK)
<1>1. Init => StopInv /\ JoinInv
  BY DEF Init, StopInv, Ending, ExitsAlone, JoinInv
<1> QED
  BY <1>1, StopStep, JoinStep, TypeCorrect, PTL DEF Spec

\* The workers outlive the members of app that their handlers use, but from the
\* beginning of ~app on they only finish what they have begun.
THEOREM NoHandlerStarts == Spec => LastHandlers
<1>1. ASSUME StopInv, TypeOK, [Next]_vars, Ending, NEW w \in Workers,
             worker'[w] = "handler"
      PROVE  worker[w] = "handler"
  <2>1. ASSUME NEW v \in Workers, WorkerHandler(v) \/ WorkerReturns(v)
        PROVE  worker[w] = "handler"
    BY <1>1, <2>1 DEF StopInv, TypeOK, WorkerHandler, WorkerReturns
  <2>2. ASSUME NEW v \in Workers, StartWorker(v) PROVE worker[w] = "handler"
    BY <1>1, <2>2 DEF Ending, StartWorker
  <2>3. CASE worker' = worker
    BY <1>1, <2>3
  <2> QED
    BY <1>1, <2>1, <2>2, <2>3 DEF Next, MainThread, EventThread, MainHandler, SetupSocket,
        StartEventThread, Wait, SpuriousWakeup, CheckError, Serve, ServeReturns, Destruct,
        JoinEventThread, DestroyMember, JoinWorkers, Register, Notify, Loop, Interrupt,
        RunStop, vars, ioVars
<1>2. StopInv /\ TypeOK /\ [Next]_vars =>
        [Ending => \A w \in Workers :
                      worker'[w] = "handler" => worker[w] = "handler"]_vars
  BY <1>1
<1> QED
  BY <1>2, StopAlways, PTL DEF Spec, LastHandlers

\* webvirt_main returns as the only thread left, whatever ended app::run.
THEOREM NoThreadIsLeft == Spec => []ExitsAlone
<1>1. StopInv => ExitsAlone
  BY DEF StopInv
<1> QED
  BY <1>1, StopAlways, PTL
----------------------------------------------------------------------------
(***************************************************************************)
(* Daemon.                                                                  *)
(***************************************************************************)
\* A configured set of workers is a set of workers: every step of the process is
\* a step of its application, or none.
LEMMA StepImplements == [DaemonNext]_daemonVars => [Next]_vars
<1> SUFFICES ASSUME [DaemonNext]_daemonVars PROVE [Next]_vars
  OBVIOUS
<1>1. CASE Configure
  BY <1>1 DEF Configure
<1>2. CASE RunMain
  <2>1. ASSUME NEW T \in ConfiguredWorkers, CheckError(T) PROVE MainThread
    <3>1. T \in SUBSET Workers
      BY DEF ConfiguredWorkers
    <3> QED
      BY <2>1, <3>1 DEF MainThread
  <2> QED
    BY <1>2, <2>1 DEF RunMain, MainThread, Next
<1>3. CASE RunOthers \/ Signal
  BY <1>3 DEF RunOthers, Signal, Next
<1>4. CASE UNCHANGED daemonVars
  BY <1>4 DEF daemonVars
<1> QED
  BY <1>1, <1>2, <1>3, <1>4 DEF DaemonNext

\* The process implements the specification of its start and stop: what is
\* proved of AppLifecycle holds of the configured daemon.
THEOREM DaemonImplements == DaemonSpec => Spec
<1>1. DaemonInit => Init
  BY DEF DaemonInit
<1> QED
  BY <1>1, StepImplements, PTL DEF DaemonSpec, Spec

\* The application and its signals leave the configuration alone.
LEMMA ConfigStep == [DaemonNext]_daemonVars => [ConfigNext]_configVars
  BY DEF DaemonNext, Configure, RunMain, RunOthers, Signal, daemonVars, configVars

\* What store() makes of a source when all settings have a value: the source wins
\* where no earlier one has given the setting.
LEMMA StoreStep ==
    ASSUME NEW src, Store(src), DOMAIN vm_.values = Settings
    PROVE  /\ DOMAIN vm_'.values = Settings
           /\ final_' = final_ \cup DOMAIN src.values
           /\ \A o \in Settings :
                 vm_'.values[o] = IF o \in DOMAIN src.values /\ o \notin final_
                                  THEN src.values[o] ELSE vm_.values[o]
  BY DEF Store, Stored

\* Every step of main() keeps what is known of the stored values.
LEMMA StoredStep == StoredInv /\ [ConfigNext]_configVars => StoredInv'
<1> SUFFICES ASSUME StoredInv, [ConfigNext]_configVars PROVE StoredInv'
  OBVIOUS
<1>0. DOMAIN Nothing.values = {}
  BY DEF Nothing
<1>1. CASE ParseArgv
  <2>1. /\ DOMAIN vm_'.values = Settings
        /\ final_' = DOMAIN argv.values
        /\ \A o \in Settings :
              vm_'.values[o] = IF o \in DOMAIN argv.values THEN argv.values[o]
                               ELSE Default[o]
    BY <1>0, <1>1 DEF ParseArgv, Store, Stored, StoredInv
  <2>2. file = Nothing /\ file' = Nothing /\ argv' = argv /\ stage' = "version"
    BY <1>1 DEF ParseArgv, StoredInv
  <2> QED
    BY <1>0, <2>1, <2>2 DEF StoredInv, Effective
<1>2. CASE ParseArgvFails
  BY <1>2 DEF ParseArgvFails, StoredInv
<1>3. CASE CheckVersion \/ CheckHelp \/ SetLogger \/ NoFile \/ ParseFileFails
  BY <1>3 DEF CheckVersion, CheckHelp, SetLogger, NoFile, ParseFileFails, StoredInv,
              Effective
<1>4. ASSUME NEW src \in FileSource, ParseFile(src) PROVE StoredInv'
  <2>1. /\ DOMAIN vm_.values = Settings
        /\ final_ = DOMAIN argv.values
        /\ \A o \in Settings :
              vm_.values[o] = IF o \in DOMAIN argv.values THEN argv.values[o]
                              ELSE Default[o]
    BY <1>0, <1>4 DEF ParseFile, StoredInv, Effective
  <2>2. /\ DOMAIN vm_'.values = Settings
        /\ final_' = final_ \cup DOMAIN src.values
        /\ \A o \in Settings :
              vm_'.values[o] = IF o \in DOMAIN src.values /\ o \notin final_
                               THEN src.values[o] ELSE vm_.values[o]
    BY <1>4, <2>1, StoreStep DEF ParseFile
  <2>3. file' = src /\ argv' = argv /\ stage' = "again"
    BY <1>4 DEF ParseFile
  <2> QED
    BY <2>1, <2>2, <2>3 DEF StoredInv, Effective
<1>5. CASE ParseAgain
  <2>1. /\ DOMAIN vm_.values = Settings
        /\ final_ = DOMAIN argv.values \cup DOMAIN file.values
        /\ \A o \in Settings : vm_.values[o] = Effective(o)
    BY <1>5 DEF ParseAgain, StoredInv
  <2>2. /\ DOMAIN vm_'.values = Settings
        /\ final_' = final_ \cup DOMAIN argv.values
        /\ \A o \in Settings :
              vm_'.values[o] = IF o \in DOMAIN argv.values /\ o \notin final_
                               THEN argv.values[o] ELSE vm_.values[o]
    BY <1>5, <2>1, StoreStep DEF ParseAgain
  <2>3. file' = file /\ argv' = argv /\ stage' = "change"
    BY <1>5 DEF ParseAgain
  <2> QED
    BY <2>1, <2>2, <2>3 DEF StoredInv, Effective
<1>6. CASE Launch
  BY <1>6 DEF Launch, StoredInv
<1>7. CASE UNCHANGED configVars
  BY <1>7 DEF configVars, StoredInv, Effective
<1> QED
  BY <1>1, <1>2, <1>3, <1>4, <1>5, <1>6, <1>7 DEF ConfigNext

\* What is known of the stored values holds throughout.
LEMMA StoredAlways == DaemonSpec => []StoredInv
<1>1. DaemonInit => StoredInv
  BY DEF DaemonInit, ConfigInit, StoredInv, Nothing
<1> QED
  BY <1>1, ConfigStep, StoredStep, PTL DEF DaemonSpec

\* The daemon starts with the values of the command line, then those of the
\* configuration file, then the defaults.
THEOREM CommandLineFirst == DaemonSpec => []Precedence
<1>1. StoredInv => Precedence
  BY DEF StoredInv, Precedence
<1> QED
  BY <1>1, StoredAlways, PTL

\* Every step keeps the order of configuration, start of the workers and service.
LEMMA LaunchStep ==
    LaunchInv /\ TypeOK /\ StoredInv' /\ [DaemonNext]_daemonVars => LaunchInv'
<1> SUFFICES ASSUME LaunchInv, TypeOK, StoredInv', [DaemonNext]_daemonVars
             PROVE  LaunchInv'
  OBVIOUS
<1>1. CASE Configure
  <2>1. stage # "launched"
    BY <1>1 DEF Configure, ConfigNext, ParseArgv, ParseArgvFails, CheckVersion,
                SetLogger, CheckHelp, ParseFile, NoFile, ParseFileFails, ParseAgain,
                Launch
  <2>2. UNCHANGED <<main, event, worker, threads>>
    BY <1>1 DEF Configure, vars, loopVars, ioVars
  <2>3. stage' = "launched" => "threads" \in DOMAIN vm_'.values
    BY ThreadsAssumption DEF StoredInv
  <2> QED
    BY <2>1, <2>2, <2>3 DEF LaunchInv
<1> USE DEF LaunchInv, Get, TypeOK, vars, loopVars, ioVars, configVars
<1>2. ASSUME NEW T \in ConfiguredWorkers, CheckError(T), UNCHANGED configVars
      PROVE  LaunchInv'
  <2>1. Cardinality(T) = Get("threads")
    BY DEF ConfiguredWorkers
  <2> QED
    BY <1>2, <2>1 DEF CheckError
<1>3. ASSUME NEW w \in Workers, StartWorker(w), UNCHANGED configVars PROVE LaunchInv'
  BY <1>3 DEF StartWorker
<1>4. ASSUME SetupSocket \/ StartEventThread \/ Wait \/ SpuriousWakeup,
             stage = "launched" \/ SpuriousWakeup, UNCHANGED configVars
      PROVE  LaunchInv'
  BY <1>4 DEF SetupSocket, StartEventThread, Wait, SpuriousWakeup
<1>5. ASSUME Serve \/ ServeReturns \/ Destruct \/ JoinEventThread \/ JoinWorkers
                   \/ \E m \in DOMAIN GoneBefore : DestroyMember(m),
             UNCHANGED configVars
      PROVE  LaunchInv'
  BY <1>5 DEF Serve, ServeReturns, Destruct, JoinEventThread, JoinWorkers,
              DestroyMember
<1>6. ASSUME MainHandler \/ EventThread \/ RunStop \/ Interrupt, UNCHANGED configVars
      PROVE  LaunchInv'
  BY <1>6 DEF MainHandler, EventThread, Register, Notify, Loop, RunStop, Interrupt
<1>7. ASSUME NEW w \in Workers, WorkerHandler(w) \/ WorkerReturns(w),
             UNCHANGED configVars
      PROVE  LaunchInv'
  BY <1>7 DEF WorkerHandler, WorkerReturns
<1>8. CASE UNCHANGED daemonVars
  BY <1>8 DEF daemonVars
<1> HIDE DEF LaunchInv, Get, TypeOK, vars, loopVars, ioVars, configVars
<1> QED
  BY <1>1, <1>2, <1>3, <1>4, <1>5, <1>6, <1>7, <1>8
  DEF DaemonNext, RunMain, RunOthers, Signal

\* The server serves with exactly the configured number of workers.
THEOREM WorkersConfigured == DaemonSpec => []WorkersAsConfigured
<1>1. DaemonInit => LaunchInv
  BY DEF DaemonInit, Init, ConfigInit, LaunchInv
<1>2. ASSUME LaunchInv, TypeOK PROVE WorkersAsConfigured
  <2>1. ASSUME main \in {"serve", "handler"}
        PROVE  {w \in Workers : worker[w] # "none"} = threads
    BY <1>2, <2>1 DEF LaunchInv, TypeOK
  <2> QED
    BY <1>2, <2>1 DEF LaunchInv, WorkersAsConfigured
<1>3. DaemonSpec => []TypeOK
  BY DaemonImplements, TypeCorrect, PTL
<1> QED
  BY <1>1, <1>2, <1>3, StoredAlways, LaunchStep, PTL DEF DaemonSpec
=============================================================================
