------------------------------ MODULE DomainOps ------------------------------
(***************************************************************************)
(* Requests that change one libvirt domain: start, shutdown, metadata, boot *)
(* menu and autostart (views/domains.cpp, virt/domain.cpp), retried by the  *)
(* router when the link to libvirt is lost (http/router.cpp,                *)
(* util/retry.hpp).                                                         *)
(*                                                                          *)
(* A thread runs one request at a time and makes one libvirt call per step: *)
(* between two calls of a request the calls of the others, and what the     *)
(* guest does, take effect.  Time is counted in polls of shutdown().        *)
(***************************************************************************)
EXTENDS Naturals

CONSTANTS
    Threads,         \* the threads in io_context::run
    Texts,           \* titles and descriptions
    Empty,           \* the empty text, which a domain without title has
    ShutdownTimeout, \* libvirt-shutdown-timeout, in polls
    ShutoffTimeout,  \* libvirt-shutoff-timeout, in polls
    Retries,         \* retry::retries_, which the router sets to 5
    MaxRequests,     \* bound: requests that arrive
    MaxFaults        \* bound: calls that fail or lose the link

ASSUME TextsAssumption == Empty \in Texts
ASSUME NumbersAssumption ==
    /\ ShutdownTimeout \in Nat /\ ShutoffTimeout \in Nat /\ Retries \in Nat
    /\ MaxRequests \in Nat /\ MaxFaults \in Nat

VARIABLES
    dom,      \* external: the domain as libvirt knows it, see Domain
    pc,       \* per thread: the libvirt call that comes next, or idle
    request,  \* per thread: its latest request, see Request
    status,   \* per thread: how that request was answered, 0 before
    retry_,   \* per thread: retry::retry_ of the request
    seen,     \* per thread: the local variable state of shutdown()
    elapsed,  \* per thread: time since start in a loop of shutdown()
    doc,      \* per thread: the definition in the XML it has read
    output,   \* per thread: the fields in the output of metadata
    arrived,  \* number of requests that have arrived
    faults,   \* number of calls that have failed or lost the link
    polls,    \* history, per thread: polls of the latest shutdown()
    wasOff,   \* history, per thread: shut off since its virDomainShutdown
    changed   \* history, per thread: a call of its request took effect

localVars == <<retry_, seen, elapsed, doc, output>>
historyVars == <<polls, wasOff, changed>>
vars == <<dom, pc, request, status, localVars, arrived, faults, historyVars>>

\* The states that shutdown() tells apart: running stands for every state but the
\* two it waits for.
State == {"running", "shutdown", "shutoff"}

\* A definition of the domain, and the one that stands for none.
Definition == [title : Texts, description : Texts, bootmenu : BOOLEAN]
Blank == [title |-> Empty, description |-> Empty, bootmenu |-> FALSE]

\* libvirt keeps two: saved, of which the domain is started, and live, of the
\* domain that is not off.
Domain == [state : State, asked : BOOLEAN, live : Definition, saved : Definition,
           autostart : BOOLEAN]

(***************************************************************************)
(* What a request asks for.  given: the members of the JSON body; unfit:    *)
(* those that cannot be made a string; enable: POST rather than DELETE.     *)
(***************************************************************************)
Op == {"start", "shutdown", "metadata", "bootmenu", "autostart"}
Field == {"title", "description"}
Request ==
    {req \in [op : Op, given : SUBSET Field, unfit : SUBSET Field, text : Texts,
              enable : BOOLEAN] :
        /\ req.unfit \subseteq req.given
        /\ req.op # "metadata" => req.given = {} /\ req.text = Empty
        /\ req.op \notin {"bootmenu", "autostart"} => req.enable}

Calls == {"create", "shutdown", "poll", "pollOff", "report", "getTitle", "setTitle",
          "getDescription", "setDescription", "getXML", "define", "setAutostart"}
Idle == "idle"
Status == {0, 200, 201, 304, 400, 500, 504}

\* The first call of a request, and of each retry of it.
First(op) ==
    CASE op = "start"     -> "create"
      [] op = "shutdown"  -> "shutdown"
      [] op = "metadata"  -> "getTitle"
      [] op = "bootmenu"  -> "getXML"
      [] op = "autostart" -> "setAutostart"

Init ==
    /\ dom \in [state : {"running", "shutoff"}, asked : {FALSE}, live : {Blank},
                saved : {Blank}, autostart : {FALSE}]
    /\ pc = [t \in Threads |-> Idle]
    /\ request = [t \in Threads |->
                    [op |-> "start", given |-> {}, unfit |-> {}, text |-> Empty,
                     enable |-> TRUE]]
    /\ status = [t \in Threads |-> 0]
    /\ retry_ = [t \in Threads |-> 0]
    /\ seen = [t \in Threads |-> "nostate"]
    /\ elapsed = [t \in Threads |-> 0]
    /\ doc = [t \in Threads |-> Blank]
    /\ output = [t \in Threads |-> {}]
    /\ arrived = 0
    /\ faults = 0
    /\ polls = [t \in Threads |-> 0]
    /\ wasOff = [t \in Threads |-> FALSE]
    /\ changed = [t \in Threads |-> FALSE]
----------------------------------------------------------------------------
(***************************************************************************)
(* libvirt (external): when a call can succeed and what it then does.       *)
(***************************************************************************)
Can(t) ==
    /\ pc[t] = "create" => dom.state = "shutoff"
    /\ pc[t] = "shutdown" => dom.state # "shutoff"

\* Calls without flags are about the live definition, or the saved one of a
\* domain that is off.
Current == IF dom.state = "shutoff" THEN dom.saved ELSE dom.live
WithCurrent(definition) ==
    IF dom.state = "shutoff" THEN [dom EXCEPT !.saved = definition]
    ELSE [dom EXCEPT !.live = definition]

\* virDomainDefineXML writes the saved definition, whatever the state.
Effect(t) ==
    CASE pc[t] = "create"         -> [dom EXCEPT !.state = "running", !.asked = FALSE,
                                                 !.live = dom.saved]
      [] pc[t] = "shutdown"       -> [dom EXCEPT !.asked = TRUE]
      [] pc[t] = "setTitle"       -> WithCurrent([Current EXCEPT !.title = request[t].text])
      [] pc[t] = "setDescription" ->
            WithCurrent([Current EXCEPT !.description = request[t].text])
      [] pc[t] = "define"         ->
            [dom EXCEPT !.saved = [doc[t] EXCEPT !.bootmenu = request[t].enable]]
      [] pc[t] = "setAutostart"   -> [dom EXCEPT !.autostart = request[t].enable]
      [] OTHER                    -> dom

Writes == {"create", "shutdown", "setTitle", "setDescription", "define",
           "setAutostart"}

\* The call of thread t succeeds.
TakesEffect(t) ==
    /\ Can(t)
    /\ dom' = Effect(t)
    /\ changed' = [changed EXCEPT ![t] = @ \/ pc[t] \in Writes]

\* It fails, for its reason or because something is wrong.
Refused(t) ==
    /\ faults' = IF Can(t) THEN faults + 1 ELSE faults
    /\ faults' <= MaxFaults
    /\ UNCHANGED <<dom, changed>>

Answer(t, code) ==
    /\ status' = [status EXCEPT ![t] = code]
    /\ pc' = [pc EXCEPT ![t] = Idle]

Continue(t, call) ==
    /\ pc' = [pc EXCEPT ![t] = call]
    /\ UNCHANGED status

\* The guest does what it was asked for, or goes off by itself.
GuestShutsDown ==
    /\ dom.state = "running"
    /\ dom.asked
    /\ dom' = [dom EXCEPT !.state = "shutdown"]
    /\ UNCHANGED <<pc, request, status, localVars, arrived, faults, historyVars>>

GuestOff ==
    /\ dom.state # "shutoff"
    /\ dom' = [dom EXCEPT !.state = "shutoff", !.asked = FALSE, !.live = Blank]
    /\ wasOff' = [t \in Threads |-> wasOff[t] \/ pc[t] \in {"poll", "pollOff"}]
    /\ UNCHANGED <<pc, request, status, localVars, arrived, faults, polls, changed>>
----------------------------------------------------------------------------
(***************************************************************************)
(* Requests and retries.                                                    *)
(***************************************************************************)
\* with_libvirt_domain has found the domain and calls the view.
Arrive(t, req) ==
    /\ pc[t] = Idle
    /\ arrived < MaxRequests
    /\ arrived' = arrived + 1
    /\ request' = [request EXCEPT ![t] = req]
    /\ pc' = [pc EXCEPT ![t] = First(req.op)]
    /\ status' = [status EXCEPT ![t] = 0]
    /\ retry_' = [retry_ EXCEPT ![t] = 0]
    /\ output' = [output EXCEPT ![t] = {}]
    /\ changed' = [changed EXCEPT ![t] = FALSE]
    /\ UNCHANGED <<dom, seen, elapsed, doc, faults, polls, wasOff>>

\* metadata with a body that is not JSON asks for nothing.
Malformed(t) ==
    /\ pc[t] = Idle
    /\ arrived < MaxRequests
    /\ arrived' = arrived + 1
    /\ request' = [request EXCEPT ![t] = [op |-> "metadata", given |-> {}, unfit |-> {},
                                          text |-> Empty, enable |-> TRUE]]
    /\ status' = [status EXCEPT ![t] = 400]
    /\ retry_' = [retry_ EXCEPT ![t] = 0]
    /\ output' = [output EXCEPT ![t] = {}]
    /\ changed' = [changed EXCEPT ![t] = FALSE]
    /\ UNCHANGED <<dom, pc, seen, elapsed, doc, faults, polls, wasOff>>

\* The link is lost during a call, before or after libvirt has executed it:
\* retry starts the route again, or gives up.
LinkLost(t) ==
    /\ pc[t] \in Calls
    /\ faults < MaxFaults
    /\ faults' = faults + 1
    /\ TakesEffect(t) \/ UNCHANGED <<dom, changed>>
    /\ retry_' = [retry_ EXCEPT ![t] = @ + 1]
    /\ output' = [output EXCEPT ![t] = {}]
    /\ IF retry_[t] < Retries
       THEN Continue(t, First(request[t].op))
       ELSE Answer(t, 500)
    /\ UNCHANGED <<request, seen, elapsed, doc, arrived, polls, wasOff>>
----------------------------------------------------------------------------
(***************************************************************************)
(* start and shutdown.                                                      *)
(***************************************************************************)
Create(t) ==
    /\ pc[t] = "create"
    /\ TakesEffect(t)
    /\ Continue(t, "report")
    /\ UNCHANGED <<request, localVars, arrived, faults, polls, wasOff>>

CreateFails(t) ==
    /\ pc[t] = "create"
    /\ Refused(t)
    /\ Answer(t, 400)
    /\ UNCHANGED <<request, localVars, arrived, polls, wasOff>>

\* virDomainShutdown succeeds: the first loop begins.
Shutdown(t) ==
    /\ pc[t] = "shutdown"
    /\ TakesEffect(t)
    /\ Continue(t, "poll")
    /\ seen' = [seen EXCEPT ![t] = "nostate"]
    /\ elapsed' = [elapsed EXCEPT ![t] = 0]
    /\ polls' = [polls EXCEPT ![t] = 0]
    /\ wasOff' = [wasOff EXCEPT ![t] = FALSE]
    /\ UNCHANGED <<request, retry_, doc, output, arrived, faults>>

ShutdownFails(t) ==
    /\ pc[t] = "shutdown"
    /\ Refused(t)
    /\ Answer(t, 400)
    /\ UNCHANGED <<request, localVars, arrived, polls, wasOff>>

\* virDomainGetState: an error leaves the variable as it was.
GetState(t) ==
    \/ seen' = [seen EXCEPT ![t] = dom.state] /\ UNCHANGED faults
    \/ UNCHANGED seen /\ faults < MaxFaults /\ faults' = faults + 1

\* Mutant: a second loop with the condition of the first.
TargetSame(call) == {"shutdown", "shutoff"}

\* The states in which a loop ends.
Target(call) == IF call = "poll" THEN {"shutdown", "shutoff"} ELSE {"shutoff"}

\* Mutant: a loop that counts one poll too many.
TimedOutLate(t) ==
    elapsed[t] > 1 + (IF pc[t] = "poll" THEN ShutdownTimeout ELSE ShutoffTimeout)

\* A loop has used up its timeout.
TimedOut(t) ==
    elapsed[t] > (IF pc[t] = "poll" THEN ShutdownTimeout ELSE ShutoffTimeout)

\* A state in which the loop ends: the second one, or the answer, follows.
PollEnds(t) ==
    /\ pc[t] \in {"poll", "pollOff"}
    /\ GetState(t)
    /\ seen'[t] \in Target(pc[t])
    /\ Continue(t, IF pc[t] = "poll" THEN "pollOff" ELSE "report")
    /\ elapsed' = [elapsed EXCEPT ![t] = 0]
    /\ polls' = [polls EXCEPT ![t] = @ + 1]
    /\ UNCHANGED <<dom, request, retry_, doc, output, arrived, wasOff, changed>>

\* Another state in time: sleep.
PollAgain(t) ==
    /\ pc[t] \in {"poll", "pollOff"}
    /\ GetState(t)
    /\ seen'[t] \notin Target(pc[t])
    /\ ~TimedOut(t)
    /\ elapsed' = [elapsed EXCEPT ![t] = @ + 1]
    /\ polls' = [polls EXCEPT ![t] = @ + 1]
    /\ UNCHANGED <<dom, pc, request, status, retry_, doc, output, arrived, wasOff,
                   changed>>

\* Another state too late: std::out_of_range, a gateway timeout.
PollGivesUp(t) ==
    /\ pc[t] \in {"poll", "pollOff"}
    /\ GetState(t)
    /\ seen'[t] \notin Target(pc[t])
    /\ TimedOut(t)
    /\ Answer(t, 504)
    /\ polls' = [polls EXCEPT ![t] = @ + 1]
    /\ UNCHANGED <<dom, request, retry_, elapsed, doc, output, arrived, wasOff,
                   changed>>

Success(t) == IF request[t].op = "start" THEN 201 ELSE 200

\* Mutant: an answer that waits for the state it is to show.
ReportWaits(t) ==
    /\ pc[t] = "report"
    /\ dom.state = (IF request[t].op = "start" THEN "running" ELSE "shutoff")
    /\ Answer(t, Success(t))
    /\ UNCHANGED <<dom, request, localVars, arrived, faults, historyVars>>

\* simple_domain reads what the answer shows; without a state (int state is not
\* initialized) it may throw std::out_of_range, a 500.
Report(t) ==
    /\ pc[t] = "report"
    /\ \/ Answer(t, Success(t)) /\ UNCHANGED faults
       \/ /\ faults < MaxFaults
          /\ faults' = faults + 1
          /\ \E code \in {Success(t), 500} : Answer(t, code)
    /\ UNCHANGED <<dom, request, localVars, arrived, historyVars>>
----------------------------------------------------------------------------
(***************************************************************************)
(* metadata: title, then description.                                       *)
(***************************************************************************)
\* The field that a call of metadata is about.
FieldOf(call) ==
    IF call \in {"getTitle", "setTitle"} THEN "title" ELSE "description"

\* The call that sets the field, when the request asks for another text than
\* the current one.
MetadataSets(t, current) ==
    FieldOf(pc[t]) \in request[t].given /\ request[t].text # current

\* metadata has dealt with a field: the other follows, or the answer.
FieldDone(t, fields) ==
    IF FieldOf(pc[t]) = "title"
    THEN Continue(t, "getDescription")
    ELSE Answer(t, IF fields = {} THEN 304 ELSE 200)

\* virDomainGetMetadata: an error reads like an empty text.  A member that is no
\* string makes asString throw, also after the title was set.
GetMetadata(t) ==
    /\ pc[t] \in {"getTitle", "getDescription"}
    /\ \E current \in {Current[FieldOf(pc[t])], Empty} :
          /\ faults' = IF current = Current[FieldOf(pc[t])] THEN faults ELSE faults + 1
          /\ faults' <= MaxFaults
          /\ IF FieldOf(pc[t]) \in request[t].unfit THEN Answer(t, 500)
             ELSE IF MetadataSets(t, current)
             THEN Continue(t, IF pc[t] = "getTitle" THEN "setTitle" ELSE "setDescription")
             ELSE FieldDone(t, output[t])
    /\ UNCHANGED <<dom, request, localVars, arrived, historyVars>>

\* Mutant: a metadata that forgets to add the field to its output.
SetMetadataForgets(t) ==
    /\ pc[t] \in {"setTitle", "setDescription"}
    /\ \/ TakesEffect(t) /\ UNCHANGED faults
       \/ Refused(t)
    /\ FieldDone(t, output[t])
    /\ UNCHANGED <<request, localVars, arrived, polls, wasOff>>

\* virDomainSetMetadata: its result is ignored.
SetMetadata(t) ==
    /\ pc[t] \in {"setTitle", "setDescription"}
    /\ \/ TakesEffect(t) /\ UNCHANGED faults
       \/ Refused(t)
    /\ output' = [output EXCEPT ![t] = @ \cup {FieldOf(pc[t])}]
    /\ FieldDone(t, output'[t])
    /\ UNCHANGED <<request, retry_, seen, elapsed, doc, arrived, polls, wasOff>>
----------------------------------------------------------------------------
(***************************************************************************)
(* bootmenu and autostart.                                                  *)
(***************************************************************************)
GetXML(t) ==
    /\ pc[t] = "getXML"
    /\ TakesEffect(t)
    /\ doc' = [doc EXCEPT ![t] = Current]
    /\ Continue(t, "define")
    /\ UNCHANGED <<request, retry_, seen, elapsed, output, arrived, faults, polls, wasOff>>

\* Without a description there is no string to read: std::logic_error.
GetXMLFails(t) ==
    /\ pc[t] = "getXML"
    /\ Refused(t)
    /\ Answer(t, 500)
    /\ UNCHANGED <<request, localVars, arrived, polls, wasOff>>

\* define_xml with the document that was read and the boot menu of the request:
\* texts of a running domain, and texts that are out of date by now, are saved.
DefineXML(t) ==
    /\ pc[t] = "define"
    /\ TakesEffect(t)
    /\ Answer(t, 200)
    /\ UNCHANGED <<request, localVars, arrived, faults, polls, wasOff>>

DefineXMLFails(t) ==
    /\ pc[t] = "define"
    /\ Refused(t)
    /\ Answer(t, 500)
    /\ UNCHANGED <<request, localVars, arrived, polls, wasOff>>

\* virDomainSetAutostart: its result is ignored.
SetAutostart(t) ==
    /\ pc[t] = "setAutostart"
    /\ \/ TakesEffect(t) /\ UNCHANGED faults
       \/ Refused(t)
    /\ Answer(t, 200)
    /\ UNCHANGED <<request, localVars, arrived, polls, wasOff>>
----------------------------------------------------------------------------
Step(t) ==
    \/ LinkLost(t) \/ Create(t) \/ CreateFails(t) \/ Shutdown(t) \/ ShutdownFails(t)
    \/ PollEnds(t) \/ PollAgain(t) \/ PollGivesUp(t) \/ Report(t)
    \/ GetMetadata(t) \/ SetMetadata(t)
    \/ GetXML(t) \/ GetXMLFails(t) \/ DefineXML(t) \/ DefineXMLFails(t)
    \/ SetAutostart(t)

Next ==
    \/ GuestShutsDown \/ GuestOff
    \/ \E t \in Threads : Step(t) \/ Malformed(t)
    \/ \E t \in Threads, req \in Request : Arrive(t, req)

Spec == Init /\ [][Next]_vars

\* Threads go on; the guest promises nothing.
FairSpec == Spec /\ \A t \in Threads : WF_vars(Step(t))
----------------------------------------------------------------------------
(***************************************************************************)
(* Properties.                                                              *)
(***************************************************************************)
\* Every variable stays in the set of values that the data it models can have.
TypeOK ==
    /\ dom \in Domain
    /\ pc \in [Threads -> Calls \cup {Idle}]
    /\ request \in [Threads -> Request]
    /\ status \in [Threads -> Status]
    /\ retry_ \in [Threads -> Nat]
    /\ seen \in [Threads -> State \cup {"nostate"}]
    /\ elapsed \in [Threads -> Nat]
    /\ doc \in [Threads -> Definition]
    /\ output \in [Threads -> SUBSET Field]
    /\ arrived \in 0 .. MaxRequests
    /\ faults \in 0 .. MaxFaults
    /\ polls \in [Threads -> Nat]
    /\ wasOff \in [Threads -> BOOLEAN]
    /\ changed \in [Threads -> BOOLEAN]

\* shutdown is answered with success only if the domain was shut off at some
\* time after the virDomainShutdown of its last attempt, whatever other requests
\* did meanwhile and although failed polls leave an old state behind.
ShutdownWasOff ==
    \A t \in Threads : request[t].op = "shutdown" /\ status[t] = 200 => wasOff[t]

\* shutdown() polls for its two timeouts and no longer, also when other requests
\* start the domain again and again.
PollsBounded == \A t \in Threads : polls[t] <= ShutdownTimeout + ShutoffTimeout + 4

\* A request that was refused (400) or found nothing to do (304) has changed
\* nothing, unless it was retried.
RefusedIsClean ==
    \A t \in Threads : status[t] \in {304, 400} /\ retry_[t] = 0 => ~changed[t]

\* Every request is answered, whatever the guest and the other requests do.
RequestAnswered == \A t \in Threads : pc[t] # Idle ~> pc[t] = Idle
----------------------------------------------------------------------------
(***************************************************************************)
(* The inductive invariant behind the theorems of DomainOpsProofs.          *)
(***************************************************************************)
\* A thread makes the calls of its request, and has not answered it yet.
CallsOf(op) ==
    CASE op = "start"     -> {"create", "report"}
      [] op = "shutdown"  -> {"shutdown", "poll", "pollOff", "report"}
      [] op = "metadata"  -> {"getTitle", "setTitle", "getDescription", "setDescription"}
      [] op = "bootmenu"  -> {"getXML", "define"}
      [] op = "autostart" -> {"setAutostart"}

CallInv ==
    \A t \in Threads :
        pc[t] # Idle => pc[t] \in CallsOf(request[t].op) /\ status[t] = 0

\* A domain that is off, or was seen to be off, went off while shutdown() polled.
OffInv ==
    \A t \in Threads :
        /\ pc[t] \in {"poll", "pollOff"} /\ "shutoff" \in {dom.state, seen[t]} => wasOff[t]
        /\ pc[t] = "report" /\ request[t].op = "shutdown" => wasOff[t]

\* The time spent in a loop bounds the polls.
PollInv ==
    \A t \in Threads :
        /\ pc[t] = "poll" => /\ elapsed[t] <= ShutdownTimeout + 1
                             /\ polls[t] <= elapsed[t]
        /\ pc[t] = "pollOff" => /\ elapsed[t] <= ShutoffTimeout + 1
                                /\ polls[t] <= ShutdownTimeout + 2 + elapsed[t]

\* What a first attempt has changed is past the calls that may refuse it, and in
\* the output of metadata.
CleanInv ==
    \A t \in Threads :
        pc[t] # Idle /\ retry_[t] = 0 /\ changed[t] =>
            /\ pc[t] \notin {"create", "shutdown"}
            /\ request[t].op = "metadata" => output[t] # {}

IndInv ==
    /\ TypeOK
    /\ CallInv
    /\ OffInv
    /\ PollInv
    /\ CleanInv
    /\ ShutdownWasOff
    /\ PollsBounded
    /\ RefusedIsClean
=============================================================================
