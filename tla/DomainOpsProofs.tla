--------------------------- MODULE DomainOpsProofs ---------------------------
(***************************************************************************)
(* Theorems about DomainOps, for any number of threads, requests, failures  *)
(* and retries, and for any timeouts.                                       *)
(***************************************************************************)
EXTENDS DomainOps, TLAPS

USE TextsAssumption, NumbersAssumption

\* No definition is one too.
LEMMA BlankIsDefinition == Blank \in Definition
BY DEF Blank, Definition

\* What libvirt makes of the domain is a domain, and no call turns it off.
LEMMA EffectIsDomain ==
    ASSUME TypeOK, NEW t \in Threads
    PROVE  Effect(t) \in Domain /\ (Effect(t).state = "shutoff" => dom.state = "shutoff")
<1>1. dom \in Domain
  BY DEF TypeOK
<1>2. request[t].text \in Texts /\ request[t].enable \in BOOLEAN
  BY DEF TypeOK, Request
<1>3. Current \in Definition /\ doc[t] \in Definition
  BY <1>1 DEF TypeOK, Current, Domain
<1>4. /\ [Current EXCEPT !.title = request[t].text] \in Definition
      /\ [Current EXCEPT !.description = request[t].text] \in Definition
      /\ [doc[t] EXCEPT !.bootmenu = request[t].enable] \in Definition
  BY <1>2, <1>3 DEF Definition
<1>5. ASSUME NEW d \in Definition
      PROVE  /\ WithCurrent(d) \in Domain /\ WithCurrent(d).state = dom.state
             /\ [dom EXCEPT !.saved = d] \in Domain
             /\ [dom EXCEPT !.saved = d].state = dom.state
  BY <1>1 DEF WithCurrent, Domain
<1>6. CASE pc[t] = "create"
  BY <1>1, <1>6 DEF Effect, Domain, State
<1>7. CASE pc[t] \in {"setTitle", "setDescription", "define"}
  BY <1>4, <1>5, <1>7 DEF Effect
<1>8. CASE pc[t] \in {"shutdown", "setAutostart"}
  BY <1>1, <1>2, <1>8 DEF Effect, Domain
<1>9. CASE pc[t] \notin {"create", "setTitle", "setDescription", "define", "shutdown",
                         "setAutostart"}
  BY <1>1, <1>9 DEF Effect
<1> QED
  BY <1>6, <1>7, <1>8, <1>9

\* What a successful call leaves behind.
LEMMA EffectFacts ==
    ASSUME TypeOK, NEW t \in Threads, TakesEffect(t)
    PROVE  /\ dom' \in Domain
           /\ changed' \in [Threads -> BOOLEAN]
           /\ dom'.state = "shutoff" => dom.state = "shutoff"
           /\ \A u \in Threads : changed'[u] <=> changed[u] \/ (u = t /\ pc[t] \in Writes)
<1>1. dom' \in Domain /\ (dom'.state = "shutoff" => dom.state = "shutoff")
  BY EffectIsDomain DEF TakesEffect
<1>2. changed' \in [Threads -> BOOLEAN]
  BY DEF TakesEffect, TypeOK
<1>3. ASSUME NEW u \in Threads
      PROVE  changed'[u] <=> changed[u] \/ (u = t /\ pc[t] \in Writes)
  <2>1. changed' = [changed EXCEPT ![t] = changed[t] \/ pc[t] \in Writes]
        /\ changed \in [Threads -> BOOLEAN]
    BY DEF TakesEffect, TypeOK
  <2>2. CASE u = t
    BY <2>1, <2>2
  <2>3. CASE u # t
    BY <2>1, <2>3
  <2> QED
    BY <2>2, <2>3
<1> QED
  BY <1>1, <1>2, <1>3

\* The calls and the answers that the views use.
LEMMA Members ==
    /\ "report" \in Calls /\ "poll" \in Calls /\ "pollOff" \in Calls
    /\ "getDescription" \in Calls /\ "setTitle" \in Calls /\ "setDescription" \in Calls
    /\ "define" \in Calls
    /\ 0 \in Status /\ 200 \in Status /\ 201 \in Status /\ 304 \in Status
    /\ 400 \in Status /\ 500 \in Status /\ 504 \in Status
BY DEF Calls, Status

\* The first call of a request is one of its calls.
LEMMA FirstIsCall ==
    \A op \in Op : /\ First(op) \in CallsOf(op)
                   /\ First(op) \in Calls
                   /\ First(op) \notin {"poll", "pollOff", "report", "define", Idle}
BY DEF First, CallsOf, Calls, Op, Idle

\* An answer and the next call are of their types.
LEMMA AnswerType ==
    ASSUME TypeOK, NEW t \in Threads, NEW code \in Status, Answer(t, code)
    PROVE  pc' \in [Threads -> Calls \cup {Idle}] /\ status' \in [Threads -> Status]
BY DEF TypeOK, Answer

LEMMA ContinueType ==
    ASSUME TypeOK, NEW t \in Threads, NEW call \in Calls, Continue(t, call)
    PROVE  pc' \in [Threads -> Calls \cup {Idle}] /\ status' \in [Threads -> Status]
BY DEF TypeOK, Continue

\* A call leads to a later one, or to an answer.
LEMMA MetadataFacts ==
    ASSUME TypeOK, NEW t \in Threads, NEW fields, FieldDone(t, fields),
           pc[t] \in {"getTitle", "setTitle", "getDescription", "setDescription"}
    PROVE  \/ pc' = [pc EXCEPT ![t] = "getDescription"] /\ status' = status
           \/ /\ pc' = [pc EXCEPT ![t] = Idle]
              /\ \/ status' = [status EXCEPT ![t] = 304] /\ fields = {}
                 \/ status' = [status EXCEPT ![t] = 200] /\ fields # {}
BY DEF FieldDone, Continue, Answer

LEMMA FieldDoneType ==
    ASSUME TypeOK, NEW t \in Threads, NEW fields, FieldDone(t, fields)
    PROVE  pc' \in [Threads -> Calls \cup {Idle}] /\ status' \in [Threads -> Status]
<1>1. CASE FieldOf(pc[t]) = "title"
  BY <1>1, ContinueType, Members DEF FieldDone
<1>2. CASE FieldOf(pc[t]) # "title"
  BY <1>2, AnswerType, Members DEF FieldDone
<1> QED
  BY <1>1, <1>2

\* Every step keeps the type invariant.
LEMMA TypeStep == TypeOK /\ [Next]_vars => TypeOK'
<1> SUFFICES ASSUME TypeOK, [Next]_vars PROVE TypeOK'
  OBVIOUS
<1> USE Members DEF localVars, historyVars
<1>1. CASE GuestShutsDown
  BY <1>1 DEF GuestShutsDown, TypeOK, Domain, State
<1>2. CASE GuestOff
  BY <1>2, BlankIsDefinition DEF GuestOff, TypeOK, Domain, State
<1>3. ASSUME NEW t \in Threads, NEW req \in Request, Arrive(t, req) PROVE TypeOK'
  <2>1. First(req.op) \in Calls
    BY FirstIsCall DEF Request
  <2>2. arrived' \in 0 .. MaxRequests
    BY <1>3 DEF Arrive, TypeOK
  <2>3. pc' \in [Threads -> Calls \cup {Idle}]
    BY <1>3, <2>1 DEF Arrive, TypeOK
  <2> QED
    BY <1>3, <2>2, <2>3 DEF Arrive, TypeOK
<1>4. ASSUME NEW t \in Threads, Malformed(t) PROVE TypeOK'
  <2>1. arrived' \in 0 .. MaxRequests
    BY <1>4 DEF Malformed, TypeOK
  <2>2. [op |-> "metadata", given |-> {}, unfit |-> {}, text |-> Empty, enable |-> TRUE] \in Request
    BY DEF Request, Op, Field
  <2> QED
    BY <1>4, <2>1, <2>2 DEF Malformed, TypeOK
<1>5. ASSUME NEW t \in Threads, LinkLost(t) PROVE TypeOK'
  <2>1. dom' \in Domain /\ changed' \in [Threads -> BOOLEAN]
    BY <1>5, EffectFacts DEF LinkLost, TypeOK
  <2>2. First(request[t].op) \in Calls
    BY FirstIsCall DEF Request, TypeOK
  <2>3. pc' \in [Threads -> Calls \cup {Idle}] /\ status' \in [Threads -> Status]
    BY <1>5, <2>2, AnswerType, ContinueType DEF LinkLost
  <2>4. faults' \in 0 .. MaxFaults
    BY <1>5 DEF LinkLost, TypeOK
  <2>5. retry_' \in [Threads -> Nat] /\ output' \in [Threads -> SUBSET Field]
    BY <1>5 DEF LinkLost, TypeOK
  <2>6. UNCHANGED <<request, seen, elapsed, doc, arrived, polls, wasOff>>
    BY <1>5 DEF LinkLost
  <2> QED
    BY <2>1, <2>3, <2>4, <2>5, <2>6 DEF TypeOK
<1>6. ASSUME NEW t \in Threads, Create(t) \/ DefineXML(t) PROVE TypeOK'
  <2>1. dom' \in Domain /\ changed' \in [Threads -> BOOLEAN]
    BY <1>6, EffectFacts DEF Create, DefineXML
  <2>2. pc' \in [Threads -> Calls \cup {Idle}] /\ status' \in [Threads -> Status]
    BY <1>6, AnswerType, ContinueType DEF Create, DefineXML
  <2>3. UNCHANGED <<request, localVars, arrived, faults, polls, wasOff>>
    BY <1>6 DEF Create, DefineXML
  <2> QED
    BY <2>1, <2>2, <2>3 DEF TypeOK
<1>7. ASSUME NEW t \in Threads,
             CreateFails(t) \/ ShutdownFails(t) \/ GetXMLFails(t) \/ DefineXMLFails(t)
      PROVE  TypeOK'
  <2>1. faults' \in 0 .. MaxFaults
    BY <1>7 DEF CreateFails, ShutdownFails, GetXMLFails, DefineXMLFails, Refused, TypeOK
  <2>2. pc' \in [Threads -> Calls \cup {Idle}] /\ status' \in [Threads -> Status]
    BY <1>7, AnswerType DEF CreateFails, ShutdownFails, GetXMLFails, DefineXMLFails
  <2>3. UNCHANGED <<dom, changed, request, localVars, arrived, polls, wasOff>>
    BY <1>7 DEF CreateFails, ShutdownFails, GetXMLFails, DefineXMLFails, Refused
  <2> QED
    BY <2>1, <2>2, <2>3 DEF TypeOK
<1>8. ASSUME NEW t \in Threads, Shutdown(t) PROVE TypeOK'
  <2>1. dom' \in Domain /\ changed' \in [Threads -> BOOLEAN]
    BY <1>8, EffectFacts DEF Shutdown
  <2>2. pc' \in [Threads -> Calls \cup {Idle}] /\ status' \in [Threads -> Status]
    BY <1>8, ContinueType DEF Shutdown
  <2> QED
    BY <1>8, <2>1, <2>2 DEF Shutdown, TypeOK
<1>9. ASSUME NEW t \in Threads, PollEnds(t) \/ PollAgain(t) \/ PollGivesUp(t) PROVE TypeOK'
  <2>1. /\ seen' \in [Threads -> State \cup {"nostate"}]
        /\ faults' \in 0 .. MaxFaults
    BY <1>9 DEF PollEnds, PollAgain, PollGivesUp, GetState, TypeOK, Domain
  <2>2. pc' \in [Threads -> Calls \cup {Idle}] /\ status' \in [Threads -> Status]
    <3>1. CASE PollEnds(t)
      BY <3>1, ContinueType DEF PollEnds
    <3>2. CASE PollAgain(t)
      BY <3>2 DEF PollAgain, TypeOK
    <3>3. CASE PollGivesUp(t)
      BY <3>3, AnswerType DEF PollGivesUp
    <3> QED
      BY <1>9, <3>1, <3>2, <3>3
  <2>3. elapsed' \in [Threads -> Nat] /\ polls' \in [Threads -> Nat]
    BY <1>9 DEF PollEnds, PollAgain, PollGivesUp, TypeOK
  <2>4. UNCHANGED <<dom, request, retry_, doc, output, arrived, wasOff, changed>>
    BY <1>9 DEF PollEnds, PollAgain, PollGivesUp
  <2> QED
    BY <2>1, <2>2, <2>3, <2>4 DEF TypeOK
<1>10. ASSUME NEW t \in Threads, Report(t) PROVE TypeOK'
  <2>1. faults' \in 0 .. MaxFaults
    BY <1>10 DEF Report, TypeOK
  <2>2. Success(t) \in Status
    BY DEF Success
  <2>3. pc' \in [Threads -> Calls \cup {Idle}] /\ status' \in [Threads -> Status]
    BY <1>10, <2>2, AnswerType DEF Report
  <2> QED
    BY <1>10, <2>1, <2>3 DEF Report, TypeOK
<1>11. ASSUME NEW t \in Threads, GetMetadata(t) PROVE TypeOK'
  <2>1. faults' \in 0 .. MaxFaults
    BY <1>11 DEF GetMetadata, TypeOK
  <2>2. pc' \in [Threads -> Calls \cup {Idle}] /\ status' \in [Threads -> Status]
    BY <1>11, FieldDoneType, ContinueType, AnswerType DEF GetMetadata
  <2> QED
    BY <1>11, <2>1, <2>2 DEF GetMetadata, TypeOK
<1>12. ASSUME NEW t \in Threads, SetMetadata(t) PROVE TypeOK'
  <2>1. dom' \in Domain /\ changed' \in [Threads -> BOOLEAN]
    BY <1>12, EffectFacts DEF SetMetadata, Refused, TypeOK
  <2>2. faults' \in 0 .. MaxFaults
    BY <1>12 DEF SetMetadata, Refused, TypeOK
  <2>3. pc' \in [Threads -> Calls \cup {Idle}] /\ status' \in [Threads -> Status]
    BY <1>12, FieldDoneType DEF SetMetadata
  <2>4. output' \in [Threads -> SUBSET Field]
    BY <1>12 DEF SetMetadata, TypeOK, Field, FieldOf
  <2> QED
    BY <1>12, <2>1, <2>2, <2>3, <2>4 DEF SetMetadata, TypeOK
<1>13. ASSUME NEW t \in Threads, GetXML(t) PROVE TypeOK'
  <2>1. dom' \in Domain /\ changed' \in [Threads -> BOOLEAN]
    BY <1>13, EffectFacts DEF GetXML
  <2>2. doc' \in [Threads -> Definition]
    BY <1>13 DEF GetXML, Current, TypeOK, Domain
  <2> QED
    BY <1>13, <2>1, <2>2 DEF GetXML, Continue, TypeOK
<1>14. ASSUME NEW t \in Threads, SetAutostart(t) PROVE TypeOK'
  <2>1. dom' \in Domain /\ changed' \in [Threads -> BOOLEAN]
    BY <1>14, EffectFacts DEF SetAutostart, Refused, TypeOK
  <2>2. faults' \in 0 .. MaxFaults
    BY <1>14 DEF SetAutostart, Refused, TypeOK
  <2> QED
    BY <1>14, <2>1, <2>2 DEF SetAutostart, Answer, TypeOK
<1>15. CASE UNCHANGED vars
  BY <1>15 DEF vars, TypeOK
<1> QED
  BY <1>1, <1>2, <1>3, <1>4, <1>5, <1>6, <1>7, <1>8, <1>9, <1>10, <1>11, <1>12, <1>13,
     <1>14, <1>15
  DEF Next, Step

\* The call that a thread is in tells what its request asks for.
LEMMA OpOfCall ==
    ASSUME TypeOK, CallInv, NEW t \in Threads
    PROVE  /\ pc[t] = "create" => request[t].op = "start"
           /\ pc[t] \in {"shutdown", "poll", "pollOff"} => request[t].op = "shutdown"
           /\ pc[t] = "report" => request[t].op \in {"start", "shutdown"}
           /\ pc[t] \in {"getTitle", "setTitle", "getDescription", "setDescription"} =>
                 request[t].op = "metadata"
           /\ pc[t] \in {"getXML", "define"} => request[t].op = "bootmenu"
           /\ pc[t] = "setAutostart" => request[t].op = "autostart"
<1>1. request[t].op \in Op
  BY DEF TypeOK, Request
<1>2. pc[t] # Idle => pc[t] \in CallsOf(request[t].op)
  BY DEF CallInv
<1> QED
  BY <1>1, <1>2 DEF CallsOf, Op, Idle

\* A request that is answered, or goes on, is with one of its calls.
LEMMA CallStep == TypeOK /\ CallInv /\ [Next]_vars => CallInv'
<1> SUFFICES ASSUME TypeOK, CallInv, [Next]_vars PROVE CallInv'
  OBVIOUS
<1> USE DEF localVars, historyVars
<1>1. ASSUME NEW t \in Threads, NEW call, call \in CallsOf(request[t].op),
             pc[t] # Idle, Continue(t, call), request' = request
      PROVE  CallInv'
  BY <1>1 DEF Continue, CallInv, TypeOK
<1>2. ASSUME NEW t \in Threads, NEW code, Answer(t, code), request' = request
      PROVE  CallInv'
  BY <1>2 DEF Answer, CallInv, TypeOK
<1>3. CASE GuestShutsDown \/ GuestOff \/ UNCHANGED vars
  BY <1>3 DEF GuestShutsDown, GuestOff, vars, CallInv
<1>4. ASSUME NEW t \in Threads, NEW req \in Request, Arrive(t, req) PROVE CallInv'
  <2>1. First(req.op) \in CallsOf(req.op)
    BY FirstIsCall DEF Request
  <2> QED
    BY <1>4, <2>1 DEF Arrive, CallInv, TypeOK
<1>5. ASSUME NEW t \in Threads, Malformed(t) PROVE CallInv'
  BY <1>5 DEF Malformed, CallInv, TypeOK
<1>6. ASSUME NEW t \in Threads, LinkLost(t) PROVE CallInv'
  <2>1. First(request[t].op) \in CallsOf(request[t].op)
    BY FirstIsCall DEF Request, TypeOK
  <2>2. pc[t] # Idle /\ request' = request
    BY <1>6 DEF LinkLost, Calls, Idle
  <2> QED
    BY <1>1, <1>2, <1>6, <2>1, <2>2 DEF LinkLost
<1>7. ASSUME NEW t \in Threads, Create(t) \/ Shutdown(t) \/ PollEnds(t) \/ GetXML(t)
      PROVE  CallInv'
  <2>1. request' = request /\ pc[t] # Idle
    BY <1>7 DEF Create, Shutdown, PollEnds, GetXML, Idle
  <2>2. \E call \in CallsOf(request[t].op) : Continue(t, call)
    BY <1>7, OpOfCall DEF Create, Shutdown, PollEnds, GetXML, CallsOf
  <2> QED
    BY <1>1, <2>1, <2>2
<1>8. ASSUME NEW t \in Threads,
             \/ CreateFails(t) \/ ShutdownFails(t) \/ GetXMLFails(t) \/ DefineXML(t)
             \/ DefineXMLFails(t) \/ PollGivesUp(t) \/ Report(t) \/ SetAutostart(t)
      PROVE  CallInv'
  <2>1. request' = request
    BY <1>8 DEF CreateFails, ShutdownFails, GetXMLFails, DefineXML, DefineXMLFails,
                PollGivesUp, Report, SetAutostart
  <2>2. \E code : Answer(t, code)
    BY <1>8 DEF CreateFails, ShutdownFails, GetXMLFails, DefineXML, DefineXMLFails,
                PollGivesUp, Report, SetAutostart
  <2> QED
    BY <1>2, <2>1, <2>2
<1>9. ASSUME NEW t \in Threads, PollAgain(t) PROVE CallInv'
  BY <1>9 DEF PollAgain, CallInv
<1>10. ASSUME NEW t \in Threads, GetMetadata(t) \/ SetMetadata(t) PROVE CallInv'
  <2>1. request' = request /\ pc[t] # Idle /\ request[t].op = "metadata"
    BY <1>10, OpOfCall DEF GetMetadata, SetMetadata, Idle
  <2>2. \/ \E call \in CallsOf("metadata") : Continue(t, call)
        \/ \E code : Answer(t, code)
    BY <1>10 DEF GetMetadata, SetMetadata, FieldDone, CallsOf
  <2> QED
    BY <1>1, <1>2, <2>1, <2>2
<1> QED
  BY <1>3, <1>4, <1>5, <1>6, <1>7, <1>8, <1>9, <1>10 DEF Next, Step

\* A step of one thread leaves the request of another alone.
LEMMA Frame ==
    ASSUME TypeOK, NEW t \in Threads, Step(t), NEW u \in Threads, u # t
    PROVE  /\ pc'[u] = pc[u] /\ request'[u] = request[u] /\ status'[u] = status[u]
           /\ retry_'[u] = retry_[u] /\ seen'[u] = seen[u] /\ elapsed'[u] = elapsed[u]
           /\ doc'[u] = doc[u] /\ output'[u] = output[u]
           /\ polls'[u] = polls[u] /\ wasOff'[u] = wasOff[u] /\ (changed'[u] <=> changed[u])
           /\ dom'.state = "shutoff" => dom.state = "shutoff"
<1> USE DEF localVars, historyVars
<1>1. \/ TakesEffect(t)
      \/ UNCHANGED <<dom, changed>>
  BY DEF Step, LinkLost, Create, CreateFails, Shutdown, ShutdownFails, PollEnds, PollAgain,
    PollGivesUp, Report, GetMetadata, SetMetadata, GetXML, GetXMLFails, DefineXML,
    DefineXMLFails, SetAutostart, Refused
<1>2. /\ changed'[u] <=> changed[u]
      /\ dom'.state = "shutoff" => dom.state = "shutoff"
  BY <1>1, EffectFacts
<1>3. pc'[u] = pc[u] /\ status'[u] = status[u]
  BY DEF Step, LinkLost, Create, CreateFails, Shutdown, ShutdownFails, PollEnds, PollAgain,
    PollGivesUp, Report, GetMetadata, SetMetadata, GetXML, GetXMLFails, DefineXML,
    DefineXMLFails, SetAutostart, FieldDone, Continue, Answer, TypeOK
<1>4. request'[u] = request[u] /\ seen'[u] = seen[u] /\ wasOff'[u] = wasOff[u]
  BY DEF Step, LinkLost, Create, CreateFails, Shutdown, ShutdownFails, PollEnds, PollAgain,
    PollGivesUp, Report, GetMetadata, SetMetadata, GetXML, GetXMLFails, DefineXML,
    DefineXMLFails, SetAutostart, GetState, TypeOK
<1>5. retry_'[u] = retry_[u] /\ output'[u] = output[u] /\ doc'[u] = doc[u]
  BY DEF Step, LinkLost, Create, CreateFails, Shutdown, ShutdownFails, PollEnds, PollAgain,
    PollGivesUp, Report, GetMetadata, SetMetadata, GetXML, GetXMLFails, DefineXML,
    DefineXMLFails, SetAutostart, TypeOK
<1>6. elapsed'[u] = elapsed[u] /\ polls'[u] = polls[u]
  BY DEF Step, LinkLost, Create, CreateFails, Shutdown, ShutdownFails, PollEnds, PollAgain,
    PollGivesUp, Report, GetMetadata, SetMetadata, GetXML, GetXMLFails, DefineXML,
    DefineXMLFails, SetAutostart, TypeOK
<1> QED
  BY <1>2, <1>3, <1>4, <1>5, <1>6

\* shutdown() ends well only for a domain that went off while it polled.
LEMMA OffStep ==
    TypeOK /\ CallInv /\ OffInv /\ ShutdownWasOff /\ [Next]_vars => OffInv' /\ ShutdownWasOff'
<1> SUFFICES ASSUME TypeOK, CallInv, OffInv, ShutdownWasOff, [Next]_vars
             PROVE  OffInv' /\ ShutdownWasOff'
  OBVIOUS
<1> USE DEF localVars, historyVars
<1> DEFINE Off(t) ==
             /\ pc[t] \in {"poll", "pollOff"} /\ "shutoff" \in {dom.state, seen[t]} => wasOff[t]
             /\ pc[t] = "report" /\ request[t].op = "shutdown" => wasOff[t]
             /\ request[t].op = "shutdown" /\ status[t] = 200 => wasOff[t]
<1>1. /\ \A t \in Threads : Off(t)
      /\ (\A t \in Threads : Off(t)') => OffInv' /\ ShutdownWasOff'
  BY DEF OffInv, ShutdownWasOff
<1>2. CASE UNCHANGED vars
  BY <1>1, <1>2 DEF vars
<1>3. CASE GuestShutsDown
  <2>1. dom'.state # "shutoff" /\ UNCHANGED <<pc, seen, wasOff, request, status>>
    BY <1>3 DEF GuestShutsDown, TypeOK, Domain
  <2> QED
    BY <1>1, <2>1
<1>4. CASE GuestOff
  BY <1>1, <1>4 DEF GuestOff, TypeOK
<1>5. ASSUME NEW t \in Threads, NEW req \in Request, Arrive(t, req) PROVE OffInv' /\ ShutdownWasOff'
  <2>1. First(req.op) \notin {"poll", "pollOff", "report"}
    BY FirstIsCall DEF Request
  <2>2. ASSUME NEW u \in Threads PROVE Off(u)'
    <3>1. CASE u = t
      BY <1>5, <2>1, <3>1 DEF Arrive, TypeOK
    <3>2. CASE u # t
      BY <1>1, <1>5, <3>2 DEF Arrive, TypeOK
    <3> QED
      BY <3>1, <3>2
  <2> QED
    BY <1>1, <2>2
<1>6. ASSUME NEW t \in Threads, Malformed(t) PROVE OffInv' /\ ShutdownWasOff'
  <2>1. request'[t].op = "metadata" /\ pc'[t] = Idle
    BY <1>6 DEF Malformed, TypeOK
  <2>2. ASSUME NEW u \in Threads PROVE Off(u)'
    BY <1>1, <1>6, <2>1 DEF Malformed, TypeOK, Idle
  <2> QED
    BY <1>1, <2>2
<1>7. ASSUME NEW t \in Threads, Step(t) PROVE OffInv' /\ ShutdownWasOff'
  <2>1. ASSUME NEW u \in Threads, u # t PROVE Off(u)'
    BY <1>1, <1>7, <2>1, Frame
  <2>2. Off(t) /\ request'[t] = request[t]
    BY <1>1, <1>7 DEF Step, LinkLost, Create, CreateFails, Shutdown, ShutdownFails, PollEnds, PollAgain,
    PollGivesUp, Report, GetMetadata, SetMetadata, GetXML, GetXMLFails, DefineXML,
    DefineXMLFails, SetAutostart
  <2>3. Off(t)'
    <3>1. CASE LinkLost(t)
      <4>1. First(request[t].op) \notin {"poll", "pollOff", "report"}
        BY FirstIsCall DEF TypeOK, Request
      <4>2. status[t] = 0
        BY <3>1 DEF LinkLost, CallInv, Calls, Idle
      <4> QED
        BY <2>2, <3>1, <4>1, <4>2 DEF LinkLost, Continue, Answer, TypeOK, Idle
    <3>2. CASE Create(t)
      BY <2>2, <3>2, OpOfCall DEF Create, Continue, TypeOK
    <3>3. CASE Shutdown(t)
      <4>1. dom'.state # "shutoff"
        BY <3>3, EffectFacts DEF Shutdown, TakesEffect, Can
      <4>2. status[t] = 0
        BY <3>3 DEF Shutdown, CallInv, Idle
      <4> QED
        BY <3>3, <4>1, <4>2 DEF Shutdown, Continue, TypeOK
    <3>4. CASE PollEnds(t) \/ PollAgain(t) \/ PollGivesUp(t)
      <4>1. status[t] = 0 /\ dom' = dom /\ wasOff' = wasOff
        BY <3>4 DEF PollEnds, PollAgain, PollGivesUp, CallInv, Idle
      <4>2. seen'[t] \in {dom.state, seen[t]}
        BY <3>4 DEF PollEnds, PollAgain, PollGivesUp, GetState, TypeOK
      <4> QED
        BY <2>2, <3>4, <4>1, <4>2
        DEF PollEnds, PollAgain, PollGivesUp, Target, Continue, Answer, TypeOK, Idle
    <3>5. CASE Report(t)
      BY <2>2, <3>5 DEF Report, Answer, TypeOK, Idle
    <3>6. CASE CreateFails(t) \/ ShutdownFails(t) \/ GetXMLFails(t) \/ DefineXMLFails(t)
      BY <2>2, <3>6
      DEF CreateFails, ShutdownFails, GetXMLFails, DefineXMLFails, Refused, Answer, TypeOK, Idle
    <3>7. CASE GetXML(t) \/ DefineXML(t) \/ SetAutostart(t) \/ GetMetadata(t) \/ SetMetadata(t)
      <4>1. request[t].op # "shutdown"
        BY <3>7, OpOfCall DEF GetXML, DefineXML, SetAutostart, GetMetadata, SetMetadata
      <4>2. pc'[t] \notin {"poll", "pollOff", "report"}
        BY <3>7 DEF GetXML, DefineXML, SetAutostart, GetMetadata, SetMetadata, FieldDone,
                    Continue, Answer, TypeOK, Idle
      <4> QED
        BY <2>2, <4>1, <4>2
    <3> QED
      BY <1>7, <3>1, <3>2, <3>3, <3>4, <3>5, <3>6, <3>7 DEF Step
  <2> QED
    BY <1>1, <2>1, <2>3
<1> QED
  BY <1>2, <1>3, <1>4, <1>5, <1>6, <1>7 DEF Next

\* The loops of shutdown() poll once per unit of time, until their timeouts.
LEMMA PollStep ==
    TypeOK /\ PollInv /\ PollsBounded /\ [Next]_vars => PollInv' /\ PollsBounded'
<1> SUFFICES ASSUME TypeOK, PollInv, PollsBounded, [Next]_vars
             PROVE  PollInv' /\ PollsBounded'
  OBVIOUS
<1> USE DEF localVars, historyVars
<1> DEFINE Bound(t) ==
             /\ pc[t] = "poll" => /\ elapsed[t] <= ShutdownTimeout + 1
                                  /\ polls[t] <= elapsed[t]
             /\ pc[t] = "pollOff" => /\ elapsed[t] <= ShutoffTimeout + 1
                                     /\ polls[t] <= ShutdownTimeout + 2 + elapsed[t]
             /\ polls[t] <= ShutdownTimeout + ShutoffTimeout + 4
<1>1. /\ \A t \in Threads : Bound(t)
      /\ (\A t \in Threads : Bound(t)') => PollInv' /\ PollsBounded'
  BY DEF PollInv, PollsBounded
<1>2. CASE UNCHANGED vars \/ GuestShutsDown \/ GuestOff
  BY <1>1, <1>2 DEF vars, GuestShutsDown, GuestOff
<1>3. ASSUME NEW t \in Threads, NEW req \in Request, Arrive(t, req)
      PROVE  PollInv' /\ PollsBounded'
  <2>1. First(req.op) \notin {"poll", "pollOff"}
    BY FirstIsCall DEF Request
  <2>2. ASSUME NEW u \in Threads PROVE Bound(u)'
    BY <1>1, <1>3, <2>1 DEF Arrive, TypeOK
  <2> QED
    BY <1>1, <2>2
<1>4. ASSUME NEW t \in Threads, Malformed(t) PROVE PollInv' /\ PollsBounded'
  BY <1>1, <1>4 DEF Malformed
<1>5. ASSUME NEW t \in Threads, Step(t) PROVE PollInv' /\ PollsBounded'
  <2>1. ASSUME NEW u \in Threads, u # t PROVE Bound(u)'
    BY <1>1, <1>5, <2>1, Frame
  <2>2. Bound(t) /\ elapsed[t] \in Nat /\ polls[t] \in Nat
    BY <1>1 DEF TypeOK
  <2>3. Bound(t)'
    <3>1. CASE LinkLost(t)
      <4>1. First(request[t].op) \notin {"poll", "pollOff"}
        BY FirstIsCall DEF TypeOK, Request
      <4>2. pc'[t] \notin {"poll", "pollOff"} /\ polls' = polls
        BY <3>1, <4>1 DEF LinkLost, Continue, Answer, TypeOK, Idle
      <4> QED
        BY <2>2, <4>2
    <3>2. CASE Shutdown(t)
      BY <2>2, <3>2 DEF Shutdown, Continue, TypeOK
    <3>3. CASE PollEnds(t)
      <4>1. /\ elapsed'[t] = 0 /\ polls'[t] = polls[t] + 1
            /\ \/ pc[t] = "poll" /\ pc'[t] = "pollOff"
               \/ pc[t] = "pollOff" /\ pc'[t] = "report"
        BY <3>3 DEF PollEnds, Continue, TypeOK
      <4> QED
        BY <2>2, <4>1
    <3>4. CASE PollAgain(t)
      <4>1. /\ elapsed'[t] = elapsed[t] + 1 /\ polls'[t] = polls[t] + 1 /\ pc' = pc
            /\ pc[t] \in {"poll", "pollOff"} /\ ~TimedOut(t)
        BY <3>4 DEF PollAgain, TypeOK
      <4> QED
        BY <2>2, <4>1 DEF TimedOut
    <3>5. CASE PollGivesUp(t)
      <4>1. polls'[t] = polls[t] + 1 /\ pc'[t] = Idle /\ pc[t] \in {"poll", "pollOff"}
        BY <3>5 DEF PollGivesUp, Answer, TypeOK
      <4> QED
        BY <2>2, <4>1 DEF Idle
    <3>6. CASE \/ Create(t) \/ CreateFails(t) \/ ShutdownFails(t) \/ Report(t)
               \/ GetMetadata(t) \/ SetMetadata(t) \/ GetXML(t) \/ GetXMLFails(t)
               \/ DefineXML(t) \/ DefineXMLFails(t) \/ SetAutostart(t)
      <4>1. pc'[t] \notin {"poll", "pollOff"}
        BY <3>6 DEF Create, CreateFails, ShutdownFails, Report, GetMetadata, SetMetadata,
                    GetXML, GetXMLFails, DefineXML, DefineXMLFails, SetAutostart, FieldDone,
                    Continue, Answer, TypeOK, Idle
      <4>2. polls' = polls
        BY <3>6 DEF Create, CreateFails, ShutdownFails, Report, GetMetadata, SetMetadata,
                    GetXML, GetXMLFails, DefineXML, DefineXMLFails, SetAutostart
      <4> QED
        BY <2>2, <4>1, <4>2
    <3> QED
      BY <1>5, <3>1, <3>2, <3>3, <3>4, <3>5, <3>6 DEF Step
  <2> QED
    BY <1>1, <2>1, <2>3
<1> QED
  BY <1>2, <1>3, <1>4, <1>5 DEF Next

\* A first attempt answers 400 or 304 only before anything has changed.
LEMMA CleanStep ==
    TypeOK /\ CallInv /\ CleanInv /\ RefusedIsClean /\ [Next]_vars
        => CleanInv' /\ RefusedIsClean'
<1> SUFFICES ASSUME TypeOK, CallInv, CleanInv, RefusedIsClean, [Next]_vars
             PROVE  CleanInv' /\ RefusedIsClean'
  OBVIOUS
<1> USE DEF localVars, historyVars
<1> DEFINE Clean(t) ==
             /\ pc[t] # Idle /\ retry_[t] = 0 /\ changed[t] =>
                    /\ pc[t] \notin {"create", "shutdown"}
                    /\ request[t].op = "metadata" => output[t] # {}
             /\ status[t] \in {304, 400} /\ retry_[t] = 0 => ~changed[t]
<1>1. /\ \A t \in Threads : Clean(t)
      /\ (\A t \in Threads : Clean(t)') => CleanInv' /\ RefusedIsClean'
  BY DEF CleanInv, RefusedIsClean
<1>2. CASE UNCHANGED vars \/ GuestShutsDown \/ GuestOff
  BY <1>1, <1>2 DEF vars, GuestShutsDown, GuestOff
<1>3. ASSUME NEW t \in Threads, (\E req \in Request : Arrive(t, req)) \/ Malformed(t)
      PROVE  CleanInv' /\ RefusedIsClean'
  <2>1. ~changed'[t]
    BY <1>3 DEF Arrive, Malformed, TypeOK
  <2>2. ASSUME NEW u \in Threads, u # t PROVE Clean(u)'
    BY <1>1, <1>3, <2>2 DEF Arrive, Malformed, TypeOK
  <2> QED
    BY <1>1, <2>1, <2>2
<1>4. ASSUME NEW t \in Threads, Step(t) PROVE CleanInv' /\ RefusedIsClean'
  <2>1. ASSUME NEW u \in Threads, u # t PROVE Clean(u)'
    BY <1>1, <1>4, <2>1, Frame
  <2>2. Clean(t) /\ request'[t] = request[t]
    BY <1>1, <1>4 DEF Step, LinkLost, Create, CreateFails, Shutdown, ShutdownFails, PollEnds, PollAgain,
    PollGivesUp, Report, GetMetadata, SetMetadata, GetXML, GetXMLFails, DefineXML,
    DefineXMLFails, SetAutostart
  <2>3. pc[t] # Idle /\ status[t] = 0
    BY <1>4 DEF Step, LinkLost, Create, CreateFails, Shutdown, ShutdownFails, PollEnds, PollAgain,
    PollGivesUp, Report, GetMetadata, SetMetadata, GetXML, GetXMLFails, DefineXML,
    DefineXMLFails, SetAutostart, CallInv, Calls, Idle
  <2>4. Clean(t)'
    <3>1. CASE LinkLost(t)
      <4>1. retry_'[t] # 0
        BY <3>1 DEF LinkLost, TypeOK
      <4> QED
        BY <4>1
    <3>2. CASE Create(t) \/ Shutdown(t) \/ GetXML(t)
      <4>1. /\ pc'[t] \notin {"create", "shutdown"} /\ status'[t] = 0
            /\ request[t].op # "metadata"
        BY <2>3, <3>2, OpOfCall DEF Create, Shutdown, GetXML, Continue, TypeOK
      <4> QED
        BY <2>2, <4>1
    <3>3. CASE CreateFails(t) \/ ShutdownFails(t)
      <4>1. pc'[t] = Idle /\ changed' = changed /\ retry_' = retry_
            /\ pc[t] \in {"create", "shutdown"}
        BY <3>3 DEF CreateFails, ShutdownFails, Refused, Answer, TypeOK
      <4> QED
        BY <2>2, <2>3, <4>1
    <3>4. CASE PollEnds(t) \/ PollAgain(t)
      <4>1. /\ pc'[t] \notin {"create", "shutdown"} /\ status'[t] = 0
            /\ request[t].op # "metadata"
        BY <2>3, <3>4, OpOfCall DEF PollEnds, PollAgain, Continue, TypeOK
      <4> QED
        BY <2>2, <4>1
    <3>5. CASE \/ PollGivesUp(t) \/ Report(t) \/ GetXMLFails(t) \/ DefineXML(t)
               \/ DefineXMLFails(t) \/ SetAutostart(t)
      <4>1. pc'[t] = Idle /\ status'[t] \in {200, 201, 500, 504}
        BY <3>5 DEF PollGivesUp, Report, GetXMLFails, DefineXML, DefineXMLFails, SetAutostart,
                    Success, Answer, TypeOK
      <4> QED
        BY <4>1
    <3>6. CASE GetMetadata(t)
      <4>1. request[t].op = "metadata" /\ UNCHANGED <<output, retry_, changed>>
        BY <3>6, OpOfCall DEF GetMetadata
      <4>2. \/ pc'[t] \in {"setTitle", "setDescription", "getDescription"} /\ status'[t] = 0
            \/ pc'[t] = Idle /\ (status'[t] = 304 => output[t] = {}) /\ status'[t] # 400
        BY <2>3, <3>6 DEF GetMetadata, FieldDone, Continue, Answer, TypeOK
      <4> QED
        BY <2>2, <2>3, <4>1, <4>2
    <3>7. CASE SetMetadata(t)
      <4>1. output'[t] # {}
        BY <3>7 DEF SetMetadata, TypeOK
      <4>2. \/ pc'[t] = "getDescription" /\ status'[t] = 0
            \/ pc'[t] = Idle /\ status'[t] = 200
        BY <2>3, <3>7, <4>1 DEF SetMetadata, FieldDone, Continue, Answer, TypeOK
      <4> QED
        BY <4>1, <4>2
    <3> QED
      BY <1>4, <3>1, <3>2, <3>3, <3>4, <3>5, <3>6, <3>7 DEF Step
  <2> QED
    BY <1>1, <2>1, <2>4
<1> QED
  BY <1>2, <1>3, <1>4 DEF Next

\* The inductive invariant holds in every reachable state.
LEMMA Inductive == Spec => []IndInv
<1>1. ASSUME Init PROVE IndInv
  <2>1. TypeOK
    <3>1. [op |-> "start", given |-> {}, unfit |-> {}, text |-> Empty, enable |-> TRUE] \in Request
      BY DEF Request, Op, Field
    <3>2. dom \in Domain
      BY <1>1, BlankIsDefinition DEF Init, Domain, State
    <3> QED
      BY <1>1, <3>1, <3>2, Members, BlankIsDefinition DEF Init, TypeOK
  <2>2. CallInv /\ OffInv /\ PollInv /\ CleanInv
    BY <1>1 DEF Init, CallInv, OffInv, PollInv, CleanInv, Idle
  <2>3. ShutdownWasOff /\ PollsBounded /\ RefusedIsClean
    BY <1>1 DEF Init, ShutdownWasOff, PollsBounded, RefusedIsClean
  <2> QED
    BY <2>1, <2>2, <2>3 DEF IndInv
<1>2. IndInv /\ [Next]_vars => IndInv'
  BY TypeStep, CallStep, OffStep, PollStep, CleanStep DEF IndInv
<1> QED
  BY <1>1, <1>2, PTL DEF Spec

\* Type correctness of the requests and of the domain.
THEOREM TypeCorrect == Spec => []TypeOK
<1>1. IndInv => TypeOK
  BY DEF IndInv
<1> QED
  BY <1>1, Inductive, PTL

\* shutdown answers with success only for a domain that was off, for any timeouts
\* and any other requests.
THEOREM ShutdownIsReal == Spec => []ShutdownWasOff
<1>1. IndInv => ShutdownWasOff
  BY DEF IndInv
<1> QED
  BY <1>1, Inductive, PTL

\* shutdown() polls no longer than its two timeouts allow.
THEOREM ShutdownIsBounded == Spec => []PollsBounded
<1>1. IndInv => PollsBounded
  BY DEF IndInv
<1> QED
  BY <1>1, Inductive, PTL

\* A request answered with 400 or 304 at its first attempt has changed nothing.
THEOREM RefusedRequestsAreClean == Spec => []RefusedIsClean
<1>1. IndInv => RefusedIsClean
  BY DEF IndInv
<1> QED
  BY <1>1, Inductive, PTL
=============================================================================
