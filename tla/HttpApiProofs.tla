----------------------------- MODULE HttpApiProofs -----------------------------
(***************************************************************************)
(* What holds of HttpApi for any number of requests, case numbers, roles,   *)
(* tags and correlation ids.                                                *)
(***************************************************************************)
EXTENDS HttpApi, CaseCallsProofs, EntityTagProofs

-----------------------------------------------------------------------------
\* The inductive invariant.

\* Every request has its place in every variable.
Domains ==
    /\ request \in [Requests -> Request \cup {NoRequest}]
    /\ traceIdentifier = [r \in Requests |-> traceIdentifier[r]]
    /\ response = [r \in Requests |-> response[r]]
    /\ call = [r \in Requests |-> call[r]]
    /\ effect = [r \in Requests |-> effect[r]]
    /\ answer = [r \in Requests |-> answer[r]]
    /\ cases = [n \in Numbers |-> cases[n]]

\* The service hears only of requests that passed every check, as they were sent.
Passed(r) ==
    /\ request[r] # NoRequest
    /\ request[r].kind # "list"
    /\ Precheck(request[r]) = 200
    /\ call[r] = ServiceCall(request[r])

\* How a call can end: no body that passed makes the service refuse an argument.
Ends == {"Ok", "Unknown"} \cup (Refusals \ {"Argument"})

Local(r) ==
    /\ request[r] = NoRequest => call[r] = NoCall /\ response[r] = NoResponse
    /\ request[r] # NoRequest => traceIdentifier[r] = CorrelationId(r, request[r].ids)
    /\ call[r] = NoCall => effect[r] = NoRow /\ answer[r] = Pending
    /\ call[r] # NoCall => Passed(r)
    /\ answer[r] = Pending \/ answer[r].outcome \in Ends
    /\ answer[r].outcome = "KeyNotFound" => effect[r] = NoRow
    /\ call[r] # NoCall /\ Answered(r) =>
           /\ response[r].status \notin {400, 401, 403, 428}
           /\ response[r].status = 404 => answer[r].outcome = "KeyNotFound"

IInv == Domains /\ \A r \in Requests : Local(r)

\* The store shares the rules of a case and the calls.
LEMMA SharedRules ==
    /\ Store!Mutations = Mutations
    /\ Store!Pending = Pending
    /\ \A x : Store!Throw(x) = Throw(x)
    /\ \A c : Store!Ok(c) = Ok(c)
    /\ \A v : Store!CaseConcurrency(v) = CaseConcurrency(v)
    /\ \A s : Store!ValidSeverity(s) = ValidSeverity(s)
    /\ \A s : Store!NewCase(s) = NewCase(s)
    /\ \A c, k : Store!Mutated(c, k) = Mutated(c, k)
  BY DEF Store!Mutations, Mutations,
         Store!Pending, Pending, Store!Throw, Throw, Store!Ok, Ok,
         Store!CaseConcurrency, CaseConcurrency, Store!Reply, Reply,
         Store!ValidSeverity, ValidSeverity, Store!NewCase, NewCase,
         Store!Mutated, Mutated, Store!StateChanged, StateChanged, Store!Applied, Applied

\* How the replies end a call.
LEMMA RepliesTell ==
    /\ \A e \in {"Unknown"} \cup (Refusals \ {"Argument"}) : Throw(e).outcome \in Ends
    /\ \A c : Ok(c).outcome \in Ends
    /\ \A v : CaseConcurrency(v).outcome \in Ends
    /\ \A c, v : Ok(c).outcome # "KeyNotFound" /\ CaseConcurrency(v).outcome # "KeyNotFound"
    /\ \A e : Throw(e).outcome = e
  BY DEF Throw, Ok, CaseConcurrency, Reply, Ends, Refusals

LEMMA InitIInv == Init => IInv
  BY DEF Init, IInv, Domains, Local, Answered

-----------------------------------------------------------------------------
\* What a request that passed has shown.

\* Every request has a kind, and a body of the range that was validated.
LEMMA RequestKinds ==
    ASSUME NEW q \in Request
    PROVE  /\ q.kind \in {"get", "list", "create"} \cup Mutations
           /\ q.ids \in Supplied
           /\ q.severity \in Int
  <1>1. Severities \subseteq Int /\ {0} \subseteq Int
    BY SeveritiesAssumption
  <1>2. QED
    BY <1>1 DEF Request, Shape, Mutations

\* A request that passed is allowed what it asks, its body is in range, and
\* its If-Match names the version that the call expects.
LEMMA PassedTells ==
    ASSUME NEW r \in Requests, IInv, call[r] # NoCall
    PROVE  /\ request[r] # NoRequest /\ request[r] \in Request
           /\ call[r].kind = request[r].kind /\ call[r].number = request[r].number
           /\ call[r].severity = request[r].severity
           /\ call[r].kind \in {"create", "severity"} => ValidSeverity(call[r].severity)
           /\ call[r].kind \in {"create"} \cup Mutations => request[r].role \in Managers
           /\ call[r].kind \in Mutations =>
                 ParseRequired(request[r].ifMatch) = Version(call[r].expected)
  <1> DEFINE q == request[r]
  <1>1. Passed(r) /\ q \in Request
    BY DEF IInv, Local, Domains, Passed
  <1>2. /\ q.role # Anonymous /\ q.role \in PolicyRoles(q.kind) /\ ValidBody(q)
        /\ q.kind \in Mutations => ParseRequired(q.ifMatch).status = 200
    BY <1>1 DEF Passed, Precheck
  <1>3. /\ call[r].kind = q.kind /\ call[r].number = q.number /\ call[r].severity = q.severity
        /\ call[r].expected = IF q.kind \in Mutations THEN ParseRequired(q.ifMatch).version ELSE 0
    BY <1>1 DEF Passed, ServiceCall
  <1>4. q.severity \in Int
    BY <1>1, RequestKinds
  <1>5. q.kind \in {"create", "severity"} => ValidSeverity(q.severity)
    BY <1>2, <1>4 DEF ValidBody, ValidSeverity
  <1>6. q.kind \in {"create"} \cup Mutations => q.role \in Managers
    BY <1>2 DEF PolicyRoles, Mutations
  <1>7. \A raw : ParseRequired(raw).status = 200 =>
                    ParseRequired(raw) = Version(ParseRequired(raw).version)
    <2>1. \A status : Problem(status).status = status
      BY DEF Problem
    <2>2. \A v : Version(v).version = v
      BY DEF Version
    <2>3. QED
      BY <2>1, <2>2 DEF ParseRequired
  <1>8. QED
    BY <1>1, <1>2, <1>3, <1>5, <1>6, <1>7 DEF Passed

-----------------------------------------------------------------------------
\* What the store does to a call.

LEMMA ServeEffect ==
    ASSUME IInv, NEW r \in Requests, Serve(r)
    PROVE  /\ call[r] # NoCall
           /\ UNCHANGED <<call, request, traceIdentifier, response>>
           /\ \/ /\ UNCHANGED answer
                 /\ \E c : effect' = [effect EXCEPT ![r] = c]
                 /\ \E c : cases' = [cases EXCEPT ![call[r].number] = c]
                 /\ \/ /\ call[r].kind = "create" /\ cases[call[r].number] = NoRow
                       /\ cases' = [cases EXCEPT ![call[r].number] = NewCase(call[r].severity)]
                    \/ /\ call[r].kind \in Mutations
                       /\ cases[call[r].number] # NoRow
                       /\ cases[call[r].number].version = call[r].expected
                       /\ cases' = [cases EXCEPT ![call[r].number] =
                                        Mutated(cases[call[r].number], call[r])]
                 /\ answer[r].outcome \in {"Pending", "Unknown"}
              \/ /\ UNCHANGED <<cases, effect>>
                 /\ answer[r] = Pending
                 /\ \E x : /\ answer' = [answer EXCEPT ![r] = x] /\ x.outcome \in Ends
                           /\ x.outcome = "KeyNotFound" => effect[r] = NoRow
  <1>1. call[r] # NoCall /\ UNCHANGED <<call, request, traceIdentifier, response>>
    BY DEF Serve, Store!TakeEffect, Store!Succeed, Store!Read, Store!RefuseConflict,
           Store!RefuseTransition, Store!RefuseArgument, Store!RefuseMissing, Store!LoseTrack,
           Store!Waiting, Store!Replies
  <1>2. CASE Store!TakeEffect(r)
    BY <1>1, <1>2, SharedRules DEF Store!TakeEffect, Store!Create, Store!Change, Store!Store
  <1>3. CASE \/ Store!Succeed(r) \/ Store!Read(r) \/ Store!RefuseConflict(r)
             \/ Store!RefuseTransition(r) \/ Store!RefuseMissing(r) \/ Store!LoseTrack(r)
    <2>1. \E x : /\ Store!Replies(r, x) /\ x.outcome \in Ends
                 /\ x.outcome = "KeyNotFound" => effect[r] = NoRow
      BY <1>3, SharedRules, RepliesTell
         DEF Store!Succeed, Store!Read, Store!RefuseConflict, Store!RefuseTransition,
             Store!RefuseMissing, Store!LoseTrack, Refusals
    <2>2. answer[r] = Pending
      BY <1>3, SharedRules
         DEF Store!Succeed, Store!Read, Store!RefuseConflict, Store!RefuseTransition,
             Store!RefuseMissing, Store!LoseTrack, Store!Waiting
    <2>3. QED
      BY <1>1, <2>1, <2>2 DEF Store!Replies
  <1>4. ~Store!RefuseArgument(r)
    BY <1>1, PassedTells, SharedRules DEF Store!RefuseArgument
  <1>5. QED
    BY <1>1, <1>2, <1>3, <1>4 DEF Serve

\* Arriving is refused for good, or the start of a call.
LEMMA ArriveEffect ==
    ASSUME IInv, NEW r \in Requests, Arrive(r)
    PROVE  /\ request[r] = NoRequest /\ UNCHANGED <<cases, effect, answer>>
           /\ \E q \in Request :
                 /\ request' = [request EXCEPT ![r] = q]
                 /\ traceIdentifier' = [traceIdentifier EXCEPT ![r] = CorrelationId(r, q.ids)]
                 /\ \/ UNCHANGED call /\ \E x : response' = [response EXCEPT ![r] = x]
                    \/ /\ Precheck(q) = 200 /\ q.kind # "list"
                       /\ call' = [call EXCEPT ![r] = ServiceCall(q)]
                       /\ UNCHANGED response
  BY DEF Arrive

\* What the action and the exception handler make of a reply.
LEMMA RespondEffect ==
    ASSUME IInv, NEW r \in Requests, Respond(r)
    PROVE  /\ request[r] # NoRequest
           /\ UNCHANGED <<cases, call, effect, answer, request, traceIdentifier>>
           /\ \E x : /\ response' = [response EXCEPT ![r] = x]
                     /\ x.status \notin {400, 401, 403, 428}
                     /\ x.status = 404 => answer[r].outcome = "KeyNotFound"
  <1>1. /\ request[r] # NoRequest /\ answer[r].outcome \in Ends
        /\ UNCHANGED <<cases, call, effect, answer, request, traceIdentifier>>
    BY DEF Respond, IInv, Local, Passed
  <1>2. \A status, id : ProblemDetails(status, id).status = status
    BY DEF ProblemDetails
  <1>3. \A status \in Statuses(answer[r].outcome) :
            \/ /\ status \notin {400, 401, 403, 428}
               /\ status = 404 => answer[r].outcome = "KeyNotFound"
            \/ answer[r].outcome = "Ok"
    BY <1>1 DEF Statuses, Ends, Refusals
  <1>4. ASSUME answer[r].outcome # "Ok", NEW x \in Failures(answer[r].outcome, traceIdentifier[r])
        PROVE  /\ x.status \notin {400, 401, 403, 428}
               /\ x.status = 404 => answer[r].outcome = "KeyNotFound"
    BY <1>2, <1>3, <1>4 DEF Failures
  <1>5. Updated(r, answer[r].snapshot).status \in {200, 201}
    BY DEF Updated, Success
  <1>6. Gone.status = 0
    BY <1>2 DEF Gone
  <1>7. PICK x \in {Gone} \cup IF answer[r].outcome = "Ok"
                               THEN {Updated(r, answer[r].snapshot)}
                               ELSE Failures(answer[r].outcome, traceIdentifier[r]) :
            response' = [response EXCEPT ![r] = x]
    BY DEF Respond
  <1>8. /\ x.status \notin {400, 401, 403, 428}
        /\ x.status = 404 => answer[r].outcome = "KeyNotFound"
    <2>1. CASE x = Gone
      BY <1>6, <2>1
    <2>2. CASE answer[r].outcome = "Ok" /\ x = Updated(r, answer[r].snapshot)
      BY <1>5, <2>2
    <2>3. CASE answer[r].outcome # "Ok" /\ x \in Failures(answer[r].outcome, traceIdentifier[r])
      BY <1>4, <2>3
    <2>4. QED
      BY <1>7, <2>1, <2>2, <2>3
  <1>9. QED
    BY <1>1, <1>7, <1>8

-----------------------------------------------------------------------------
\* Every step keeps the invariant.

LEMMA ArriveKeeps ==
    ASSUME IInv, NEW r \in Requests, Arrive(r)
    PROVE  IInv'
  <1>1. /\ Domains /\ Local(r) /\ request[r] = NoRequest /\ UNCHANGED <<cases, effect, answer>>
        /\ call[r] = NoCall
    BY ArriveEffect DEF IInv, Local
  <1>2. PICK q \in Request :
            /\ request' = [request EXCEPT ![r] = q]
            /\ traceIdentifier' = [traceIdentifier EXCEPT ![r] = CorrelationId(r, q.ids)]
            /\ \/ UNCHANGED call /\ \E x : response' = [response EXCEPT ![r] = x]
               \/ /\ Precheck(q) = 200 /\ q.kind # "list"
                  /\ call' = [call EXCEPT ![r] = ServiceCall(q)]
                  /\ UNCHANGED response
    BY ArriveEffect
  <1>3. Domains'
    BY <1>1, <1>2 DEF Domains
  <1>4. Local(r)'
    <2>1. request'[r] = q /\ q # NoRequest /\ traceIdentifier'[r] = CorrelationId(r, q.ids)
      BY <1>1, <1>2, NoRequestAssumption DEF Domains
    <2>2. CASE UNCHANGED call
      BY <1>1, <2>1, <2>2 DEF Local
    <2>3. CASE /\ Precheck(q) = 200 /\ q.kind # "list"
               /\ call' = [call EXCEPT ![r] = ServiceCall(q)]
               /\ UNCHANGED response
      <3>1. call'[r] = ServiceCall(q)
        BY <1>1, <2>3 DEF Domains
      <3>2. QED
        BY <1>1, <2>1, <2>3, <3>1 DEF Local, Passed, Answered
    <2>4. QED
      BY <1>2, <2>2, <2>3
  <1>5. ASSUME NEW s \in Requests, s # r PROVE Local(s)'
    <2>1. /\ request'[s] = request[s] /\ call'[s] = call[s] /\ response'[s] = response[s]
          /\ traceIdentifier'[s] = traceIdentifier[s]
      BY <1>1, <1>2, <1>5 DEF Domains
    <2>2. QED
      BY <1>1, <2>1 DEF IInv, Local, Passed, Answered
  <1>6. QED
    BY <1>3, <1>4, <1>5 DEF IInv

LEMMA ServeKeeps ==
    ASSUME IInv, NEW r \in Requests, Serve(r)
    PROVE  IInv'
  <1>1. /\ Domains /\ call[r] # NoCall
        /\ UNCHANGED <<call, request, traceIdentifier, response>>
    BY ServeEffect DEF IInv
  <1>2. \/ /\ UNCHANGED answer
           /\ \E c : effect' = [effect EXCEPT ![r] = c]
           /\ \E c : cases' = [cases EXCEPT ![call[r].number] = c]
           /\ answer[r].outcome \in {"Pending", "Unknown"}
        \/ /\ UNCHANGED <<cases, effect>>
           /\ answer[r] = Pending
           /\ \E x : /\ answer' = [answer EXCEPT ![r] = x] /\ x.outcome \in Ends
                     /\ x.outcome = "KeyNotFound" => effect[r] = NoRow
    BY ServeEffect
  <1>3. Domains'
    BY <1>1, <1>2 DEF Domains
  <1>4. \A s \in Requests :
            /\ s # r => effect'[s] = effect[s] /\ answer'[s] = answer[s]
            /\ answer'[s] = answer[s] \/ answer'[s].outcome \in Ends
            /\ s = r => /\ answer'[s].outcome = "KeyNotFound" => effect'[s] = NoRow
                        /\ answer[s].outcome # "KeyNotFound"
    BY <1>1, <1>2 DEF Domains, Pending, Reply
  <1>5. \A s \in Requests : Local(s)'
    BY <1>1, <1>4 DEF IInv, Local, Passed, Answered
  <1>6. QED
    BY <1>3, <1>5 DEF IInv

LEMMA RespondKeeps ==
    ASSUME IInv, NEW r \in Requests, Respond(r)
    PROVE  IInv'
  <1>1. /\ Domains /\ request[r] # NoRequest
        /\ UNCHANGED <<cases, call, effect, answer, request, traceIdentifier>>
    BY RespondEffect DEF IInv
  <1>2. PICK x : /\ response' = [response EXCEPT ![r] = x]
                 /\ x.status \notin {400, 401, 403, 428}
                 /\ x.status = 404 => answer[r].outcome = "KeyNotFound"
    BY RespondEffect
  <1>3. Domains'
    BY <1>1, <1>2 DEF Domains
  <1>4. /\ response'[r] = x
        /\ \A s \in Requests : s # r => response'[s] = response[s]
    BY <1>1, <1>2 DEF Domains
  <1>5. \A s \in Requests : Local(s)'
    BY <1>1, <1>2, <1>4 DEF IInv, Local, Passed, Answered
  <1>6. QED
    BY <1>3, <1>5 DEF IInv

LEMMA StepIInv == IInv /\ [Next]_vars => IInv'
  <1> SUFFICES ASSUME IInv, [Next]_vars PROVE IInv'
    OBVIOUS
  <1>1. CASE UNCHANGED vars
    BY <1>1 DEF vars, IInv, Domains, Local, Passed, Answered
  <1>2. QED
    BY <1>1, ArriveKeeps, ServeKeeps, RespondKeeps DEF Next

LEMMA Invariance == Spec => []IInv
  BY InitIInv, StepIInv, PTL DEF Spec

-----------------------------------------------------------------------------
\* 400, 401, 403, 404 and 428 mean that the request changed nothing and never
\* will: the pipeline refuses before the service is called, a body that was
\* validated gives the service no argument to refuse, and what was written is
\* not missing.
THEOREM ClientErrorsHaveNoEffect == Spec => []ClientErrorMeansNoEffect
  <1>1. IInv => ClientErrorMeansNoEffect
    BY DEF IInv, Local, ClientErrorMeansNoEffect
  <1>2. QED
    BY <1>1, Invariance, PTL

\* A stored case changes only as a manager asked, into what was asked for, naming
\* the version that is changed (the policies of CasesController and EntityTagVersion.ParseRequired).
THEOREM ChangesAreAskedFor == Spec => OnlyAskedForChanges
  <1>1. IInv /\ [Next]_vars =>
            [\A number \in Numbers :
                cases'[number] # cases[number] => \E r \in Requests : AskedFor(r, number)]_vars
    <2> SUFFICES ASSUME IInv, Next, NEW number \in Numbers, cases'[number] # cases[number]
                 PROVE  \E r \in Requests : AskedFor(r, number)
      OBVIOUS
    <2>1. PICK r \in Requests : Arrive(r) \/ Serve(r) \/ Respond(r)
      BY DEF Next
    <2>2. Serve(r)
      BY <2>1, ArriveEffect, RespondEffect
    <2>3. /\ call[r] # NoCall
          /\ \E c : cases' = [cases EXCEPT ![call[r].number] = c]
          /\ \/ /\ call[r].kind = "create" /\ cases[call[r].number] = NoRow
                /\ cases' = [cases EXCEPT ![call[r].number] = NewCase(call[r].severity)]
             \/ /\ call[r].kind \in Mutations
                /\ cases[call[r].number] # NoRow
                /\ cases[call[r].number].version = call[r].expected
                /\ cases' = [cases EXCEPT ![call[r].number] =
                                 Mutated(cases[call[r].number], call[r])]
      BY <2>2, ServeEffect
    <2>4. call[r].number = number
      BY <2>3 DEF IInv, Domains
    <2>5. \A c : Mutated(c, call[r]) = Mutated(c, request[r])
      <3>1. call[r].kind = request[r].kind /\ call[r].severity = request[r].severity
        BY <2>3, PassedTells
      <3>2. ASSUME NEW c
            PROVE  /\ StateChanged(c, call[r]) <=> StateChanged(c, request[r])
                   /\ Applied(c, call[r]) = Applied(c, request[r])
        BY <3>1, Zenon DEF StateChanged, Applied
      <3>3. QED
        BY <3>2, Zenon DEF Mutated
    <2>6. \/ /\ call[r].kind = "create" /\ cases[number] = NoRow
             /\ cases'[number] = NewCase(request[r].severity)
          \/ /\ call[r].kind \in Mutations
             /\ cases[number] # NoRow
             /\ cases[number].version = call[r].expected
             /\ cases'[number] = Mutated(cases[number], request[r])
      BY <2>3, <2>4, <2>5, PassedTells DEF IInv, Domains
    <2>7. AskedFor(r, number)
      BY <2>3, <2>4, <2>6, PassedTells DEF AskedFor, Managers
    <2>8. QED
      BY <2>7
  <1>2. QED
    BY <1>1, Invariance, PTL DEF Spec, OnlyAskedForChanges

\* Two requests share a correlation id only when both clients supplied it
\* (CorrelationIdMiddleware).
THEOREM CorrelationIdsAreTheirOwn == Spec => []CorrelationIdsTellRequestsApart
  <1>1. ASSUME NEW r \in Requests, NEW ids \in Supplied
        PROVE  \/ CorrelationId(r, ids) = r
               \/ ids = <<CorrelationId(r, ids)>> /\ CorrelationId(r, ids) \in Range(ids)
    <2>1. ids \in Seq(Range(ids))
      BY SuppliedAssumption
    <2>2. CASE Len(ids) = 1 /\ ids[1] \notin InvalidIds
      <3>1. ids = <<ids[1]>> /\ CorrelationId(r, ids) = ids[1]
        BY <2>1, <2>2 DEF CorrelationId
      <3>2. ids[1] \in Range(ids)
        BY <2>1, <2>2
      <3>3. QED
        BY <3>1, <3>2
    <2>3. CASE ~(Len(ids) = 1 /\ ids[1] \notin InvalidIds)
      BY <2>3 DEF CorrelationId
    <2>4. QED
      BY <2>2, <2>3
  <1>2. IInv => CorrelationIdsTellRequestsApart
    <2> SUFFICES ASSUME IInv, NEW r \in Requests, NEW s \in Requests, r # s,
                        request[r] # NoRequest, request[s] # NoRequest,
                        traceIdentifier[r] = traceIdentifier[s]
                 PROVE  /\ request[r].ids = <<traceIdentifier[r]>>
                        /\ request[s].ids = <<traceIdentifier[r]>>
      BY DEF CorrelationIdsTellRequestsApart
    <2>1. ASSUME NEW q \in Requests, request[q] # NoRequest
          PROVE  \/ traceIdentifier[q] = q
                 \/ /\ request[q].ids = <<traceIdentifier[q]>>
                    /\ traceIdentifier[q] \notin Requests
      <3>1. request[q] \in Request /\ traceIdentifier[q] = CorrelationId(q, request[q].ids)
        BY <2>1 DEF IInv, Domains, Local
      <3>2. QED
        BY <1>1, <3>1, RequestKinds, SuppliedAssumption
    <2>2. QED
      BY <2>1
  <1>3. QED
    BY <1>2, Invariance, PTL

-----------------------------------------------------------------------------
(***************************************************************************)
(* What the snapshots tell.  The replies and the responses carry what the   *)
(* store had when it wrote or was read; the invariant relates all of them   *)
(* to the case that is stored now.                                          *)
(***************************************************************************)

\* The snapshots that a call has left or has got.
Snapshots(r) == {effect[r], answer[r].snapshot} \ {NoRow}

\* A snapshot of the stored case is the case, or has an earlier version.
Current(r) ==
    \A c \in Snapshots(r) :
        LET stored == cases[call[r].number]
        IN  /\ call[r] # NoCall /\ stored # NoRow
            /\ c.version <= stored.version
            /\ c.version = stored.version => c = stored

\* A snapshot is with a reply exactly when the call succeeded.
Carried(r) == answer[r].outcome = "Ok" <=> answer[r].snapshot # NoRow

\* A response with a tag is the reply's snapshot and its version's tag.
Tagged(r) ==
    Answered(r) /\ response[r].etag # NoHeader =>
        /\ answer[r].snapshot # NoRow
        /\ response[r].body = answer[r].snapshot
        /\ response[r].etag = Format(response[r].body.version)

\* Two snapshots of one case with the same version are the same.
Agreement ==
    \A r, s \in Requests : \A c \in Snapshots(r), d \in Snapshots(s) :
        /\ call[r] # NoCall /\ call[s] # NoCall
        /\ call[r].number = call[s].number /\ c.version = d.version
        => c = d

SInv ==
    /\ IInv
    /\ TypeOK
    /\ \A r \in Requests : Current(r) /\ Carried(r) /\ Tagged(r)
    /\ Agreement

\* A request that passed makes a call of the service.
LEMMA PassedIsCall ==
    ASSUME NEW q \in Request, q.kind # "list", Precheck(q) = 200
    PROVE  ServiceCall(q) \in Call
  <1>1. /\ ServiceCall(q).kind = q.kind /\ ServiceCall(q).number = q.number
        /\ ServiceCall(q).severity = q.severity
        /\ ServiceCall(q).expected =
               IF q.kind \in Mutations THEN ParseRequired(q.ifMatch).version ELSE 0
    BY DEF ServiceCall
  <1>2. ASSUME q.kind \in Mutations, q.ifMatch \in IfMatches
        PROVE  ParseRequired(q.ifMatch).version \in Versions
    <2>1. ParseRequired(q.ifMatch).status = 200
      BY <1>2 DEF Precheck
    <2>2. QED
      BY <1>2, <2>1, IfMatchesAssumption
  <1>3. CASE q \in Shape({"get", "list"}, {0}, {NoHeader})
    <2>1. q.kind = "get" /\ q.number \in Numbers /\ q.severity = 0 /\ q.kind \notin Mutations
      BY <1>3 DEF Shape, Mutations
    <2>2. ServiceCall(q) \in GetCall
      BY <1>1, <2>1 DEF GetCall, ServiceCall
    <2>3. QED
      BY <2>2 DEF Call
  <1>4. CASE q \in Shape({"create"}, Severities, {NoHeader})
    <2>1. /\ q.kind = "create" /\ q.number \in Numbers /\ q.severity \in Severities
          /\ q.kind \notin Mutations
      BY <1>4 DEF Shape, Mutations
    <2>2. ServiceCall(q) \in CreateCall
      BY <1>1, <2>1 DEF CreateCall, ServiceCall
    <2>3. QED
      BY <2>2 DEF Call
  <1>5. CASE q \in Shape({"close", "reopen", "escalate"}, {0}, IfMatches)
    <2>1. /\ q.kind \in {"close", "reopen", "escalate"} /\ q.number \in Numbers /\ q.severity = 0
          /\ q.kind \in Mutations /\ q.ifMatch \in IfMatches
      BY <1>5 DEF Shape, Mutations
    <2>2. ServiceCall(q) \in StateCall
      BY <1>1, <1>2, <2>1 DEF StateCall, ServiceCall
    <2>3. QED
      BY <2>2 DEF Call
  <1>6. CASE q \in Shape({"severity"}, Severities, IfMatches)
    <2>1. /\ q.kind = "severity" /\ q.number \in Numbers /\ q.severity \in Severities
          /\ q.kind \in Mutations /\ q.ifMatch \in IfMatches
      BY <1>6 DEF Shape, Mutations
    <2>2. ServiceCall(q) \in SeverityCall
      BY <1>1, <1>2, <2>1 DEF SeverityCall, ServiceCall
    <2>3. QED
      BY <2>2 DEF Call
  <1>7. QED
    BY <1>3, <1>4, <1>5, <1>6 DEF Request

\* What a client may get, whatever its request.
LEMMA ResponseFields ==
    /\ \A status \in {0, 400, 401, 403, 404, 409, 412, 428, 500}, id \in Ids :
           ProblemDetails(status, id) \in Response /\ ProblemDetails(status, id).etag = NoHeader
    /\ \A status \in {200, 201}, body \in Case \cup {NoRow}, etag \in {NoHeader} \cup Tags, id \in Ids :
           Success(status, body, etag, id) \in Response
    /\ \A status, body, etag, id :
           Success(status, body, etag, id).body = body /\ Success(status, body, etag, id).etag = etag
    /\ Gone \in Response /\ Gone.etag = NoHeader
  <1>1. NoHeader \in Ids
    BY DEF Ids
  <1>2. /\ \A status \in {0, 400, 401, 403, 404, 409, 412, 428, 500}, id \in Ids :
               ProblemDetails(status, id) \in Response /\ ProblemDetails(status, id).etag = NoHeader
    BY DEF ProblemDetails, Response
  <1>3. \A status \in {200, 201}, body \in Case \cup {NoRow}, etag \in {NoHeader} \cup Tags, id \in Ids :
            Success(status, body, etag, id) \in Response
    BY DEF Success, Response
  <1>4. \A status, body, etag, id :
           Success(status, body, etag, id).body = body /\ Success(status, body, etag, id).etag = etag
    BY DEF Success
  <1>5. QED
    BY <1>1, <1>2, <1>3, <1>4 DEF Gone

LEMMA CorrelationIdIsId ==
    ASSUME NEW r \in Requests, NEW ids \in Supplied
    PROVE  CorrelationId(r, ids) \in Ids
  <1>1. CASE Len(ids) = 1 /\ ids[1] \notin InvalidIds
    <2>1. ids \in Seq(Range(ids)) /\ CorrelationId(r, ids) = ids[1]
      BY <1>1, SuppliedAssumption DEF CorrelationId
    <2>2. CorrelationId(r, ids) \in Range(ids)
      BY <1>1, <2>1
    <2>3. QED
      BY <2>2 DEF Ids
  <1>2. CASE ~(Len(ids) = 1 /\ ids[1] \notin InvalidIds)
    BY <1>2 DEF CorrelationId, Ids
  <1>3. QED
    BY <1>1, <1>2

-----------------------------------------------------------------------------
\* What each step does, in the terms of the snapshots.

\* The request is refused, listed without a tag, or becomes a call of the service.
Arrives(r, q) ==
    /\ request[r] = NoRequest /\ q \in Request
    /\ request' = [request EXCEPT ![r] = q]
    /\ traceIdentifier' = [traceIdentifier EXCEPT ![r] = CorrelationId(r, q.ids)]
    /\ \/ /\ UNCHANGED call
          /\ \E x \in Response : x.etag = NoHeader /\ response' = [response EXCEPT ![r] = x]
       \/ /\ call' = [call EXCEPT ![r] = ServiceCall(q)]
          /\ ServiceCall(q) \in Call
          /\ UNCHANGED response
    /\ UNCHANGED <<cases, effect, answer>>

\* The call stores c: a new case, the next version of the stored one, or that one again.
Stores(r, c) ==
    /\ call[r] # NoCall /\ call[r].number \in Numbers /\ c \in Case
    /\ effect[r] = NoRow /\ answer[r].outcome # "Ok"
    /\ cases' = [cases EXCEPT ![call[r].number] = c]
    /\ effect' = [effect EXCEPT ![r] = c]
    /\ LET stored == cases[call[r].number]
       IN  stored = NoRow \/ c = stored \/ c.version = stored.version + 1
    /\ UNCHANGED <<call, answer, request, traceIdentifier, response>>

AnswerType == [outcome : Outcomes, snapshot : Case \cup {NoRow}, actual : Nat]

\* The call ends with the reply x, which carries its own write or the stored case.
Ended(r, x) ==
    /\ call[r] # NoCall /\ answer[r] = Pending
    /\ x \in AnswerType
    /\ x.snapshot \in {NoRow, effect[r], cases[call[r].number]}
    /\ x.outcome = "Ok" <=> x.snapshot # NoRow
    /\ answer' = [answer EXCEPT ![r] = x]
    /\ UNCHANGED <<cases, call, effect, request, traceIdentifier, response>>

\* The client gets x.
Responds(r, x) ==
    /\ x \in Response
    /\ x.etag # NoHeader =>
          /\ answer[r].snapshot # NoRow
          /\ x.body = answer[r].snapshot
          /\ x.etag = Format(x.body.version)
    /\ response' = [response EXCEPT ![r] = x]
    /\ UNCHANGED <<cases, call, effect, answer, request, traceIdentifier>>

LEMMA ArriveTells ==
    ASSUME SInv, NEW r \in Requests, Arrive(r)
    PROVE  \E q : Arrives(r, q)
  <1>1. PICK q \in Request :
            LET status == Precheck(q)
                id == CorrelationId(r, q.ids)
            IN  /\ request' = [request EXCEPT ![r] = q]
                /\ traceIdentifier' = [traceIdentifier EXCEPT ![r] = id]
                /\ \/ /\ status # 200
                      /\ response' = [response EXCEPT ![r] = ProblemDetails(status, id)]
                      /\ UNCHANGED call
                   \/ /\ \E x \in {Success(200, NoRow, NoHeader, id), Gone} \cup Failures("Unknown", id) :
                            response' = [response EXCEPT ![r] = x]
                      /\ UNCHANGED call
                   \/ /\ status = 200 /\ q.kind # "list"
                      /\ call' = [call EXCEPT ![r] = ServiceCall(q)]
                      /\ UNCHANGED response
    BY DEF Arrive
  <1> DEFINE id == CorrelationId(r, q.ids)
             Listed == {Success(200, NoRow, NoHeader, id), Gone} \cup Failures("Unknown", id)
  <1>2. /\ request[r] = NoRequest /\ UNCHANGED <<cases, effect, answer>>
        /\ request' = [request EXCEPT ![r] = q]
        /\ traceIdentifier' = [traceIdentifier EXCEPT ![r] = CorrelationId(r, q.ids)]
    BY <1>1 DEF Arrive
  <1>3. id \in Ids
    BY RequestKinds, CorrelationIdIsId
  <1>4. \/ /\ Precheck(q) # 200
           /\ response' = [response EXCEPT ![r] = ProblemDetails(Precheck(q), id)]
           /\ UNCHANGED call
        \/ (\E x \in Listed : response' = [response EXCEPT ![r] = x]) /\ UNCHANGED call
        \/ /\ Precheck(q) = 200 /\ q.kind # "list"
           /\ call' = [call EXCEPT ![r] = ServiceCall(q)]
           /\ UNCHANGED response
    BY <1>1
  <1>5. ASSUME Precheck(q) # 200
        PROVE  ProblemDetails(Precheck(q), id) \in Response /\ ProblemDetails(Precheck(q), id).etag = NoHeader
    <2>1. \A raw : ParseRequired(raw).status \in {200, 400, 428}
      BY Replies DEF ParseRequired
    <2>2. Precheck(q) \in {400, 401, 403, 428}
      BY <1>5, <2>1 DEF Precheck
    <2> HIDE DEF id
    <2>3. QED
      BY <1>3, <2>2, ResponseFields
  <1>6. \A x \in Listed : x \in Response /\ x.etag = NoHeader
    <2> HIDE DEF id
    <2>1. Success(200, NoRow, NoHeader, id) \in Response /\ Success(200, NoRow, NoHeader, id).etag = NoHeader
      BY <1>3, ResponseFields
    <2>2. Statuses("Unknown") = {409, 500}
      BY DEF Statuses
    <2>3. \A x \in Failures("Unknown", id) : x \in Response /\ x.etag = NoHeader
      BY <1>3, <2>2, ResponseFields DEF Failures
    <2>4. QED
      BY <2>1, <2>3, ResponseFields
  <1> HIDE DEF id, Listed
  <1>7. \/ UNCHANGED call /\ \E x \in Response : x.etag = NoHeader /\ response' = [response EXCEPT ![r] = x]
        \/ /\ Precheck(q) = 200 /\ q.kind # "list"
           /\ call' = [call EXCEPT ![r] = ServiceCall(q)]
           /\ UNCHANGED response
    BY <1>4, <1>5, <1>6
  <1>8. Arrives(r, q)
    BY <1>2, <1>7, PassedIsCall DEF Arrives
  <1>9. QED
    BY <1>8

\* The store shares the rules of a case.
LEMMA SharedCases ==
    /\ \A s : Store!NewCase(s) = NewCase(s)
    /\ \A c, k : Store!ForbiddenTransition(c, k) = ForbiddenTransition(c, k)
    /\ \A c, k : Store!Refused(c, k) = Refused(c, k)
    /\ \A c, k : Store!Mutated(c, k) = Mutated(c, k)
  BY DEF Store!NewCase, NewCase, Store!ValidSeverity, ValidSeverity,
         Store!ForbiddenTransition, ForbiddenTransition, Store!Refused, Refused,
         Store!InvalidArgument, InvalidArgument, Store!Mutated, Mutated,
         Store!Applied, Applied, Store!StateChanged, StateChanged

\* The fields of the replies.
LEMMA ReplyFields ==
    /\ \A e \in {"Pending", "Unknown"} \cup Refusals :
           Throw(e) \in AnswerType /\ Throw(e).snapshot = NoRow /\ Throw(e).outcome = e
    /\ \A c \in Case : Ok(c) \in AnswerType /\ Ok(c).snapshot = c /\ Ok(c).outcome = "Ok"
    /\ \A v \in Nat : /\ CaseConcurrency(v) \in AnswerType
                      /\ CaseConcurrency(v).snapshot = NoRow
                      /\ CaseConcurrency(v).outcome = "CaseConcurrency"
    /\ Pending \in AnswerType /\ Pending.snapshot = NoRow /\ Pending.outcome = "Pending"
  BY DEF Throw, Ok, CaseConcurrency, Pending, Reply, AnswerType, Outcomes, Refusals

LEMMA ServeTells ==
    ASSUME SInv, NEW r \in Requests, Serve(r)
    PROVE  (\E c : Stores(r, c)) \/ (\E x : Ended(r, x))
  <1> DEFINE stored == cases[call[r].number]
  <1>1. /\ call[r] # NoCall /\ UNCHANGED <<call, request, traceIdentifier, response>>
        /\ call[r] \in Call
    BY ServeEffect DEF SInv, TypeOK
  <1>2. /\ call[r].number \in Numbers /\ call[r].severity \in Int
        /\ stored \in Case \cup {NoRow} /\ effect[r] \in Case \cup {NoRow}
    BY <1>1, CallFields DEF SInv, TypeOK
  <1>3. CASE Store!TakeEffect(r)
    <2>1. /\ answer[r].outcome # "Ok" /\ effect[r] = NoRow /\ UNCHANGED answer
          /\ Store!Create(r) \/ Store!Change(r)
      BY <1>3 DEF Store!TakeEffect
    <2>2. CASE Store!Create(r)
      <3> DEFINE c == NewCase(call[r].severity)
      <3>1. /\ ValidSeverity(call[r].severity) /\ stored = NoRow
            /\ cases' = [cases EXCEPT ![call[r].number] = c]
            /\ effect' = [effect EXCEPT ![r] = c]
        BY <2>2, SharedRules, SharedCases DEF Store!Create, Store!Store
      <3>2. c \in Case
        BY <1>2, <3>1, NewCaseIsCase
      <3>3. Stores(r, c)
        BY <1>1, <1>2, <2>1, <3>1, <3>2 DEF Stores
      <3>4. QED
        BY <3>3
    <2>3. CASE Store!Change(r)
      <3> DEFINE c == Mutated(stored, call[r])
      <3>1. /\ call[r].kind \in Mutations /\ stored # NoRow /\ ~Refused(stored, call[r])
            /\ cases' = [cases EXCEPT ![call[r].number] = c]
            /\ effect' = [effect EXCEPT ![r] = c]
        BY <2>3, SharedRules, SharedCases DEF Store!Change, Store!Store
      <3>2. c \in Case /\ (c = stored \/ c.version = stored.version + 1)
        BY <1>1, <1>2, <3>1, MutatedCase
      <3> HIDE DEF c
      <3>3. Stores(r, c)
        BY <1>1, <1>2, <2>1, <3>1, <3>2 DEF Stores
      <3>4. QED
        BY <3>3
    <2>4. QED
      BY <2>1, <2>2, <2>3
  <1>4. ASSUME NEW x, Store!Waiting(r), Store!Replies(r, x), x \in AnswerType,
               x.snapshot \in {NoRow, effect[r], stored}, x.outcome = "Ok" <=> x.snapshot # NoRow
        PROVE  Ended(r, x)
    BY <1>1, <1>4, SharedRules DEF Store!Waiting, Store!Replies, Ended
  <1>5. ASSUME NEW c \in Case, Store!Waiting(r), Store!Replies(r, Ok(c)), c \in {effect[r], stored}
        PROVE  \E x : Ended(r, x)
    <2>1. Ok(c) \in AnswerType /\ Ok(c).snapshot = c /\ Ok(c).outcome = "Ok" /\ c # NoRow
      BY ReplyFields, NoRowAssumption
    <2>2. Ended(r, Ok(c))
      BY <1>4, <1>5, <2>1
    <2>3. QED
      BY <2>2
  <1>6. CASE Store!Succeed(r)
    BY <1>2, <1>5, <1>6, SharedRules DEF Store!Succeed
  <1>7. CASE Store!Read(r)
    BY <1>2, <1>5, <1>7, SharedRules DEF Store!Read
  <1>8. CASE Store!RefuseConflict(r)
    <2>1. PICK v \in 1..stored.version : Store!Replies(r, CaseConcurrency(v))
      BY <1>8, SharedRules DEF Store!RefuseConflict
    <2>2. stored \in Case /\ Store!Waiting(r)
      BY <1>2, <1>8 DEF Store!RefuseConflict
    <2>3. v \in Nat
      BY <2>2 DEF Case
    <2>4. Ended(r, CaseConcurrency(v))
      BY <1>4, <2>1, <2>2, <2>3, ReplyFields
    <2>5. QED
      BY <2>4
  <1>9. CASE Store!RefuseTransition(r) \/ Store!RefuseArgument(r) \/ Store!RefuseMissing(r) \/ Store!LoseTrack(r)
    <2>1. /\ Store!Waiting(r)
          /\ \E e \in {"InvalidOperation", "Argument", "KeyNotFound", "Unknown"} : Store!Replies(r, Throw(e))
      BY <1>9, SharedRules
         DEF Store!RefuseTransition, Store!RefuseArgument, Store!RefuseMissing, Store!LoseTrack
    <2>2. PICK e \in {"Unknown"} \cup Refusals : Store!Replies(r, Throw(e))
      BY <2>1 DEF Refusals
    <2>3. e # "Ok"
      BY DEF Refusals
    <2>4. Ended(r, Throw(e))
      BY <1>4, <2>1, <2>2, <2>3, ReplyFields
    <2>5. QED
      BY <2>4
  <1>10. QED
    BY <1>3, <1>6, <1>7, <1>8, <1>9 DEF Serve

LEMMA RespondTells ==
    ASSUME SInv, NEW r \in Requests, Respond(r)
    PROVE  \E x : Responds(r, x)
  <1>1. /\ answer[r].outcome \in Ends /\ Carried(r) /\ traceIdentifier[r] \in Ids
        /\ answer[r].snapshot \in Case \cup {NoRow}
        /\ UNCHANGED <<cases, call, effect, answer, request, traceIdentifier>>
    BY DEF Respond, SInv, IInv, Local, TypeOK
  <1>2. PICK x \in {Gone} \cup IF answer[r].outcome = "Ok"
                               THEN {Updated(r, answer[r].snapshot)}
                               ELSE Failures(answer[r].outcome, traceIdentifier[r]) :
            response' = [response EXCEPT ![r] = x]
    BY DEF Respond
  <1>3. CASE x = Gone
    BY <1>1, <1>2, <1>3, ResponseFields DEF Responds
  <1>4. CASE answer[r].outcome = "Ok" /\ x = Updated(r, answer[r].snapshot)
    <2> DEFINE c == answer[r].snapshot
    <2>1. c \in Case /\ c # NoRow
      BY <1>1, <1>4 DEF Carried
    <2>2. c.version \in Nat
      BY <2>1 DEF Case
    <2>3. Format(c.version) \in Tags
      BY <2>2, FormatTells DEF Tags, Digit
    <2> DEFINE status == IF call[r].kind = "create" THEN 201 ELSE 200
    <2>4. x = Success(status, c, Format(c.version), traceIdentifier[r]) /\ status \in {200, 201}
      BY <1>4 DEF Updated
    <2> HIDE DEF c, status
    <2>5. x \in Response /\ x.body = c /\ x.etag = Format(c.version)
      BY <1>1, <2>1, <2>3, <2>4, ResponseFields
    <2>6. QED
      BY <1>1, <1>2, <2>1, <2>5 DEF Responds, c
  <1>5. CASE answer[r].outcome # "Ok" /\ x \in Failures(answer[r].outcome, traceIdentifier[r])
    <2>1. Statuses(answer[r].outcome) \subseteq {400, 404, 409, 412, 500}
      BY <1>1, <1>5 DEF Statuses, Ends, Refusals
    <2>2. x \in Response /\ x.etag = NoHeader
      BY <1>1, <1>5, <2>1, ResponseFields DEF Failures
    <2>3. QED
      BY <1>1, <1>2, <2>2 DEF Responds
  <1>6. QED
    BY <1>2, <1>3, <1>4, <1>5

-----------------------------------------------------------------------------
\* Every step keeps the types.

LEMMA InitSInv == Init => SInv
  <1> SUFFICES ASSUME Init PROVE SInv
    OBVIOUS
  <1>1. Pending \in AnswerType /\ Pending.snapshot = NoRow /\ Pending.outcome = "Pending"
    BY ReplyFields
  <1>2. TypeOK
    BY <1>1, InitialRowsAssumption DEF Init, TypeOK, AnswerType, Ids
  <1>3. \A r \in Requests : Snapshots(r) = {} /\ Carried(r) /\ ~Answered(r)
    BY <1>1 DEF Init, Snapshots, Carried, Answered
  <1>4. QED
    BY <1>2, <1>3, InitIInv DEF SInv, Current, Tagged, Agreement

LEMMA StepTypes ==
    ASSUME SInv, NEW r \in Requests, Arrive(r) \/ Serve(r) \/ Respond(r)
    PROVE  TypeOK'
  <1>1. TypeOK
    BY DEF SInv
  <1>2. ASSUME NEW q, Arrives(r, q) PROVE TypeOK'
    <2>1. CorrelationId(r, q.ids) \in Ids
      BY <1>2, RequestKinds, CorrelationIdIsId DEF Arrives
    <2>2. /\ request' \in [Requests -> Request \cup {NoRequest}]
          /\ traceIdentifier' \in [Requests -> Ids]
          /\ response' \in [Requests -> Response \cup {NoResponse}]
          /\ call' \in [Requests -> Call \cup {NoCall}]
      BY <1>1, <1>2, <2>1 DEF Arrives, TypeOK
    <2>3. QED
      BY <1>1, <1>2, <2>2 DEF Arrives, TypeOK
  <1>3. ASSUME NEW c, Stores(r, c) PROVE TypeOK'
    <2>1. /\ cases' \in [Numbers -> Case \cup {NoRow}]
          /\ effect' \in [Requests -> Case \cup {NoRow}]
      BY <1>1, <1>3 DEF Stores, TypeOK
    <2>2. QED
      BY <1>1, <1>3, <2>1 DEF Stores, TypeOK
  <1>4. ASSUME NEW x, Ended(r, x) PROVE TypeOK'
    <2>1. answer' \in [Requests -> AnswerType]
      BY <1>1, <1>4 DEF Ended, TypeOK, AnswerType
    <2>2. QED
      BY <1>1, <1>4, <2>1 DEF Ended, TypeOK, AnswerType
  <1>5. ASSUME NEW x, Responds(r, x) PROVE TypeOK'
    <2>1. response' \in [Requests -> Response \cup {NoResponse}]
      BY <1>1, <1>5 DEF Responds, TypeOK
    <2>2. QED
      BY <1>1, <1>5, <2>1 DEF Responds, TypeOK
  <1>6. QED
    BY <1>2, <1>3, <1>4, <1>5, ArriveTells, ServeTells, RespondTells

-----------------------------------------------------------------------------
\* Every step keeps what the snapshots tell.

SnapshotsTell == Agreement /\ \A r \in Requests : Current(r) /\ Carried(r) /\ Tagged(r)

\* A request that has not come yet has no snapshot.
LEMMA ArriveSnapshots ==
    ASSUME SInv, NEW r \in Requests, NEW q, Arrives(r, q)
    PROVE  SnapshotsTell'
  <1>1. /\ call[r] = NoCall /\ effect[r] = NoRow /\ answer[r] = Pending
        /\ call = [s \in Requests |-> call[s]] /\ response = [s \in Requests |-> response[s]]
    BY DEF Arrives, SInv, IInv, Local, Domains
  <1>2. UNCHANGED <<cases, effect, answer>>
    BY DEF Arrives
  <1>3. \A s \in Requests : Snapshots(s)' = Snapshots(s) /\ Carried(s)' = Carried(s)
    BY <1>2 DEF Snapshots, Carried
  <1>4. Snapshots(r) = {}
    BY <1>1, ReplyFields DEF Snapshots
  <1>5. \A s \in Requests : s # r => call'[s] = call[s] /\ response'[s] = response[s]
    BY <1>1 DEF Arrives
  <1>6. Tagged(r)'
    <2>1. CASE UNCHANGED response
      BY <1>2, <2>1 DEF SInv, Tagged, Answered
    <2>2. CASE \E x \in Response : x.etag = NoHeader /\ response' = [response EXCEPT ![r] = x]
      <3>1. response'[r].etag = NoHeader
        BY <1>1, <2>2
      <3>2. QED
        BY <3>1 DEF Tagged
    <2>3. QED
      BY <2>1, <2>2 DEF Arrives
  <1>7. \A s \in Requests : Current(s)' /\ Carried(s)' /\ Tagged(s)'
    BY <1>2, <1>3, <1>4, <1>5, <1>6 DEF SInv, Current, Tagged, Answered
  <1>8. Agreement'
    BY <1>3, <1>4, <1>5 DEF SInv, Agreement
  <1>9. QED
    BY <1>7, <1>8 DEF SnapshotsTell

\* The stored case is never below what was stored, and is new when it is above.
LEMMA StoreSnapshots ==
    ASSUME SInv, NEW r \in Requests, NEW c, Stores(r, c)
    PROVE  SnapshotsTell'
  <1> DEFINE number == call[r].number
             stored == cases[number]
  <1>1. /\ number \in Numbers /\ c \in Case /\ c # NoRow /\ call[r] # NoCall
        /\ UNCHANGED <<call, answer, response>>
        /\ stored = NoRow \/ c = stored \/ c.version = stored.version + 1
        /\ effect[r] = NoRow
    BY NoRowAssumption DEF Stores
  <1>2. /\ cases'[number] = c /\ effect'[r] = c
        /\ \A n \in Numbers : n # number => cases'[n] = cases[n]
        /\ \A s \in Requests : s # r => effect'[s] = effect[s]
    BY DEF Stores, SInv, TypeOK
  <1>3. answer[r].snapshot = NoRow
    BY DEF Stores, SInv, Carried
  <1>4. Snapshots(r)' = {c} /\ \A s \in Requests : s # r => Snapshots(s)' = Snapshots(s)
    BY <1>1, <1>2, <1>3 DEF Snapshots
  <1>5. ASSUME NEW s \in Requests, NEW d \in Snapshots(s), call[s].number = number
        PROVE  /\ call[s] # NoCall /\ d \in Case /\ stored \in Case /\ stored # NoRow
               /\ d.version \in Nat /\ stored.version \in Nat
               /\ d.version <= stored.version /\ (d.version = stored.version => d = stored)
    <2>1. /\ call[s] # NoCall /\ stored # NoRow
          /\ d.version <= stored.version /\ (d.version = stored.version => d = stored)
      BY <1>5 DEF SInv, Current
    <2>2. d \in Case
      BY DEF Snapshots, SInv, TypeOK
    <2>3. stored \in Case
      BY <1>1, <2>1 DEF SInv, TypeOK
    <2>4. QED
      BY <2>1, <2>2, <2>3 DEF Case
  <1>6. ASSUME NEW s \in Requests, NEW d \in Snapshots(s), call[s].number = number
        PROVE  d.version <= c.version /\ (d.version = c.version => d = c)
    <2>1. /\ stored # NoRow /\ d.version \in Nat /\ stored.version \in Nat
          /\ d.version <= stored.version /\ (d.version = stored.version => d = stored)
      BY <1>5, <1>6
    <2> HIDE DEF number, stored
    <2>2. CASE c = stored
      BY <2>1, <2>2
    <2>3. CASE c.version = stored.version + 1
      BY <2>1, <2>3
    <2>4. QED
      BY <1>1, <2>1, <2>2, <2>3
  <1> HIDE DEF number, stored
  <1>7. ASSUME NEW s \in Requests PROVE Current(s)'
    <2>1. CASE s = r
      BY <1>1, <1>2, <1>4, <2>1 DEF Current, Case, number
    <2>2. CASE s # r /\ Snapshots(s) = {}
      BY <1>4, <2>2 DEF Current
    <2>3. CASE s # r /\ Snapshots(s) # {} /\ call[s].number = number
      <3>1. call[s] # NoCall
        BY <1>5, <2>3
      <3>2. QED
        BY <1>1, <1>2, <1>4, <1>6, <2>3, <3>1 DEF Current
    <2>4. CASE s # r /\ Snapshots(s) # {} /\ call[s].number # number
      <3>1. Current(s) /\ call[s] # NoCall
        BY <2>4 DEF SInv, Current
      <3>2. call[s].number \in Numbers
        BY <3>1, CallFields DEF SInv, TypeOK
      <3>3. QED
        BY <1>1, <1>2, <1>4, <2>4, <3>1, <3>2 DEF Current
    <2>5. QED
      BY <2>1, <2>2, <2>3, <2>4
  <1>8. \A s \in Requests : Carried(s)' /\ Tagged(s)'
    BY <1>1 DEF SInv, Carried, Tagged, Answered
  <1>9. Agreement'
    <2> SUFFICES ASSUME NEW s \in Requests, NEW t \in Requests,
                        NEW d \in Snapshots(s)', NEW e \in Snapshots(t)',
                        call[s] # NoCall, call[t] # NoCall,
                        call[s].number = call[t].number, d.version = e.version
                 PROVE  d = e
      BY <1>1 DEF Agreement
    <2>1. CASE s = r /\ t = r
      BY <1>4, <2>1
    <2>2. CASE s = r /\ t # r
      BY <1>4, <1>6, <2>2 DEF number
    <2>3. CASE s # r /\ t = r
      BY <1>4, <1>6, <2>3 DEF number
    <2>4. CASE s # r /\ t # r
      BY <1>4, <2>4 DEF SInv, Agreement
    <2>5. QED
      BY <2>1, <2>2, <2>3, <2>4
  <1>10. QED
    BY <1>7, <1>8, <1>9 DEF SnapshotsTell

\* A reply carries what its call wrote or the stored case: nothing that is not known.
LEMMA EndSnapshots ==
    ASSUME SInv, NEW r \in Requests, NEW x, Ended(r, x)
    PROVE  SnapshotsTell'
  <1> DEFINE stored == cases[call[r].number]
  <1>1. /\ call[r] # NoCall /\ answer[r] = Pending
        /\ x.snapshot \in {NoRow, effect[r], stored}
        /\ x.outcome = "Ok" <=> x.snapshot # NoRow
        /\ UNCHANGED <<cases, call, effect, response>>
    BY DEF Ended
  <1>2. answer'[r] = x /\ \A s \in Requests : s # r => answer'[s] = answer[s]
    BY DEF Ended, SInv, TypeOK
  <1>3. \A s \in Requests : s # r => Snapshots(s)' = Snapshots(s)
    BY <1>1, <1>2 DEF Snapshots
  <1>4. Snapshots(r)' \subseteq Snapshots(r) \cup ({stored} \ {NoRow})
    BY <1>1, <1>2 DEF Snapshots
  <1>5. \A c \in {stored} \ {NoRow} : c \in Case /\ c.version \in Nat /\ c.version <= c.version
    <2>1. call[r].number \in Numbers
      BY <1>1, CallFields DEF SInv, TypeOK
    <2>2. \A c \in {stored} \ {NoRow} : c \in Case
      BY <2>1 DEF SInv, TypeOK
    <2>3. QED
      BY <2>2 DEF Case
  <1>6. ASSUME NEW s \in Requests PROVE Current(s)'
    <2>1. CASE s # r
      BY <1>1, <1>3, <2>1 DEF SInv, Current
    <2>2. CASE s = r
      BY <1>1, <1>4, <1>5, <2>2 DEF SInv, Current
    <2>3. QED
      BY <2>1, <2>2
  <1>7. ASSUME NEW s \in Requests PROVE Carried(s)' /\ Tagged(s)'
    <2>1. CASE s # r
      BY <1>1, <1>2, <2>1 DEF SInv, Carried, Tagged, Answered
    <2>2. CASE s = r
      <3>1. Carried(r)'
        BY <1>1, <1>2 DEF Carried
      <3>2. ~(Answered(r) /\ response[r].etag # NoHeader)
        BY <1>1, ReplyFields DEF SInv, Tagged
      <3>3. QED
        BY <1>1, <2>2, <3>1, <3>2 DEF Tagged, Answered
    <2>3. QED
      BY <2>1, <2>2
  <1>8. ASSUME NEW s \in Requests, NEW t \in Requests,
               NEW d \in Snapshots(s)', NEW e \in Snapshots(t)',
               call[s] # NoCall, call[t] # NoCall,
               call[s].number = call[t].number, d.version = e.version
        PROVE  d = e
    <2>1. /\ d \in Snapshots(s) \/ (s = r /\ d = stored /\ stored # NoRow)
          /\ e \in Snapshots(t) \/ (t = r /\ e = stored /\ stored # NoRow)
      BY <1>3, <1>4, <1>8
    <2>2. CASE d \in Snapshots(s) /\ e \in Snapshots(t)
      BY <1>8, <2>2 DEF SInv, Agreement
    <2>3. CASE d \in Snapshots(s) /\ t = r /\ e = stored
      BY <1>8, <2>3 DEF SInv, Current
    <2>4. CASE s = r /\ d = stored /\ e \in Snapshots(t)
      BY <1>8, <2>4 DEF SInv, Current
    <2>5. CASE d = stored /\ e = stored
      BY <2>5
    <2>6. QED
      BY <2>1, <2>2, <2>3, <2>4, <2>5
  <1>9. Agreement'
    BY <1>1, <1>8 DEF Agreement
  <1>10. QED
    BY <1>6, <1>7, <1>9 DEF SnapshotsTell

LEMMA RespondSnapshots ==
    ASSUME SInv, NEW r \in Requests, NEW x, Responds(r, x)
    PROVE  SnapshotsTell'
  <1>1. UNCHANGED <<cases, call, effect, answer>>
    BY DEF Responds
  <1>2. response'[r] = x /\ \A s \in Requests : s # r => response'[s] = response[s]
    BY DEF Responds, SInv, TypeOK
  <1>3. \A s \in Requests : Snapshots(s)' = Snapshots(s)
    BY <1>1 DEF Snapshots
  <1>4. \A s \in Requests : Current(s)' /\ Carried(s)'
    BY <1>1, <1>3 DEF SInv, Current, Carried
  <1>5. \A s \in Requests : Tagged(s)'
    BY <1>1, <1>2 DEF SInv, Tagged, Answered, Responds
  <1>6. Agreement'
    BY <1>1, <1>3 DEF SInv, Agreement
  <1>7. QED
    BY <1>4, <1>5, <1>6 DEF SnapshotsTell

LEMMA StepSInv == SInv /\ [Next]_vars => SInv'
  <1> SUFFICES ASSUME SInv, [Next]_vars PROVE SInv'
    OBVIOUS
  <1>1. IInv'
    BY StepIInv DEF SInv
  <1>2. CASE UNCHANGED vars
    BY <1>1, <1>2 DEF vars, SInv, TypeOK, Current, Carried, Tagged, Agreement, Snapshots, Answered
  <1>3. CASE Next
    <2>1. PICK r \in Requests : Arrive(r) \/ Serve(r) \/ Respond(r)
      BY <1>3 DEF Next
    <2>2. SnapshotsTell'
      BY <2>1, ArriveTells, ServeTells, RespondTells,
         ArriveSnapshots, StoreSnapshots, EndSnapshots, RespondSnapshots
    <2>3. QED
      BY <1>1, <2>1, <2>2, StepTypes DEF SInv, SnapshotsTell
  <1>4. QED
    BY <1>2, <1>3

LEMMA SnapshotInvariance == Spec => []SInv
  BY InitSInv, StepSInv, PTL DEF Spec

-----------------------------------------------------------------------------
\* The state of the API and everything a client gets has its type: what the
\* checks let pass is a call of the service, and every end of it a response.
THEOREM TypeCorrect == Spec => []TypeOK
  <1>1. SInv => TypeOK
    BY DEF SInv
  <1>2. QED
    BY <1>1, SnapshotInvariance, PTL

\* Responses with the same tag for the same case carry the same representation, and
\* the tag, sent back, is taken for the version in the body (CasesController and
\* EntityTagVersion): the tag tells the version, and the version the snapshot.
THEOREM TagsAreStrongValidators == Spec => []StrongValidator
  <1>1. SInv => StrongValidator
    <2> SUFFICES ASSUME SInv, NEW r \in Requests, Answered(r), response[r].etag # NoHeader
                 PROVE  /\ response[r].body.version <= MaxVersion =>
                              ParseRequired(response[r].etag) = Version(response[r].body.version)
                        /\ \A s \in Requests :
                              /\ Answered(s) /\ request[s].number = request[r].number
                              /\ response[s].etag = response[r].etag
                              => response[s].body = response[r].body
      BY DEF StrongValidator
    <2>1. ASSUME NEW s \in Requests, Answered(s), response[s].etag # NoHeader
          PROVE  /\ response[s].body \in Snapshots(s)
                 /\ response[s].body.version \in Nat \ {0}
                 /\ response[s].etag = Format(response[s].body.version)
                 /\ call[s] # NoCall /\ call[s].number = request[s].number
      <3>1. /\ answer[s].snapshot # NoRow /\ response[s].body = answer[s].snapshot
            /\ response[s].etag = Format(response[s].body.version)
        BY <2>1 DEF SInv, Tagged
      <3>2. response[s].body \in Snapshots(s)
        BY <3>1 DEF Snapshots
      <3>3. response[s].body \in Case
        BY <3>1 DEF SInv, TypeOK
      <3>4. call[s] # NoCall
        BY <3>2 DEF SInv, Current
      <3>5. call[s].number = request[s].number
        BY <3>4, PassedTells DEF SInv
      <3>6. QED
        BY <3>1, <3>2, <3>3, <3>4, <3>5 DEF Case
    <2>2. ASSUME response[r].body.version <= MaxVersion
          PROVE  ParseRequired(response[r].etag) = Version(response[r].body.version)
      <3>1. response[r].body.version \in 1..MaxVersion
        BY <2>1, <2>2, MaxVersionAssumption
      <3>2. QED
        BY <2>1, <3>1, FormatIsParsed
    <2>3. ASSUME NEW s \in Requests, Answered(s), request[s].number = request[r].number,
                 response[s].etag = response[r].etag
          PROVE  response[s].body = response[r].body
      <3>1. /\ response[s].body \in Snapshots(s) /\ response[r].body \in Snapshots(r)
            /\ response[s].body.version \in Nat /\ response[r].body.version \in Nat
            /\ Format(response[s].body.version) = Format(response[r].body.version)
            /\ call[s] # NoCall /\ call[r] # NoCall /\ call[s].number = call[r].number
        BY <2>1, <2>3
      <3>2. response[s].body.version = response[r].body.version
        BY <3>1, FormatTells
      <3>3. QED
        BY <3>1, <3>2 DEF SInv, Agreement
    <2>4. QED
      BY <2>2, <2>3
  <1>2. QED
    BY <1>1, SnapshotInvariance, PTL

-----------------------------------------------------------------------------
(***************************************************************************)
(* HttpApi implements VersionedCases: a request that passes submits a call, *)
(* the store's steps are its own, and what is refused before or answered    *)
(* after them is a stutter.                                                 *)
(***************************************************************************)

LEMMA SharedCalls == Store!Case = Case /\ Store!Call = Call
  BY DEF Store!Case, Case, Store!Call, Call, Store!CreateCall, CreateCall,
         Store!SeverityCall, SeverityCall, Store!StateCall, StateCall, Store!GetCall, GetCall

LEMMA InitRefines == Init => Store!Init
  BY InitialRowsAssumption, SharedCalls, SharedRules DEF Init, Store!Init

LEMMA StepRefines == SInv /\ [Next]_vars => [Store!Next]_(Store!vars)
  <1> SUFFICES ASSUME SInv, [Next]_vars PROVE [Store!Next]_(Store!vars)
    OBVIOUS
  <1>1. CASE UNCHANGED vars
    BY <1>1 DEF vars, Store!vars
  <1>2. CASE Next
    <2>1. PICK r \in Requests : Arrive(r) \/ Serve(r) \/ Respond(r)
      BY <1>2 DEF Next
    <2>2. CASE Arrive(r)
      <3>1. PICK q : Arrives(r, q)
        BY <2>2, ArriveTells
      <3>2. CASE UNCHANGED call
        BY <3>1, <3>2 DEF Arrives, Store!vars
      <3>3. CASE call' = [call EXCEPT ![r] = ServiceCall(q)] /\ ServiceCall(q) \in Call
        <4>1. call[r] = NoCall /\ UNCHANGED <<cases, effect, answer>>
          BY <3>1 DEF Arrives, SInv, IInv, Local
        <4>2. Store!Submit(r)
          BY <3>3, <4>1, SharedCalls DEF Store!Submit
        <4>3. QED
          BY <4>2 DEF Store!Next
      <3>4. QED
        BY <3>1, <3>2, <3>3 DEF Arrives
    <2>3. CASE Serve(r)
      BY <2>3 DEF Serve, Store!Next
    <2>4. CASE Respond(r)
      BY <2>4, RespondEffect DEF SInv, Store!vars
    <2>5. QED
      BY <2>1, <2>2, <2>3, <2>4
  <1>3. QED
    BY <1>1, <1>2

\* What is behind the API sees a client of VersionedCases and nothing else.
THEOREM Refinement == Spec => UsesVersionedCases
  BY InitRefines, StepRefines, SnapshotInvariance, PTL
     DEF Spec, Store!Spec, UsesVersionedCases
=============================================================================
