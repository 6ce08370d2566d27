------------------------------- MODULE HttpApi -------------------------------
(***************************************************************************)
(* The JSON API in front of the case store: what a request passes on its    *)
(* way to CaseService (correlation id, authentication, authorization, model *)
(* validation, If-Match) and how the end of its call becomes a response.    *)
(*                                                                          *)
(* The store is any that keeps the promise of VersionedCases, and its       *)
(* requests are the ones here.  The way in touches nothing that requests    *)
(* share, so it is one step; the response is another, after the store's.    *)
(*                                                                          *)
(* A route without a case number, a body that is not JSON and other         *)
(* failures of model binding end like a severity out of range.  Problem     *)
(* texts are left out.                                                      *)
(***************************************************************************)
EXTENDS CaseCalls, EntityTagVersion

CONSTANTS
    InitialRows,    \* cases that may be stored at the start
    Roles,          \* the role in a valid token; Anonymous stands for no valid token
    Anonymous,
    IfMatches,      \* values clients send in If-Match, NoHeader among them
    Supplied,       \* the values clients send in the correlation header, in sequence
    InvalidIds,     \* the ids in them that the middleware does not accept
    NoRequest,      \* a request that has not come yet
    NoResponse      \* a request that has not been answered yet

ASSUME InitialRowsAssumption == InitialRows \subseteq Case
ASSUME AnonymousAssumption == Anonymous \notin Roles

\* A request's name stands for the id that is generated for it, which no client can guess.
ASSUME SuppliedAssumption ==
    \A ids \in Supplied : ids \in Seq(Range(ids)) /\ Range(ids) \cap Requests = {}

VARIABLES
    cases, call, effect, answer,  \* the store's, see VersionedCases
    request,                      \* request -> what the client sent, or NoRequest
    traceIdentifier,              \* request -> the HttpContext's TraceIdentifier
    response                      \* request -> what the client got, or NoResponse

Store == INSTANCE VersionedCases

vars == <<cases, call, effect, answer, request, traceIdentifier, response>>

-----------------------------------------------------------------------------
(***************************************************************************)
(* What clients send: the call, whose version is in the If-Match header of  *)
(* a PATCH and nowhere else, a token and correlation ids.                   *)
(***************************************************************************)
Shape(kinds, severities, ifMatches) ==
    [kind : kinds, number : Numbers, severity : severities, ifMatch : ifMatches,
     role : Roles \cup {Anonymous}, ids : Supplied]

Request ==
    Shape({"get", "list"}, {0}, {NoHeader})
        \cup Shape({"create"}, Severities, {NoHeader})
        \cup Shape({"close", "reopen", "escalate"}, {0}, IfMatches)
        \cup Shape({"severity"}, Severities, IfMatches)

\* Versions has every version that an If-Match names.
ASSUME IfMatchesAssumption ==
    \A raw \in IfMatches :
        ParseRequired(raw).status = 200 => ParseRequired(raw).version \in Versions

ASSUME NoRequestAssumption == NoRequest \notin Request

Managers == {"CaseManager", "Administrator"}

\* Mutant: the mutations take the policy of the reads.
ReadCasesForAll(kind) == Managers \cup {"Viewer"}

\* The roles of the policies ReadCases and ManageCases.
PolicyRoles(kind) ==
    IF kind \in {"get", "list"} THEN Managers \cup {"Viewer"} ELSE Managers

\* [Range(1, 5)] of the two request bodies.
ValidBody(q) == q.kind \in {"create", "severity"} => q.severity >= 1 /\ q.severity <= 5

\* Mutant: a mutation without If-Match is let through.
PrecheckOptionalIfMatch(q) ==
    IF q.role = Anonymous THEN 401
    ELSE IF q.role \notin PolicyRoles(q.kind) THEN 403
    ELSE IF ~ValidBody(q) THEN 400
    ELSE IF q.kind \in Mutations /\ q.ifMatch # NoHeader THEN ParseRequired(q.ifMatch).status
    ELSE 200

(***************************************************************************)
(* The status that ends a request before its action calls the service, or   *)
(* 200.  Authentication comes before authorization, and both before the     *)
(* body, which is validated before the action parses If-Match.              *)
(***************************************************************************)
Precheck(q) ==
    IF q.role = Anonymous THEN 401
    ELSE IF q.role \notin PolicyRoles(q.kind) THEN 403
    ELSE IF ~ValidBody(q) THEN 400
    ELSE IF q.kind \in Mutations THEN ParseRequired(q.ifMatch).status
    ELSE 200

ServiceCall(q) ==
    [kind |-> q.kind, number |-> q.number, severity |-> q.severity,
     expected |-> IF q.kind \in Mutations THEN ParseRequired(q.ifMatch).version ELSE 0]

-----------------------------------------------------------------------------
\* Mutant: whatever the client sends is taken.
AnySuppliedId(r, ids) == IF ids # <<>> THEN ids[1] ELSE r

\* A single valid value is honored, otherwise an id is generated; a value that comes twice
\* is two.
CorrelationId(r, ids) ==
    IF Len(ids) = 1 /\ ids[1] \notin InvalidIds THEN ids[1] ELSE r

(***************************************************************************)
(* A response.  The exception handler clears what the action had set; the   *)
(* correlation header is written when the response starts, and therefore on *)
(* every response.                                                          *)
(***************************************************************************)
Success(status, snapshot, etag, id) ==
    [status |-> status, body |-> snapshot, etag |-> etag, correlationId |-> id]

ProblemDetails(status, id) ==
    [status |-> status, body |-> NoRow, etag |-> NoHeader, correlationId |-> id]

\* A connection that is gone gets no response.
Gone == ProblemDetails(0, NoHeader)

\* Mutant: a failure of the database is reported like a bad argument.
StatusesUnknownAsArgument(outcome) ==
    CASE outcome = "CaseConcurrency"  -> {412}
      [] outcome = "KeyNotFound"      -> {404}
      [] outcome = "InvalidOperation" -> {409}
      [] outcome = "Argument"         -> {400}
      [] outcome = "Unknown"          -> {400}

(***************************************************************************)
(* ApiExceptionHandler.  An outcome the domain knows nothing of is a 500,   *)
(* or a 409 when the driver has no connection in its pool left and throws   *)
(* an InvalidOperationException of its own.                                 *)
(***************************************************************************)
Statuses(outcome) ==
    CASE outcome = "CaseConcurrency"  -> {412}
      [] outcome = "KeyNotFound"      -> {404}
      [] outcome = "InvalidOperation" -> {409}
      [] outcome = "Argument"         -> {400}
      [] outcome = "Unknown"          -> {409, 500}

Failures(outcome, id) == {ProblemDetails(status, id) : status \in Statuses(outcome)}

-----------------------------------------------------------------------------
Init ==
    /\ cases \in [Numbers -> InitialRows \cup {NoRow}]
    /\ call = [r \in Requests |-> NoCall]
    /\ effect = [r \in Requests |-> NoRow]
    /\ answer = [r \in Requests |-> Pending]
    /\ request = [r \in Requests |-> NoRequest]
    /\ traceIdentifier = [r \in Requests |-> NoHeader]
    /\ response = [r \in Requests |-> NoResponse]

\* The pipeline and the first lines of the action: a problem, or a call of the service.
\* The list of all cases is read and returned without a tag.
Arrive(r) ==
    /\ request[r] = NoRequest
    /\ \E q \in Request :
          LET status == Precheck(q)
              id == CorrelationId(r, q.ids)
          IN  /\ request' = [request EXCEPT ![r] = q]
              /\ traceIdentifier' = [traceIdentifier EXCEPT ![r] = id]
              /\ \/ /\ status # 200
                    /\ response' = [response EXCEPT ![r] = ProblemDetails(status, id)]
                    /\ UNCHANGED call
                 \/ /\ status = 200
                    /\ q.kind = "list"
                    /\ \E ended \in {Success(200, NoRow, NoHeader, id), Gone} \cup Failures("Unknown", id) :
                          response' = [response EXCEPT ![r] = ended]
                    /\ UNCHANGED call
                 \/ /\ status = 200
                    /\ q.kind # "list"
                    /\ call' = [call EXCEPT ![r] = ServiceCall(q)]
                    /\ UNCHANGED response
    /\ UNCHANGED <<cases, effect, answer>>

\* The store works on a call.
Serve(r) ==
    /\ \/ Store!TakeEffect(r)
       \/ Store!Succeed(r)
       \/ Store!Read(r)
       \/ Store!RefuseConflict(r)
       \/ Store!RefuseTransition(r)
       \/ Store!RefuseArgument(r)
       \/ Store!RefuseMissing(r)
       \/ Store!LoseTrack(r)
    /\ UNCHANGED <<request, traceIdentifier, response>>

\* Mutant: the tag of a change is computed and not read from the snapshot.
UpdatedNextVersion(r, snapshot) ==
    Success(200, snapshot, Format(call[r].expected + 1), traceIdentifier[r])

\* Updated, and the success of the other two: the tag is the snapshot's version.
Updated(r, snapshot) ==
    Success(IF call[r].kind = "create" THEN 201 ELSE 200, snapshot,
            Format(snapshot.version), traceIdentifier[r])

\* Mutant: an exception of the store is not handled.
RespondToDomain(r) ==
    /\ answer[r].outcome \in {"Ok"} \cup Refusals
    /\ response[r] = NoResponse
    /\ response' =
          [response EXCEPT ![r] = IF answer[r].outcome = "Ok" THEN Updated(r, answer[r].snapshot)
                                  ELSE ProblemDetails(500, traceIdentifier[r])]
    /\ UNCHANGED <<cases, call, effect, answer, request, traceIdentifier>>

\* The action returns, its exception is handled, or the client has gone meanwhile.
Respond(r) ==
    /\ answer[r] # Pending
    /\ response[r] = NoResponse
    /\ \E ended \in
             {Gone} \cup
             IF answer[r].outcome = "Ok"
             THEN {Updated(r, answer[r].snapshot)}
             ELSE Failures(answer[r].outcome, traceIdentifier[r]) :
          response' = [response EXCEPT ![r] = ended]
    /\ UNCHANGED <<cases, call, effect, answer, request, traceIdentifier>>

Next == \E r \in Requests : Arrive(r) \/ Serve(r) \/ Respond(r)

Spec == Init /\ [][Next]_vars

\* A call of the service ends (EveryCallEnds of the stores), and the pipeline runs on.
Fairness ==
    \A r \in Requests :
        /\ WF_vars(Serve(r) /\ answer'[r] # Pending)
        /\ WF_vars(Respond(r))

FairSpec == Spec /\ Fairness

-----------------------------------------------------------------------------
Ids == Requests \cup {NoHeader} \cup UNION {Range(ids) : ids \in Supplied}
Response ==
    [status : {0, 200, 201, 400, 401, 403, 404, 409, 412, 428, 500},
     body : Case \cup {NoRow}, etag : {NoHeader} \cup Tags, correlationId : Ids]

TypeOK ==
    /\ cases \in [Numbers -> Case \cup {NoRow}]
    /\ call \in [Requests -> Call \cup {NoCall}]
    /\ effect \in [Requests -> Case \cup {NoRow}]
    /\ answer \in [Requests -> [outcome : Outcomes, snapshot : Case \cup {NoRow}, actual : Nat]]
    /\ request \in [Requests -> Request \cup {NoRequest}]
    /\ traceIdentifier \in [Requests -> Ids]
    /\ response \in [Requests -> Response \cup {NoResponse}]

\* The change r makes to a case is the one its client asked for and may ask for: a manager's,
\* of the severity or the kind in the request, to the version that the client's If-Match names.
AskedFor(r, number) ==
    /\ request[r] # NoRequest
    /\ request[r].number = number
    /\ request[r].role \in {"CaseManager", "Administrator"}
    /\ IF cases[number] = NoRow
       THEN /\ request[r].kind = "create"
            /\ cases'[number] = NewCase(request[r].severity)
       ELSE /\ request[r].kind \in Mutations
            /\ ParseRequired(request[r].ifMatch) = Version(cases[number].version)
            /\ cases'[number] = Mutated(cases[number], request[r])

\* Whatever the order of requests, a stored case changes only as somebody asked who is
\* allowed to and who named the version that is changed, and into what was asked for.
OnlyAskedForChanges ==
    [][\A number \in Numbers :
          cases'[number] # cases[number] =>
              \E r \in Requests : AskedFor(r, number)]_vars

Answered(r) == response[r] # NoResponse

\* 400, 401, 403, 404 and 428 mean that the request changed nothing and never will.
\* (A 412 does not, see ConflictMeansNoMutation in SqlCaseService, nor does a 409.)
ClientErrorMeansNoEffect ==
    \A r \in Requests :
        Answered(r) /\ response[r].status \in {400, 401, 403, 404, 428} => effect[r] = NoRow

\* A 409 is about the case: "invalid transition -> 409" (README.md:78), or a create's
\* duplicate; the endpoints that declare it are the create, close, reopen and escalate
\* (CasesController.cs:63, 85, 105, 125) and neither the reads nor the severity change.
ConflictIsAboutTheCase ==
    \A r \in Requests :
        Answered(r) /\ response[r].status = 409 =>
            /\ request[r].kind \in {"create", "close", "reopen", "escalate"}
            /\ cases[request[r].number] # NoRow

(***************************************************************************)
(* The strong validator: responses of two requests with the same tag for    *)
(* the same case carry the same representation, and the tag, sent back in   *)
(* If-Match, is accepted as the version in the body, which is unbounded     *)
(* here and 64-bit in the code.                                             *)
(***************************************************************************)
StrongValidator ==
    \A r, s \in Requests :
        Answered(r) /\ response[r].etag # NoHeader =>
            /\ response[r].body.version <= MaxVersion =>
                  ParseRequired(response[r].etag) = Version(response[r].body.version)
            /\ Answered(s) /\ request[s].number = request[r].number
                  /\ response[s].etag = response[r].etag
               => response[s].body = response[r].body

\* Two requests share a correlation id only when both clients supplied that very id.
CorrelationIdsTellRequestsApart ==
    \A r, s \in Requests :
        /\ r # s
        /\ request[r] # NoRequest /\ request[s] # NoRequest
        /\ traceIdentifier[r] = traceIdentifier[s]
        => request[r].ids = <<traceIdentifier[r]>> /\ request[s].ids = <<traceIdentifier[r]>>

(***************************************************************************)
(* Behind the API the store sees a client of VersionedCases: whatever       *)
(* arrives, a request makes at most one call, which is one that CaseService *)
(* has, with a version that some client named, and a client that has gone   *)
(* takes nothing back.                                                      *)
(***************************************************************************)
UsesVersionedCases == Store!Spec

\* Every request is answered, or its client has gone.
EveryRequestEnds == \A r \in Requests : request[r] # NoRequest ~> Answered(r)
=============================================================================
