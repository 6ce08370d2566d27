------------------------------- MODULE CaseCalls -------------------------------
(***************************************************************************)
(* The calls a caller can make on CaseService and the replies it can get,   *)
(* shared by the abstract specification and by the implementations of the   *)
(* case store.                                                              *)
(***************************************************************************)
EXTENDS SupportCase

CONSTANTS
    Requests,    \* calls in flight, one per HTTP request (its own DI scope)
    Numbers,     \* case numbers the collation tells apart
    Severities,  \* severities callers ask for, valid or not
    Versions,    \* versions callers send in If-Match
    NoRow,       \* no case is stored under a number
    NoCall       \* a request that has not been made yet

ASSUME SeveritiesAssumption == Severities \subseteq Int
ASSUME VersionsAssumption == Versions \subseteq Nat \ {0}
ASSUME NoRowAssumption == NoRow \notin Case

-----------------------------------------------------------------------------
(***************************************************************************)
(* CreateCaseAsync, the four mutations with the version the caller expects, *)
(* and GetCaseByNumberAsync.  A field a method does not take is 0.  A       *)
(* create whose severity is invalid stands for every argument the           *)
(* constructor rejects: blank or too long number and subject reach the same *)
(* ArgumentException.                                                       *)
(***************************************************************************)
CreateCall == [kind : {"create"}, number : Numbers, severity : Severities, expected : {0}]
SeverityCall == [kind : {"severity"}, number : Numbers, severity : Severities, expected : Versions]
StateCall == [kind : {"close", "reopen", "escalate"}, number : Numbers, severity : {0}, expected : Versions]
GetCall == [kind : {"get"}, number : Numbers, severity : {0}, expected : {0}]

Call == CreateCall \cup SeverityCall \cup StateCall \cup GetCall

ASSUME NoCallAssumption == NoCall \notin Call

-----------------------------------------------------------------------------
(***************************************************************************)
(* How a call ends: a snapshot, one of the exceptions the API turns into a  *)
(* status (KeyNotFound 404, CaseConcurrency 412, InvalidOperation 409,      *)
(* Argument 400), or an end that tells the caller nothing about the case:   *)
(* a database failure (500), a cancelled token, a process that died.        *)
(* "actual" is the version a CaseConcurrencyException carries.              *)
(***************************************************************************)
Refusals == {"KeyNotFound", "CaseConcurrency", "InvalidOperation", "Argument"}
Outcomes == {"Pending", "Ok", "Unknown"} \cup Refusals

Reply(outcome, snapshot, actual) ==
    [outcome |-> outcome, snapshot |-> snapshot, actual |-> actual]

Pending == Reply("Pending", NoRow, 0)
Ok(snapshot) == Reply("Ok", snapshot, 0)
Throw(exception) == Reply(exception, NoRow, 0)
CaseConcurrency(actual) == Reply("CaseConcurrency", NoRow, actual)

\* Whether a row left by a call's write differs from what it was written over:
\* an insert always does, a mutation when the version moved.
IsChange(row, call) == row # NoRow /\ row.version # call.expected

\* Mutant: a no-op is logged like a change.
AlwaysInformation(c, snapshot) == "Information"

\* Close and reopen always change the case; the other two log a no-op at Debug.
LogLevel(c, snapshot) ==
    IF c.kind \in {"escalate", "severity"} /\ snapshot.version = c.expected
    THEN "Debug"
    ELSE "Information"
=============================================================================
