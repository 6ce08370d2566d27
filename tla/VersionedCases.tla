----------------------------- MODULE VersionedCases -----------------------------
(***************************************************************************)
(* What the case store promises its callers, whatever stores the cases.     *)
(*                                                                          *)
(* A write takes effect at most once, at one instant, and only against the  *)
(* version the caller named; the reply of a successful write is the case    *)
(* exactly as that write left it.  A refusal is final: the call has no      *)
(* effect after it.  A caller left without an answer knows nothing: its     *)
(* write may have taken effect, or still may.                               *)
(*                                                                          *)
(* A refusal does NOT promise that the call had no effect before it: a      *)
(* conflict and a create's duplicate may be about the call's own write (see *)
(* RefusalsAdmitTheirChange in SqlCaseService).  All others promise it.     *)
(***************************************************************************)
EXTENDS CaseCalls

VARIABLES
    cases,   \* number -> the case stored under it, or NoRow
    call,    \* request -> what it asked for, or NoCall
    effect,  \* request -> the case as its write left it, or NoRow
    answer   \* request -> the reply its caller got

vars == <<cases, call, effect, answer>>

Init ==
    /\ cases \in [Numbers -> Case \cup {NoRow}]
    /\ call = [r \in Requests |-> NoCall]
    /\ effect = [r \in Requests |-> NoRow]
    /\ answer = [r \in Requests |-> Pending]

-----------------------------------------------------------------------------
Waiting(r) == call[r] # NoCall /\ answer[r] = Pending

Replies(r, reply) ==
    /\ answer' = [answer EXCEPT ![r] = reply]
    /\ UNCHANGED <<cases, call, effect>>

Submit(r) ==
    /\ call[r] = NoCall
    /\ \E c \in Call : call' = [call EXCEPT ![r] = c]
    /\ UNCHANGED <<cases, effect, answer>>

Store(r, case) ==
    /\ cases' = [cases EXCEPT ![call[r].number] = case]
    /\ effect' = [effect EXCEPT ![r] = case]

Create(r) ==
    /\ call[r].kind = "create"
    /\ ValidSeverity(call[r].severity)
    /\ cases[call[r].number] = NoRow
    /\ Store(r, NewCase(call[r].severity))

\* Mutant: the version the caller expects is not compared.
ChangeAnyVersion(r) ==
    /\ call[r].kind \in Mutations
    /\ cases[call[r].number] # NoRow
    /\ ~Refused(cases[call[r].number], call[r])
    /\ Store(r, Mutated(cases[call[r].number], call[r]))

Change(r) ==
    /\ call[r].kind \in Mutations
    /\ cases[call[r].number] # NoRow
    /\ cases[call[r].number].version = call[r].expected
    /\ ~Refused(cases[call[r].number], call[r])
    /\ Store(r, Mutated(cases[call[r].number], call[r]))

TakeEffect(r) ==
    /\ call[r] # NoCall
    /\ answer[r].outcome \in {"Pending", "Unknown"}
    /\ effect[r] = NoRow
    /\ Create(r) \/ Change(r)
    /\ UNCHANGED <<call, answer>>

Succeed(r) ==
    /\ Waiting(r)
    /\ effect[r] # NoRow
    /\ Replies(r, Ok(effect[r]))

Read(r) ==
    /\ Waiting(r)
    /\ call[r].kind = "get"
    /\ cases[call[r].number] # NoRow
    /\ Replies(r, Ok(cases[call[r].number]))

(***************************************************************************)
(* A refusal names a reason that holds of the stored case, or held at some  *)
(* moment of the call: a conflict reports a version the case has had that   *)
(* is not the expected one nor older than the call's own write, a forbidden *)
(* transition is judged on the expected version and no other, and a case is *)
(* missing only if it is.                                                   *)
(***************************************************************************)
RefuseConflict(r) ==
    /\ Waiting(r)
    /\ call[r].kind \in Mutations
    /\ cases[call[r].number] # NoRow
    /\ \E actual \in 1..cases[call[r].number].version :
          /\ actual # call[r].expected
          /\ effect[r] # NoRow => actual >= effect[r].version
          /\ Replies(r, CaseConcurrency(actual))

RefuseTransition(r) ==
    LET stored == cases[call[r].number]
    IN  /\ Waiting(r)
        /\ call[r].kind # "get"
        /\ stored # NoRow
        /\ call[r].kind \in Mutations =>
              /\ effect[r] = NoRow
              /\ stored.version >= call[r].expected
              /\ stored.version = call[r].expected => ForbiddenTransition(stored, call[r])
        /\ Replies(r, Throw("InvalidOperation"))

RefuseArgument(r) ==
    /\ Waiting(r)
    /\ effect[r] = NoRow
    /\ call[r].kind \in {"create", "severity"}
    /\ ~ValidSeverity(call[r].severity)
    /\ Replies(r, Throw("Argument"))

RefuseMissing(r) ==
    /\ Waiting(r)
    /\ effect[r] = NoRow
    /\ call[r].kind # "create"
    /\ cases[call[r].number] = NoRow
    /\ Replies(r, Throw("KeyNotFound"))

LoseTrack(r) ==
    /\ Waiting(r)
    /\ Replies(r, Throw("Unknown"))

Next ==
    \E r \in Requests :
        \/ Submit(r)
        \/ TakeEffect(r)
        \/ Succeed(r)
        \/ Read(r)
        \/ RefuseConflict(r)
        \/ RefuseTransition(r)
        \/ RefuseArgument(r)
        \/ RefuseMissing(r)
        \/ LoseTrack(r)

Spec == Init /\ [][Next]_vars
=============================================================================
