------------------------------ MODULE SupportCase ------------------------------
(***************************************************************************)
(* The rules about one case (CasePriority.Core/Domain/SupportCase.cs): what *)
(* the constructor accepts, what each mutation refuses, what it changes and *)
(* when the version moves.  Pure operators; who holds the case and how it   *)
(* is shared is the business of the modules that use them.                  *)
(*                                                                          *)
(* The case number is the key the case is stored under and the subject is   *)
(* written once and never read by a rule, so neither is a field here.       *)
(* Versions are 64-bit in the code; they grow by one per change and are     *)
(* unbounded here.                                                          *)
(***************************************************************************)
EXTENDS Integers

(***************************************************************************)
(* The states a constructed case can be in.  The two CHECK constraints of   *)
(* the SupportCases table repeat the bounds on severity and version.        *)
(***************************************************************************)
Case == [severity : 1..5,
         isOpen : BOOLEAN,
         isExecutiveEscalation : BOOLEAN,
         version : Nat \ {0}]

\* Mutant: the upper bound is off by one.
ValidSeverityOffByOne(severity) == severity >= 1 /\ severity <= 6

\* ValidateSeverity throws ArgumentOutOfRangeException outside 1..5.
ValidSeverity(severity) == severity >= 1 /\ severity <= 5

\* Mutant: the version column keeps the default of its type.
NewCaseVersionZero(severity) ==
    [severity |-> severity, isOpen |-> TRUE, isExecutiveEscalation |-> FALSE, version |-> 0]

\* The constructor with its default arguments, as CreateCaseAsync calls it.
NewCase(severity) ==
    [severity |-> severity,
     isOpen |-> TRUE,
     isExecutiveEscalation |-> FALSE,
     version |-> 1]

-----------------------------------------------------------------------------
\* The kinds of mutation; a call also carries the severity it asks for.
Mutations == {"close", "reopen", "escalate", "severity"}

\* ApplyClose and ApplyReopen throw InvalidOperationException.
ForbiddenTransition(c, call) ==
    \/ call.kind = "close" /\ ~c.isOpen
    \/ call.kind = "reopen" /\ c.isOpen

\* ApplySeverityChange validates before it compares.
InvalidArgument(call) == call.kind = "severity" /\ ~ValidSeverity(call.severity)

Refused(c, call) == ForbiddenTransition(c, call) \/ InvalidArgument(call)

\* Mutant: a severity change that reports "no change".
SeverityUnreported(c, call) ==
    \/ call.kind \in {"close", "reopen"}
    \/ call.kind = "escalate" /\ ~c.isExecutiveEscalation

\* What the Apply... functions return: escalating an escalated case and
\* setting the severity a case already has report "no change".
StateChanged(c, call) ==
    \/ call.kind \in {"close", "reopen"}
    \/ call.kind = "escalate" /\ ~c.isExecutiveEscalation
    \/ call.kind = "severity" /\ c.severity # call.severity

Applied(c, call) ==
    CASE call.kind = "close"    -> [c EXCEPT !.isOpen = FALSE]
      [] call.kind = "reopen"   -> [c EXCEPT !.isOpen = TRUE]
      [] call.kind = "escalate" -> [c EXCEPT !.isExecutiveEscalation = TRUE]
      [] call.kind = "severity" -> [c EXCEPT !.severity = call.severity]

\* Mutate, once the version matched and the rule did not refuse.
Mutated(c, call) ==
    IF StateChanged(c, call)
    THEN [Applied(c, call) EXCEPT !.version = @ + 1]
    ELSE Applied(c, call)
=============================================================================
