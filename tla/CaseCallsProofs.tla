---------------------------- MODULE CaseCallsProofs ----------------------------
(***************************************************************************)
(* Lemmas about the rules of a case and the calls, for the proofs about the *)
(* modules that are built from them.                                        *)
(***************************************************************************)
EXTENDS CaseCalls, TLAPS

-----------------------------------------------------------------------------
\* What every call has, whatever method it is for.
LEMMA CallFields ==
    ASSUME NEW c \in Call
    PROVE  /\ c.kind \in {"create", "get"} \cup Mutations
           /\ c.number \in Numbers
           /\ c.expected \in Nat
           /\ c.severity \in Int
           /\ c.kind = "create" => c.expected = 0
           /\ c.kind \in Mutations => c.expected # 0
  <1>1. CASE c \in CreateCall
    <2>1. c.kind = "create" /\ c.number \in Numbers /\ c.severity \in Severities /\ c.expected = 0
      BY <1>1 DEF CreateCall
    <2>2. c.severity \in Int
      BY <2>1, SeveritiesAssumption
    <2>3. QED
      BY <2>1, <2>2 DEF Mutations
  <1>2. CASE c \in SeverityCall
    <2>1. c.kind = "severity" /\ c.number \in Numbers /\ c.severity \in Severities /\ c.expected \in Versions
      BY <1>2 DEF SeverityCall
    <2>2. c.severity \in Int
      BY <2>1, SeveritiesAssumption
    <2>3. c.expected \in Nat /\ c.expected # 0
      BY <2>1, VersionsAssumption
    <2>4. QED
      BY <2>1, <2>2, <2>3 DEF Mutations
  <1>3. CASE c \in StateCall
    <2>1. /\ c.kind \in {"close", "reopen", "escalate"}
          /\ c.number \in Numbers /\ c.severity = 0 /\ c.expected \in Versions
      BY <1>3 DEF StateCall
    <2>2. c.expected \in Nat /\ c.expected # 0
      BY <2>1, VersionsAssumption
    <2>3. QED
      BY <2>1, <2>2 DEF Mutations
  <1>4. CASE c \in GetCall
    <2>1. c.kind = "get" /\ c.number \in Numbers /\ c.severity = 0 /\ c.expected = 0
      BY <1>4 DEF GetCall
    <2>2. QED
      BY <2>1 DEF Mutations
  <1>5. QED
    BY <1>1, <1>2, <1>3, <1>4 DEF Call

\* The constructor makes a case at version 1.
LEMMA NewCaseIsCase ==
    ASSUME NEW severity \in Int, ValidSeverity(severity)
    PROVE  NewCase(severity) \in Case /\ NewCase(severity).version = 1
  BY DEF NewCase, Case, ValidSeverity

\* One more in the version is still a case.
LEMMA BumpedIsCase ==
    ASSUME NEW c \in Case
    PROVE  /\ [c EXCEPT !.version = @ + 1] \in Case
           /\ [c EXCEPT !.version = @ + 1].version = c.version + 1
  BY DEF Case

\* A mutation keeps the version; one that reports no change changes nothing.
LEMMA AppliedCase ==
    ASSUME NEW c \in Case, NEW k,
           k.kind \in Mutations, k.severity \in Int, ~Refused(c, k)
    PROVE  /\ Applied(c, k) \in Case
           /\ Applied(c, k).version = c.version
           /\ ~StateChanged(c, k) => Applied(c, k) = c
  <1>1. CASE k.kind = "close"
    <2>1. Applied(c, k) = [c EXCEPT !.isOpen = FALSE] /\ StateChanged(c, k)
      BY <1>1 DEF Applied, StateChanged
    <2>2. QED
      BY <2>1 DEF Case
  <1>2. CASE k.kind = "reopen"
    <2>1. Applied(c, k) = [c EXCEPT !.isOpen = TRUE] /\ StateChanged(c, k)
      BY <1>2 DEF Applied, StateChanged
    <2>2. QED
      BY <2>1 DEF Case
  <1>3. CASE k.kind = "escalate"
    <2>1. Applied(c, k) = [c EXCEPT !.isExecutiveEscalation = TRUE]
      BY <1>3 DEF Applied
    <2>2. StateChanged(c, k) <=> ~c.isExecutiveEscalation
      BY <1>3 DEF StateChanged
    <2>3. c.isExecutiveEscalation \in BOOLEAN
      BY DEF Case
    <2>4. QED
      BY <2>1, <2>2, <2>3 DEF Case
  <1>4. CASE k.kind = "severity"
    <2>1. Applied(c, k) = [c EXCEPT !.severity = k.severity]
      BY <1>4 DEF Applied
    <2>2. StateChanged(c, k) <=> c.severity # k.severity
      BY <1>4 DEF StateChanged
    <2>3. k.severity \in 1..5
      BY <1>4 DEF Refused, InvalidArgument, ValidSeverity
    <2>4. QED
      BY <2>1, <2>2, <2>3 DEF Case
  <1>5. QED
    BY <1>1, <1>2, <1>3, <1>4 DEF Mutations

\* A mutation that is not refused yields a case; it moves the version by one
\* or leaves the whole case alone, and closing or reopening never does the latter.
LEMMA MutationOfCase ==
    ASSUME NEW c \in Case, NEW k,
           k.kind \in Mutations, k.severity \in Int, ~Refused(c, k)
    PROVE  /\ Mutated(c, k) \in Case
           /\ \/ Mutated(c, k).version = c.version + 1
              \/ Mutated(c, k) = c
           /\ k.kind \in {"close", "reopen"} => Mutated(c, k).version = c.version + 1
  <1>1. CASE StateChanged(c, k)
    <2>1. Mutated(c, k) = [Applied(c, k) EXCEPT !.version = @ + 1]
      BY <1>1 DEF Mutated
    <2>2. QED
      BY <2>1, AppliedCase, BumpedIsCase
  <1>2. CASE ~StateChanged(c, k)
    <2>1. Mutated(c, k) = c
      BY <1>2, AppliedCase DEF Mutated
    <2>2. k.kind \notin {"close", "reopen"}
      BY <1>2 DEF StateChanged
    <2>3. QED
      BY <2>1, <2>2
  <1>3. QED
    BY <1>1, <1>2

\* The same, of a call.
LEMMA MutatedCase ==
    ASSUME NEW c \in Case, NEW k \in Call,
           k.kind \in Mutations, ~Refused(c, k)
    PROVE  /\ Mutated(c, k) \in Case
           /\ \/ Mutated(c, k).version = c.version + 1
              \/ Mutated(c, k) = c
           /\ k.kind \in {"close", "reopen"} => Mutated(c, k).version = c.version + 1
  BY CallFields, MutationOfCase
=============================================================================
