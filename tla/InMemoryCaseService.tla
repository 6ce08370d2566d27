-------------------------- MODULE InMemoryCaseService --------------------------
(***************************************************************************)
(* CaseService over InMemoryCaseRepository, as the console and the API's    *)
(* tests run it: one dictionary of SupportCase objects that every thread    *)
(* shares.  There is no commit; a mutation writes the shared object inside  *)
(* the object's own lock, field by field, and SaveChanges does nothing but  *)
(* look at the caller's cancellation token.                                 *)
(*                                                                          *)
(* No case is ever removed, so an object is named by its case number.       *)
(***************************************************************************)
EXTENDS CaseCalls

CONSTANT InitialRows    \* cases the dictionary may hold at the start

ASSUME InitialRowsAssumption == InitialRows \subseteq Case

VARIABLES
    cases,     \* number -> the fields of the stored object, or NoRow
    holders,   \* number -> the requests inside the object's lock
    pc,        \* request -> where its method is
    call,      \* request -> the call it makes, or NoCall
    captured,  \* request -> the snapshot its mutation captured
    reply,     \* request -> how the call ended
    log,       \* request -> level of the event CaseService logged
    settled,   \* number -> (history) the object when its lock was last released
    effect     \* request -> (history) the case as its write left it

vars == <<cases, holders, pc, call, captured, reply, log, settled, effect>>

Labels == {"ready", "add", "load", "lock", "mutate", "bump", "capture", "save", "done"}

Init ==
    /\ cases \in [Numbers -> InitialRows \cup {NoRow}]
    /\ holders = [n \in Numbers |-> {}]
    /\ pc = [r \in Requests |-> "ready"]
    /\ call = [r \in Requests |-> NoCall]
    /\ captured = [r \in Requests |-> NoRow]
    /\ reply = [r \in Requests |-> Pending]
    /\ log = [r \in Requests |-> "none"]
    /\ settled = cases
    /\ effect = [r \in Requests |-> NoRow]

-----------------------------------------------------------------------------
Goto(r, label) ==
    /\ pc' = [pc EXCEPT ![r] = label]
    /\ UNCHANGED reply

Answer(r, value) ==
    /\ pc' = [pc EXCEPT ![r] = "done"]
    /\ reply' = [reply EXCEPT ![r] = value]

Object(r) == cases[call[r].number]

Release(r) == holders' = [holders EXCEPT ![call[r].number] = @ \ {r}]

Begin(r) ==
    /\ pc[r] = "ready"
    /\ \E c \in Call :
          /\ call' = [call EXCEPT ![r] = c]
          /\ Goto(r, IF c.kind = "create" THEN "add" ELSE "load")
    /\ UNCHANGED <<cases, holders, captured, log, settled, effect>>

\* The constructor, then TryAdd: of two creates of one number one is refused.
Add(r) ==
    LET number == call[r].number
        case == NewCase(call[r].severity)
    IN  /\ pc[r] = "add"
        /\ \/ /\ ~ValidSeverity(call[r].severity)
              /\ Answer(r, Throw("Argument"))
              /\ UNCHANGED <<cases, settled, effect>>
           \/ /\ ValidSeverity(call[r].severity)
              /\ cases[number] # NoRow
              /\ Answer(r, Throw("InvalidOperation"))
              /\ UNCHANGED <<cases, settled, effect>>
           \/ /\ ValidSeverity(call[r].severity)
              /\ cases[number] = NoRow
              /\ cases' = [cases EXCEPT ![number] = case]
              /\ settled' = [settled EXCEPT ![number] = case]
              /\ effect' = [effect EXCEPT ![r] = case]
              /\ Goto(r, "save")
        /\ UNCHANGED <<holders, call, captured, log>>

\* Mutant: ToSnapshot reads without the lock.
LoadUnlocked(r) ==
    /\ pc[r] = "load"
    /\ \/ Answer(r, Throw("Unknown"))
       \/ Object(r) = NoRow /\ Answer(r, Throw("KeyNotFound"))
       \/ Object(r) # NoRow /\ Goto(r, IF call[r].kind = "get" THEN "capture" ELSE "lock")
    /\ UNCHANGED <<cases, holders, call, captured, log, settled, effect>>

\* GetByCaseNumberAsync: a cancelled token throws, otherwise the object is found or not.
Load(r) ==
    /\ pc[r] = "load"
    /\ \/ Answer(r, Throw("Unknown"))
       \/ Object(r) = NoRow /\ Answer(r, Throw("KeyNotFound"))
       \/ Object(r) # NoRow /\ Goto(r, "lock")
    /\ UNCHANGED <<cases, holders, call, captured, log, settled, effect>>

-----------------------------------------------------------------------------
AfterLock(r) == IF call[r].kind \in Mutations THEN "mutate" ELSE "capture"

\* Mutant: every thread has a lock of its own.
LockShared(r) ==
    /\ pc[r] = "lock"
    /\ holders' = [holders EXCEPT ![call[r].number] = @ \cup {r}]
    /\ Goto(r, AfterLock(r))
    /\ UNCHANGED <<cases, call, captured, log, settled, effect>>

\* Mutate and ToSnapshot enter the object's lock.
Lock(r) ==
    /\ pc[r] = "lock"
    /\ holders[call[r].number] = {}
    /\ holders' = [holders EXCEPT ![call[r].number] = {r}]
    /\ Goto(r, AfterLock(r))
    /\ UNCHANGED <<cases, call, captured, log, settled, effect>>

\* Mutant: an exception leaves the method with the lock held.
RefuseHolding(r, value) ==
    /\ Answer(r, value)
    /\ UNCHANGED <<cases, holders>>

\* An exception leaves the lock.
Refuse(r, value) ==
    /\ Answer(r, value)
    /\ Release(r)
    /\ UNCHANGED cases

\* The Apply... function writes the field it changes; Mutate bumps the version after it.
Apply(r) ==
    /\ cases' = [cases EXCEPT ![call[r].number] = Applied(@, call[r])]
    /\ Goto(r, IF StateChanged(Object(r), call[r]) THEN "bump" ELSE "capture")
    /\ UNCHANGED holders

\* Mutant: the expected version is not compared with the object's.
MutateAnyVersion(r) ==
    /\ pc[r] = "mutate"
    /\ \/ ForbiddenTransition(Object(r), call[r]) /\ Refuse(r, Throw("InvalidOperation"))
       \/ InvalidArgument(call[r]) /\ Refuse(r, Throw("Argument"))
       \/ ~Refused(Object(r), call[r]) /\ Apply(r)
    /\ UNCHANGED <<call, captured, log, settled, effect>>

\* SupportCase.Mutate inside the lock: the version first, then the rule.
Mutate(r) ==
    LET case == Object(r)
    IN  /\ pc[r] = "mutate"
        /\ \/ /\ case.version # call[r].expected
              /\ Refuse(r, CaseConcurrency(case.version))
           \/ /\ case.version = call[r].expected
              /\ ForbiddenTransition(case, call[r])
              /\ Refuse(r, Throw("InvalidOperation"))
           \/ /\ case.version = call[r].expected
              /\ InvalidArgument(call[r])
              /\ Refuse(r, Throw("Argument"))
           \/ /\ case.version = call[r].expected
              /\ ~Refused(case, call[r])
              /\ Apply(r)
        /\ UNCHANGED <<call, captured, log, settled, effect>>

Bump(r) ==
    /\ pc[r] = "bump"
    /\ cases' = [cases EXCEPT ![call[r].number].version = @ + 1]
    /\ Goto(r, "capture")
    /\ UNCHANGED <<holders, call, captured, log, settled, effect>>

(***************************************************************************)
(* CreateSnapshotUnsafe, and out of the lock.  A read returns the snapshot; *)
(* a create logs it and returns it; a mutation has its unit of work ahead.  *)
(***************************************************************************)
Capture(r) ==
    LET snapshot == Object(r)
    IN  /\ pc[r] = "capture"
        /\ Release(r)
        /\ settled' = [settled EXCEPT ![call[r].number] = snapshot]
        /\ \/ /\ call[r].kind = "get"
              /\ Answer(r, Ok(snapshot))
              /\ UNCHANGED <<captured, log, effect>>
           \/ /\ call[r].kind = "create"
              /\ Answer(r, Ok(snapshot))
              /\ log' = [log EXCEPT ![r] = LogLevel(call[r], snapshot)]
              /\ UNCHANGED <<captured, effect>>
           \/ /\ call[r].kind \in Mutations
              /\ captured' = [captured EXCEPT ![r] = snapshot]
              /\ effect' = [effect EXCEPT ![r] = snapshot]
              /\ Goto(r, "save")
              /\ UNCHANGED log
        /\ UNCHANGED <<cases, call>>

\* SaveChangesAsync: the change is made already; only a cancelled token matters.
Save(r) ==
    /\ pc[r] = "save"
    /\ \/ /\ Answer(r, Throw("Unknown"))
          /\ UNCHANGED log
       \/ /\ call[r].kind = "create"
          /\ Goto(r, "lock")
          /\ UNCHANGED log
       \/ /\ call[r].kind # "create"
          /\ Answer(r, Ok(captured[r]))
          /\ log' = [log EXCEPT ![r] = LogLevel(call[r], captured[r])]
    /\ UNCHANGED <<cases, holders, call, captured, settled, effect>>

-----------------------------------------------------------------------------
Step(r) ==
    \/ Add(r)
    \/ Load(r)
    \/ Lock(r)
    \/ Mutate(r)
    \/ Bump(r)
    \/ Capture(r)
    \/ Save(r)

Next == \E r \in Requests : Begin(r) \/ Step(r)

Spec == Init /\ [][Next]_vars

\* Every thread runs.  A thread that waits for a lock gets it once the others
\* leave it free; the lock need not be fair, as each request makes one call.
Fairness == \A r \in Requests : WF_vars(Step(r))

FairSpec == Spec /\ Fairness

-----------------------------------------------------------------------------
TypeOK ==
    /\ cases \in [Numbers -> Case \cup {NoRow}]
    /\ holders \in [Numbers -> SUBSET Requests]
    /\ pc \in [Requests -> Labels]
    /\ call \in [Requests -> Call \cup {NoCall}]
    /\ captured \in [Requests -> Case \cup {NoRow}]
    /\ reply \in [Requests -> [outcome : Outcomes, snapshot : Case \cup {NoRow}, actual : Nat]]
    /\ log \in [Requests -> {"none", "Information", "Debug"}]
    /\ settled \in [Numbers -> Case \cup {NoRow}]
    /\ effect \in [Requests -> Case \cup {NoRow}]

\* "two callers cannot both update the same version (lost update)" (SupportCase.cs:8):
\* no two calls change the same case into the same version.
NoLostUpdate ==
    \A r, s \in Requests :
        /\ r # s
        /\ call[r] # NoCall /\ IsChange(effect[r], call[r])
        /\ call[s] # NoCall /\ IsChange(effect[s], call[s])
        /\ call[r].number = call[s].number
        => effect[r].version # effect[s].version

Successful(r) == reply[r].outcome = "Ok"

(***************************************************************************)
(* A version names one representation: any two snapshots that callers get   *)
(* of one case under one version are the same in every field, although the  *)
(* fields are written one at a time.  The API sends the version as a strong *)
(* entity tag, which promises just this.                                    *)
(***************************************************************************)
OneRepresentationPerVersion ==
    \A r, s \in Requests :
        /\ Successful(r) /\ Successful(s)
        /\ call[r].number = call[s].number
        /\ reply[r].snapshot.version = reply[s].snapshot.version
        => reply[r].snapshot = reply[s].snapshot

\* CreateCaseAsync "Returns a version-1 snapshot" (CaseService.cs:33).
CreateReturnsVersionOne ==
    \A r \in Requests :
        Successful(r) /\ call[r].kind = "create" => reply[r].snapshot.version = 1

\* Every call ends: no exception leaves a lock behind.
EveryCallEnds == \A r \in Requests : pc[r] # "ready" ~> pc[r] = "done"

-----------------------------------------------------------------------------
(***************************************************************************)
(* A write takes effect when the lock is released (a create when it is      *)
(* added), and the case in between is nobody's.  The snapshot a create      *)
(* returns is read later than its effect, so the promise is kept but for    *)
(* that snapshot (see CreateReturnsVersionOne).                             *)
(***************************************************************************)
Promised(r) ==
    IF Successful(r) /\ call[r].kind = "create" THEN Ok(effect[r]) ELSE reply[r]

VC == INSTANCE VersionedCases
          WITH cases <- settled, answer <- [r \in Requests |-> Promised(r)]

\* The in-memory service keeps the promise of VersionedCases.
ImplementsVersionedCases == VC!Spec
=============================================================================
