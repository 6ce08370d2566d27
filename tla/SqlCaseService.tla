----------------------------- MODULE SqlCaseService -----------------------------
(***************************************************************************)
(* CaseService over EfCaseRepository over SQL Server, as the API runs it:   *)
(* every request has a DbContext of its own, loads the case as a tracked    *)
(* entity, mutates that copy, and writes it back with an UPDATE guarded by  *)
(* the version it loaded.  Requests interleave at every database command.   *)
(*                                                                          *)
(* The connection is resilient (EnableRetryOnFailure): a command that fails *)
(* transiently is sent again, although the server may have executed it, or  *)
(* may still execute it.  A request may also be abandoned at any await.     *)
(***************************************************************************)
EXTENDS CaseCalls

CONSTANTS
    MaxRetryCount,  \* retries of one command by the execution strategy
    InitialRows     \* states a stored case may be in at the start

ASSUME MaxRetryCountAssumption == MaxRetryCount \in Nat
ASSUME InitialRowsAssumption == InitialRows \subseteq Case

VARIABLES
    db,        \* number -> committed row of SupportCases, or NoRow
    pc,        \* request -> where its method is
    call,      \* request -> the call it makes, or NoCall
    tracked,   \* request -> its DbContext's entry: original and current values
    attempts,  \* request -> failed attempts of the current command
    orphans,   \* request -> copies of its statement cut off from the client
               \*            that the server may still execute
    reply,     \* request -> how the call ended
    log,       \* request -> level of the event CaseService logged
    effect     \* request -> (history) the row as its statement left it

vars == <<db, pc, call, tracked, attempts, orphans, reply, log, effect>>

\* The three results name the rows a statement affected: one row, a row that
\* no longer has the original version, or a duplicate key.
Results == {"affected", "unaffected", "duplicate"}
Labels == {"ready", "construct", "load", "mutate", "write", "translate", "done"} \cup Results

Entry(original, current) == [original |-> original, current |-> current]
NoEntry == Entry(NoRow, NoRow)

Init ==
    /\ db \in [Numbers -> InitialRows \cup {NoRow}]
    /\ pc = [r \in Requests |-> "ready"]
    /\ call = [r \in Requests |-> NoCall]
    /\ tracked = [r \in Requests |-> NoEntry]
    /\ attempts = [r \in Requests |-> 0]
    /\ orphans = [r \in Requests |-> 0]
    /\ reply = [r \in Requests |-> Pending]
    /\ log = [r \in Requests |-> "none"]
    /\ effect = [r \in Requests |-> NoRow]

-----------------------------------------------------------------------------
Goto(r, label) ==
    /\ pc' = [pc EXCEPT ![r] = label]
    /\ UNCHANGED reply

Answer(r, value) ==
    /\ pc' = [pc EXCEPT ![r] = "done"]
    /\ reply' = [reply EXCEPT ![r] = value]

\* A command's attempts are counted from its first one.
NewCommand(r) == attempts' = [attempts EXCEPT ![r] = 0]

Begin(r) ==
    /\ pc[r] = "ready"
    /\ \E c \in Call :
          /\ call' = [call EXCEPT ![r] = c]
          /\ Goto(r, IF c.kind = "create" THEN "construct" ELSE "load")
    /\ UNCHANGED <<db, tracked, attempts, orphans, log, effect>>

\* CreateCaseAsync: the constructor, then Add stages an entity with no original.
Construct(r) ==
    /\ pc[r] = "construct"
    /\ \/ /\ ~ValidSeverity(call[r].severity)
          /\ Answer(r, Throw("Argument"))
          /\ UNCHANGED tracked
       \/ /\ ValidSeverity(call[r].severity)
          /\ tracked' = [tracked EXCEPT ![r] = Entry(NoRow, NewCase(call[r].severity))]
          /\ Goto(r, "write")
    /\ UNCHANGED <<db, call, attempts, orphans, log, effect>>

\* GetRequiredCaseAsync, and the rest of GetCaseByNumberAsync.
Load(r) ==
    LET row == db[call[r].number]
    IN  /\ pc[r] = "load"
        /\ \/ /\ row = NoRow
              /\ Answer(r, Throw("KeyNotFound"))
              /\ UNCHANGED tracked
           \/ /\ row # NoRow
              /\ call[r].kind = "get"
              /\ Answer(r, Ok(row))
              /\ UNCHANGED tracked
           \/ /\ row # NoRow
              /\ call[r].kind # "get"
              /\ tracked' = [tracked EXCEPT ![r] = Entry(row, row)]
              /\ Goto(r, "mutate")
        /\ NewCommand(r)
        /\ UNCHANGED <<db, call, orphans, log, effect>>

\* Mutant: the expected version is not compared with the loaded one.
MutateAnyVersion(r) ==
    LET case == tracked[r].current
    IN  /\ pc[r] = "mutate"
        /\ \/ /\ ForbiddenTransition(case, call[r])
              /\ Answer(r, Throw("InvalidOperation"))
              /\ UNCHANGED tracked
           \/ /\ InvalidArgument(call[r])
              /\ Answer(r, Throw("Argument"))
              /\ UNCHANGED tracked
           \/ /\ ~Refused(case, call[r])
              /\ tracked' = [tracked EXCEPT ![r].current = Mutated(case, call[r])]
              /\ Goto(r, "write")
        /\ UNCHANGED <<db, call, attempts, orphans, log, effect>>

\* SupportCase.Mutate on the request's own copy: the version first, then the rule.
Mutate(r) ==
    LET case == tracked[r].current
    IN  /\ pc[r] = "mutate"
        /\ \/ /\ case.version # call[r].expected
              /\ Answer(r, CaseConcurrency(case.version))
              /\ UNCHANGED tracked
           \/ /\ case.version = call[r].expected
              /\ ForbiddenTransition(case, call[r])
              /\ Answer(r, Throw("InvalidOperation"))
              /\ UNCHANGED tracked
           \/ /\ case.version = call[r].expected
              /\ InvalidArgument(call[r])
              /\ Answer(r, Throw("Argument"))
              /\ UNCHANGED tracked
           \/ /\ case.version = call[r].expected
              /\ ~Refused(case, call[r])
              /\ tracked' = [tracked EXCEPT ![r].current = Mutated(case, call[r])]
              /\ Goto(r, "write")
        /\ UNCHANGED <<db, call, attempts, orphans, log, effect>>

-----------------------------------------------------------------------------
(***************************************************************************)
(* The one statement SaveChanges sends: an INSERT for an added entity, an   *)
(* UPDATE of the modified columns WHERE the key and the original Version    *)
(* match.  SQL Server executes it atomically.                               *)
(***************************************************************************)
\* Mutant: the check on unchanged entities is forgotten.
NeverForced(entry) == FALSE

\* ForceConcurrencyCheckOnUnchangedCases marks Version of an unchanged entity.
VersionForced(entry) == entry.current = entry.original

IssuesUpdate(entry) == entry.current # entry.original \/ VersionForced(entry)

\* Mutants: Version is not a concurrency token, or is compared loosely.
MatchesKeyOnly(entry, row) == row # NoRow
MatchesNewer(entry, row) == row # NoRow /\ row.version >= entry.original.version

Matches(entry, row) == row # NoRow /\ row.version = entry.original.version

\* A column EF saw modified, or the one it left out of SET.
Column(original, current, stored) == IF current # original THEN current ELSE stored

UpdatedRow(entry, row) ==
    LET o == entry.original
        c == entry.current
    IN  [severity |-> Column(o.severity, c.severity, row.severity),
         isOpen |-> Column(o.isOpen, c.isOpen, row.isOpen),
         isExecutiveEscalation |->
             Column(o.isExecutiveEscalation, c.isExecutiveEscalation, row.isExecutiveEscalation),
         version |-> Column(o.version, c.version, row.version)]

\* Mutant: an INSERT that overwrites the row it finds.
ResultOfUpsert(entry, row) ==
    IF entry.original # NoRow /\ IssuesUpdate(entry) /\ ~Matches(entry, row)
    THEN "unaffected"
    ELSE "affected"

Result(entry, row) ==
    IF entry.original = NoRow
    THEN IF row = NoRow THEN "affected" ELSE "duplicate"
    ELSE IF IssuesUpdate(entry) => Matches(entry, row) THEN "affected" ELSE "unaffected"

RowAfter(entry, row) ==
    IF entry.original = NoRow THEN entry.current ELSE UpdatedRow(entry, row)

\* The server executes the request's statement.
RunStatement(r) ==
    LET number == call[r].number
        row == db[number]
        after == RowAfter(tracked[r], row)
    IN  IF Result(tracked[r], row) = "affected"
        THEN /\ db' = [db EXCEPT ![number] = after]
             /\ effect' = [effect EXCEPT ![r] = after]
        ELSE UNCHANGED <<db, effect>>

Execute(r) ==
    /\ pc[r] = "write"
    /\ RunStatement(r)
    /\ Goto(r, Result(tracked[r], db[call[r].number]))
    /\ UNCHANGED <<call, tracked, attempts, orphans, log>>

\* Mutant: a failed version check is retried instead of reported.
AcknowledgeRetryingConflict(r) ==
    /\ \/ /\ pc[r] = "affected"
          /\ Answer(r, Ok(tracked[r].current))
          /\ log' = [log EXCEPT ![r] = LogLevel(call[r], tracked[r].current)]
       \/ /\ pc[r] = "duplicate"
          /\ Answer(r, Throw("InvalidOperation"))
          /\ UNCHANGED log
       \/ /\ pc[r] = "unaffected"
          /\ Goto(r, "write")
          /\ UNCHANGED log
    /\ UNCHANGED <<db, call, tracked, attempts, orphans, effect>>

\* SaveChangesAsync gets the statement's result.
Acknowledge(r) ==
    /\ \/ /\ pc[r] = "affected"
          /\ Answer(r, Ok(tracked[r].current))
          /\ log' = [log EXCEPT ![r] = LogLevel(call[r], tracked[r].current)]
          /\ UNCHANGED attempts
       \/ /\ pc[r] = "duplicate"
          /\ Answer(r, Throw("InvalidOperation"))
          /\ UNCHANGED <<attempts, log>>
       \/ /\ pc[r] = "unaffected"
          /\ Goto(r, "translate")
          /\ NewCommand(r)
          /\ UNCHANGED log
    /\ UNCHANGED <<db, call, tracked, orphans, effect>>

\* Mutant: the conflict reports the version the entity was loaded with.
TranslateOriginal(r) ==
    /\ pc[r] = "translate"
    /\ Answer(r, CaseConcurrency(tracked[r].original.version))
    /\ UNCHANGED <<db, call, tracked, attempts, orphans, log, effect>>

\* TranslateConcurrencyExceptionAsync reads the row again to name its version.
Translate(r) ==
    LET row == db[call[r].number]
    IN  /\ pc[r] = "translate"
        /\ Answer(r, IF row = NoRow THEN Throw("KeyNotFound") ELSE CaseConcurrency(row.version))
        /\ UNCHANGED <<db, call, tracked, attempts, orphans, log, effect>>

-----------------------------------------------------------------------------
\* A command is on its way to the server, or its result on the way back.
AtDatabase(r) == pc[r] \in {"load", "write", "translate"} \cup Results

\* A statement cut off before its result was known may execute later.
CutOff(r) ==
    \/ UNCHANGED orphans
    \/ pc[r] = "write" /\ orphans' = [orphans EXCEPT ![r] = @ + 1]

\* The execution strategy sends the command again after a transient failure.
Retry(r) ==
    /\ AtDatabase(r)
    /\ attempts[r] < MaxRetryCount
    /\ attempts' = [attempts EXCEPT ![r] = @ + 1]
    /\ Goto(r, IF pc[r] \in Results THEN "write" ELSE pc[r])
    /\ CutOff(r)
    /\ UNCHANGED <<db, call, tracked, log, effect>>

(***************************************************************************)
(* The call ends without an answer about the case: the retries ran out, the *)
(* failure was not transient, the caller's token was cancelled at an await  *)
(* or the process died.                                                     *)
(***************************************************************************)
GiveUp(r) ==
    /\ AtDatabase(r)
    /\ Answer(r, Throw("Unknown"))
    /\ CutOff(r)
    /\ UNCHANGED <<db, call, tracked, attempts, log, effect>>

ExecuteOrphan(r) ==
    /\ orphans[r] > 0
    /\ orphans' = [orphans EXCEPT ![r] = @ - 1]
    /\ RunStatement(r)
    /\ UNCHANGED <<pc, call, tracked, attempts, reply, log>>

-----------------------------------------------------------------------------
Step(r) ==
    \/ Construct(r)
    \/ Load(r)
    \/ Mutate(r)
    \/ Execute(r)
    \/ Acknowledge(r)
    \/ Translate(r)

Next ==
    \E r \in Requests :
        \/ Begin(r)
        \/ Step(r)
        \/ Retry(r)
        \/ GiveUp(r)
        \/ ExecuteOrphan(r)

Spec == Init /\ [][Next]_vars

\* The thread pool runs every continuation, and a command answers or times out.
Fairness == \A r \in Requests : WF_vars(Step(r))

FairSpec == Spec /\ Fairness

-----------------------------------------------------------------------------
TypeOK ==
    /\ db \in [Numbers -> Case \cup {NoRow}]
    /\ pc \in [Requests -> Labels]
    /\ call \in [Requests -> Call \cup {NoCall}]
    /\ tracked \in [Requests -> [original : Case \cup {NoRow}, current : Case \cup {NoRow}]]
    /\ attempts \in [Requests -> 0..MaxRetryCount]
    /\ orphans \in [Requests -> Nat]
    /\ reply \in [Requests -> [outcome : Outcomes, snapshot : Case \cup {NoRow}, actual : Nat]]
    /\ log \in [Requests -> {"none", "Information", "Debug"}]
    /\ effect \in [Requests -> Case \cup {NoRow}]

Row(r) == db[call[r].number]

(***************************************************************************)
(* The version is a fingerprint of the row: the row a request loaded never  *)
(* goes back in version, and while it still has the loaded version it is    *)
(* the row that was loaded, in every column.  This is why it is enough for  *)
(* the UPDATE to name the modified columns and the original Version.        *)
(***************************************************************************)
Pinned(r) ==
    LET original == tracked[r].original
    IN  original # NoRow =>
            /\ Row(r) # NoRow
            /\ Row(r).version >= original.version
            /\ Row(r).version = original.version => Row(r) = original

VersionPinsRow == \A r \in Requests : Pinned(r)

(***************************************************************************)
(* A write that is reported successful was applied, and left the row        *)
(* exactly as the snapshot says, although the snapshot was computed from    *)
(* the request's own copy before the statement was sent.  A no-op over a    *)
(* stale copy is the case ForceConcurrencyCheckOnUnchangedCases exists for. *)
(***************************************************************************)
Truthful(r) ==
    reply[r].outcome = "Ok" /\ call[r].kind # "get" =>
        effect[r] # NoRow /\ effect[r] = reply[r].snapshot

TruthfulSuccess == \A r \in Requests : Truthful(r)

\* No lost update: no two calls change the same case into the same version,
\* whatever they loaded, however often their statements were sent.
NoLostUpdate ==
    \A r, s \in Requests :
        /\ r # s
        /\ call[r] # NoCall /\ IsChange(effect[r], call[r])
        /\ call[s] # NoCall /\ IsChange(effect[s], call[s])
        /\ call[r].number = call[s].number
        => effect[r].version # effect[s].version

\* Callers that read or wrote a case under one version got one representation of it, which
\* is what the tag made of the version claims, whatever was retried or executed late.
OneRepresentationPerVersion ==
    \A r, s \in Requests :
        /\ reply[r].outcome = "Ok" /\ reply[s].outcome = "Ok"
        /\ call[r].number = call[s].number
        /\ reply[r].snapshot.version = reply[s].snapshot.version
        => reply[r].snapshot = reply[s].snapshot

\* A row's version counts its changes: a row is inserted at version 1, and any
\* change of any column moves the version by exactly one (SupportCase.cs:23).
VersionCountsChanges ==
    [][\A n \in Numbers :
          db'[n] # db[n] =>
              \/ db[n] = NoRow /\ db'[n].version = 1
              \/ db[n] # NoRow /\ db'[n] # NoRow /\ db'[n].version = db[n].version + 1]_vars

\* CaseService logs after the commit, once for each write it reports and for nothing else:
\* Information for a write that changed the row, Debug for one that was applied and
\* changed nothing (README.md:155).
LogTells(r) ==
    /\ log[r] # "none" <=> reply[r].outcome = "Ok" /\ call[r].kind # "get"
    /\ log[r] # "none" =>
           /\ effect[r] # NoRow
           /\ log[r] = "Information" <=> IsChange(effect[r], call[r])

LogTellsCommittedChange == \A r \in Requests : LogTells(r)

\* A 412 names a version the case has reached that is not the version sent,
\* although the row is read again after the failed UPDATE.
ConflictTells(r) ==
    reply[r].outcome = "CaseConcurrency" =>
        /\ reply[r].actual # call[r].expected
        /\ Row(r) # NoRow
        /\ reply[r].actual \in 1..Row(r).version

ConflictReportsOtherVersion == \A r \in Requests : ConflictTells(r)

Answered(r) == reply[r].outcome \in Refusals \cup {"Ok"}

\* A statement that is sent again, or that the server executes after its client
\* lost it, changes nothing once the call was applied or its caller was answered.
AppliedOnce ==
    [][\A r \in Requests :
          /\ effect[r] # NoRow \/ Answered(r)
          /\ Execute(r) \/ ExecuteOrphan(r)
          => UNCHANGED <<db, effect>>]_vars

(***************************************************************************)
(* A refused call changed nothing, unless its refusal is about its own      *)
(* change: a command that is sent again can find the row that its first     *)
(* attempt wrote.  Then it is a conflict, and names a version that has the  *)
(* change, or a create that is told that the case exists.  Every other      *)
(* refusal, a 412 with a version no newer than the one sent among them,     *)
(* tells that nothing was changed.                                          *)
(***************************************************************************)
AdmitsItsChange(r) ==
    reply[r].outcome \in Refusals /\ IsChange(effect[r], call[r]) =>
        \/ reply[r].outcome = "CaseConcurrency" /\ reply[r].actual >= effect[r].version
        \/ reply[r].outcome = "InvalidOperation" /\ call[r].kind = "create"

RefusalsAdmitTheirChange == \A r \in Requests : AdmitsItsChange(r)

\* A 412 says nothing was changed: README.md:78 ("stale -> 412, ... success ->
\* 200 with the new ETag") and the test
\* Stale_IfMatch_Returns412_WithVersionDetails_AndNoMutation, "The stale request
\* must not have changed severity." (CasesMutationApiTests.cs:223).
ConflictMeansNoMutation ==
    \A r \in Requests :
        reply[r].outcome = "CaseConcurrency" => ~IsChange(effect[r], call[r])

\* Every call that is made is answered or given up, whatever the others do.
EveryCallEnds == \A r \in Requests : pc[r] # "ready" ~> pc[r] = "done"

-----------------------------------------------------------------------------
(***************************************************************************)
(* The inductive invariant.  VersionPinsRow alone is not inductive: it      *)
(* needs to know that a statement on its way carries the mutation of the    *)
(* row it loaded, which has to be remembered from Mutate to the last copy   *)
(* of the statement, and that what was applied stays under the row's        *)
(* version.                                                                 *)
(***************************************************************************)
\* Where a request is decides what it has made so far.
Progress(r) ==
    /\ pc[r] = "ready" <=> call[r] = NoCall
    /\ pc[r] = "done" <=> reply[r].outcome # "Pending"
    /\ pc[r] # "done" => reply[r] = Pending
    /\ pc[r] = "construct" => call[r].kind = "create"
    /\ pc[r] = "load" => call[r].kind # "create"
    /\ pc[r] = "mutate" =>
           /\ call[r].kind \in Mutations
           /\ tracked[r].original # NoRow
           /\ tracked[r].current = tracked[r].original
    /\ pc[r] \in {"ready", "construct", "load", "mutate"} => orphans[r] = 0 /\ effect[r] = NoRow
    /\ pc[r] \in {"ready", "construct", "load"} => tracked[r] = NoEntry

\* The statement has been staged: it is sent, or was, or left its mark.
Sent(r) ==
    \/ pc[r] \in {"write", "translate"} \cup Results
    \/ orphans[r] > 0
    \/ effect[r] # NoRow

Staged(r) ==
    \/ /\ call[r].kind = "create"
       /\ ValidSeverity(call[r].severity)
       /\ tracked[r] = Entry(NoRow, NewCase(call[r].severity))
    \/ /\ call[r].kind \in Mutations
       /\ tracked[r].original # NoRow
       /\ tracked[r].original.version = call[r].expected
       /\ ~Refused(tracked[r].original, call[r])
       /\ tracked[r].current = Mutated(tracked[r].original, call[r])

\* The statement was applied, and the row has only moved on since.
WasApplied(r) ==
    /\ effect[r] = tracked[r].current
    /\ Row(r) # NoRow
    /\ Row(r).version >= effect[r].version

\* The statement can never be applied again.
Spent(r) ==
    /\ Row(r) # NoRow
    /\ tracked[r].original # NoRow => Row(r).version > tracked[r].original.version

Statement(r) ==
    /\ Progress(r)
    /\ Sent(r) => Staged(r)
    /\ effect[r] # NoRow => WasApplied(r)
    /\ pc[r] = "affected" => effect[r] # NoRow
    /\ pc[r] \in {"unaffected", "translate"} => call[r].kind \in Mutations
    /\ pc[r] = "duplicate" => call[r].kind = "create"
    /\ pc[r] \in {"unaffected", "duplicate", "translate"} => Spent(r)
    /\ reply[r].outcome \in Refusals /\ Sent(r) => Spent(r)

Statements == \A r \in Requests : Statement(r)

IInv ==
    /\ TypeOK
    /\ Statements
    /\ VersionPinsRow
    /\ TruthfulSuccess
    /\ NoLostUpdate
    /\ LogTellsCommittedChange
    /\ ConflictReportsOtherVersion

-----------------------------------------------------------------------------
VC == INSTANCE VersionedCases WITH cases <- db, answer <- reply

\* The SQL-backed service keeps the promise of VersionedCases: each statement
\* that applies is the one instant its call takes effect.
ImplementsVersionedCases == VC!Spec
=============================================================================
