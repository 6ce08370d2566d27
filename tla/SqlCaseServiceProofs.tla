-------------------------- MODULE SqlCaseServiceProofs --------------------------
(***************************************************************************)
(* What holds of SqlCaseService for any number of requests, case numbers,   *)
(* versions, retries and stored cases.                                      *)
(***************************************************************************)
EXTENDS SqlCaseService, CaseCallsProofs

-----------------------------------------------------------------------------
\* Over the row it was made from, an UPDATE writes exactly the current values.
LEMMA UpdateOfOriginal ==
    ASSUME NEW o \in Case, NEW c \in Case
    PROVE  UpdatedRow(Entry(o, c), o) = c
  BY DEF UpdatedRow, Entry, Column, Case

-----------------------------------------------------------------------------
\* What one statement does.

\* No step takes a row away, and a row that changes moves to the next version.
Moves(n) ==
    \/ db'[n] = db[n]
    \/ db[n] = NoRow /\ db'[n] \in Case /\ db'[n].version = 1
    \/ db[n] \in Case /\ db'[n] \in Case /\ db'[n].version = db[n].version + 1

\* The statement inserts the new case, or turns the row it loaded into the
\* mutated one.
AppliesTo(r, row) ==
    \/ /\ tracked[r].original = NoRow
       /\ row = NoRow
       /\ tracked[r].current.version = 1
    \/ /\ tracked[r].original # NoRow
       /\ row = tracked[r].original
       /\ \/ tracked[r].current.version = row.version + 1
          \/ tracked[r].current = row

\* What a staged statement would write: version 1, the next version, or the
\* loaded row itself.
LEMMA StagedEntry ==
    ASSUME TypeOK, NEW r \in Requests, call[r] \in Call, Staged(r)
    PROVE  /\ tracked[r].current \in Case
           /\ tracked[r] = Entry(tracked[r].original, tracked[r].current)
           /\ \/ /\ call[r].kind = "create"
                 /\ tracked[r].original = NoRow
                 /\ tracked[r].current.version = 1
              \/ /\ call[r].kind \in Mutations
                 /\ tracked[r].original \in Case
                 /\ tracked[r].original.version = call[r].expected
                 /\ \/ tracked[r].current.version = tracked[r].original.version + 1
                    \/ tracked[r].current = tracked[r].original
                 /\ call[r].kind \in {"close", "reopen"} =>
                        tracked[r].current.version = tracked[r].original.version + 1
  <1>1. tracked[r] \in [original : Case \cup {NoRow}, current : Case \cup {NoRow}]
    BY DEF TypeOK
  <1>2. tracked[r] = Entry(tracked[r].original, tracked[r].current)
    BY <1>1 DEF Entry
  <1>3. CASE /\ call[r].kind = "create"
             /\ ValidSeverity(call[r].severity)
             /\ tracked[r] = Entry(NoRow, NewCase(call[r].severity))
    <2>1. tracked[r].original = NoRow /\ tracked[r].current = NewCase(call[r].severity)
      BY <1>3 DEF Entry
    <2>2. call[r].severity \in Int
      BY CallFields
    <2>3. QED
      BY <1>2, <1>3, <2>1, <2>2, NewCaseIsCase
  <1>4. CASE /\ call[r].kind \in Mutations
             /\ tracked[r].original # NoRow
             /\ tracked[r].original.version = call[r].expected
             /\ ~Refused(tracked[r].original, call[r])
             /\ tracked[r].current = Mutated(tracked[r].original, call[r])
    <2>1. tracked[r].original \in Case
      BY <1>1, <1>4
    <2>2. QED
      BY <1>2, <1>4, <2>1, MutatedCase
  <1>5. QED
    BY <1>3, <1>4 DEF Staged

\* A staged statement writes the case its request holds, or nothing.
LEMMA StatementEffect ==
    ASSUME TypeOK, NEW r \in Requests, call[r] \in Call, Staged(r), Pinned(r),
           RunStatement(r)
    PROVE  \/ /\ Result(tracked[r], Row(r)) = "affected"
              /\ db' = [db EXCEPT ![call[r].number] = tracked[r].current]
              /\ effect' = [effect EXCEPT ![r] = tracked[r].current]
              /\ AppliesTo(r, Row(r))
           \/ /\ Result(tracked[r], Row(r)) = "unaffected"
              /\ call[r].kind \in Mutations
              /\ Spent(r)
              /\ UNCHANGED <<db, effect>>
           \/ /\ Result(tracked[r], Row(r)) = "duplicate"
              /\ call[r].kind = "create"
              /\ Spent(r)
              /\ UNCHANGED <<db, effect>>
  <1> DEFINE o == tracked[r].original
             c == tracked[r].current
  <1>0. c \in Case /\ tracked[r] = Entry(o, c)
    BY StagedEntry
  <1>1. Row(r) \in Case \cup {NoRow}
    BY CallFields DEF TypeOK, Row
  <1>2. CASE call[r].kind = "create" /\ o = NoRow /\ c.version = 1
    <2>1. CASE Row(r) = NoRow
      <3>1. Result(tracked[r], Row(r)) = "affected" /\ RowAfter(tracked[r], Row(r)) = c
        BY <1>2, <2>1 DEF Result, RowAfter
      <3>2. QED
        BY <1>2, <2>1, <3>1 DEF RunStatement, AppliesTo, Row
    <2>2. CASE Row(r) # NoRow
      <3>1. Result(tracked[r], Row(r)) = "duplicate"
        BY <1>2, <2>2 DEF Result
      <3>2. QED
        BY <1>2, <2>2, <3>1 DEF RunStatement, Spent, Row
    <2>3. QED
      BY <2>1, <2>2
  <1>3. CASE /\ call[r].kind \in Mutations
             /\ o \in Case
             /\ \/ c.version = o.version + 1
                \/ c = o
    <2>0. o # NoRow /\ IssuesUpdate(tracked[r])
      BY <1>3, NoRowAssumption DEF IssuesUpdate, VersionForced
    <2>1. Row(r) \in Case /\ Row(r).version >= o.version
      BY <1>1, <2>0 DEF Pinned
    <2>2. CASE Row(r).version = o.version
      <3>1. Row(r) = o
        BY <2>0, <2>2 DEF Pinned
      <3>2. Result(tracked[r], Row(r)) = "affected"
        BY <2>0, <3>1 DEF Result, Matches
      <3>3. RowAfter(tracked[r], Row(r)) = UpdatedRow(Entry(o, c), o)
        BY <1>0, <2>0, <3>1 DEF RowAfter
      <3>4. RowAfter(tracked[r], Row(r)) = c
        BY <1>0, <1>3, <3>3, UpdateOfOriginal
      <3>5. AppliesTo(r, Row(r))
        BY <1>3, <2>0, <3>1 DEF AppliesTo
      <3>6. QED
        BY <3>2, <3>4, <3>5 DEF RunStatement, Row
    <2>3. CASE Row(r).version # o.version
      <3>1. Result(tracked[r], Row(r)) = "unaffected"
        BY <2>0, <2>3 DEF Result, Matches
      <3>2. Row(r).version > o.version
        BY <1>3, <2>1, <2>3 DEF Case
      <3>3. Spent(r)
        BY <2>1, <3>2, NoRowAssumption DEF Spent
      <3>4. QED
        BY <1>3, <3>1, <3>3 DEF RunStatement, Row
    <2>4. QED
      BY <2>2, <2>3
  <1>4. QED
    BY <1>2, <1>3, StagedEntry

-----------------------------------------------------------------------------
\* The inductive invariant, request by request.

Local(r) ==
    /\ Statement(r)
    /\ Pinned(r)
    /\ Truthful(r)
    /\ LogTells(r)
    /\ ConflictTells(r)

\* All of IInv but NoLostUpdate speaks of one request at a time.
LEMMA IInvIsLocal ==
    IInv <=> TypeOK /\ NoLostUpdate /\ \A r \in Requests : Local(r)
  BY DEF IInv, Local, Statements, VersionPinsRow, TruthfulSuccess,
         LogTellsCommittedChange, ConflictReportsOtherVersion

\* Nothing has been sent or answered at the start.
LEMMA InitIInv == Init => IInv
  <1> SUFFICES ASSUME Init PROVE IInv
    OBVIOUS
  <1>1. TypeOK
    BY InitialRowsAssumption, MaxRetryCountAssumption
       DEF Init, TypeOK, Labels, NoEntry, Entry, Pending, Reply, Outcomes
  <1>2. NoLostUpdate
    BY DEF Init, NoLostUpdate
  <1>3. ASSUME NEW r \in Requests PROVE Local(r)
    <2>1. /\ pc[r] = "ready" /\ call[r] = NoCall /\ tracked[r] = NoEntry
          /\ orphans[r] = 0 /\ reply[r] = Pending /\ log[r] = "none" /\ effect[r] = NoRow
      BY DEF Init
    <2>2. tracked[r].original = NoRow /\ reply[r].outcome = "Pending"
      BY <2>1 DEF NoEntry, Entry, Pending, Reply
    <2>3. Statement(r)
      BY <2>1, <2>2 DEF Statement, Progress, Sent, Results, Refusals
    <2>4. QED
      BY <2>1, <2>2, <2>3 DEF Local, Pinned, Truthful, LogTells, ConflictTells
  <1>4. QED
    BY <1>1, <1>2, <1>3, IInvIsLocal

\* A request that is past its start has made a call.
LEMMA MadeCall ==
    ASSUME TypeOK, NEW r \in Requests, Statement(r), pc[r] # "ready"
    PROVE  call[r] \in Call /\ call[r].number \in Numbers
  <1>1. call[r] \in Call
    BY DEF TypeOK, Statement, Progress
  <1>2. QED
    BY <1>1, CallFields

\* A request whose statement the server runs has staged it.
LEMMA Running ==
    ASSUME IInv, NEW r \in Requests, pc[r] = "write" \/ orphans[r] > 0
    PROVE  /\ call[r] \in Call
           /\ call[r].number \in Numbers
           /\ Staged(r)
           /\ Pinned(r)
  <1>1. Statement(r) /\ Pinned(r) /\ TypeOK
    BY DEF IInv, Statements, VersionPinsRow
  <1>2. pc[r] # "ready" /\ Staged(r)
    BY <1>1 DEF Statement, Progress, Sent
  <1>3. QED
    BY <1>1, <1>2, MadeCall

\* Only statements touch the table.
LEMMA RowsMove ==
    ASSUME IInv, [Next]_vars
    PROVE  \A n \in Numbers : Moves(n)
  <1>1. CASE UNCHANGED db
    BY <1>1 DEF Moves
  <1>2. ASSUME NEW r \in Requests, Execute(r) \/ ExecuteOrphan(r)
        PROVE  \A n \in Numbers : Moves(n)
    <2>1. RunStatement(r) /\ (pc[r] = "write" \/ orphans[r] > 0)
      BY <1>2 DEF Execute, ExecuteOrphan
    <2>2. /\ TypeOK /\ call[r] \in Call /\ call[r].number \in Numbers
          /\ Staged(r) /\ Pinned(r)
      BY <2>1, Running DEF IInv
    <2>3. CASE UNCHANGED <<db, effect>>
      BY <2>3 DEF Moves
    <2>4. CASE /\ db' = [db EXCEPT ![call[r].number] = tracked[r].current]
               /\ AppliesTo(r, Row(r))
      <3>1. db \in [Numbers -> Case \cup {NoRow}]
        BY <2>2 DEF TypeOK
      <3>2. db'[call[r].number] = tracked[r].current
        BY <2>2, <2>4, <3>1
      <3>3. \A n \in Numbers : n # call[r].number => db'[n] = db[n]
        BY <2>4, <3>1
      <3>4. tracked[r].current \in Case /\ tracked[r].original \in Case \cup {NoRow}
        BY <2>2, StagedEntry
      <3>5. Moves(call[r].number)
        BY <2>4, <3>2, <3>4 DEF AppliesTo, Moves, Row
      <3>6. QED
        BY <3>3, <3>5 DEF Moves
    <2>5. QED
      BY <2>1, <2>2, <2>3, <2>4, StatementEffect
  <1>3. QED
    <2>1. CASE UNCHANGED vars
      BY <1>1, <2>1 DEF vars
    <2>2. ASSUME NEW r \in Requests, Begin(r) \/ Construct(r) \/ Load(r) \/ Mutate(r)
                    \/ Acknowledge(r) \/ Translate(r) \/ Retry(r) \/ GiveUp(r)
          PROVE  UNCHANGED db
      BY <2>2 DEF Begin, Construct, Load, Mutate, Acknowledge, Translate, Retry, GiveUp
    <2>3. QED
      BY <1>1, <1>2, <2>1, <2>2 DEF Next, Step

-----------------------------------------------------------------------------
\* A step of one request, seen by the others: their row may only have moved on.

Grows(r) ==
    Row(r) # NoRow =>
        /\ Row(r)' # NoRow
        /\ Row(r)'.version >= Row(r).version
        /\ Row(r)'.version = Row(r).version => Row(r)' = Row(r)

\* A request's row moves as all rows do.
LEMMA RowGrows ==
    ASSUME IInv, NEW r \in Requests, call[r] \in Call, call'[r] = call[r],
           \A n \in Numbers : Moves(n)
    PROVE  /\ Grows(r)
           /\ Row(r) \in Case \cup {NoRow}
           /\ Row(r)' \in Case \cup {NoRow}
  <1>1. call[r].number \in Numbers
    BY CallFields
  <1>2. Row(r) = db[call[r].number] /\ Row(r)' = db'[call[r].number]
    BY DEF Row
  <1>3. Row(r) \in Case \cup {NoRow}
    BY <1>1, <1>2 DEF IInv, TypeOK
  <1>4. Row(r) \in Case => Row(r).version \in Nat
    BY DEF Case
  <1>5. Moves(call[r].number)
    BY <1>1
  <1>6. QED
    BY <1>2, <1>3, <1>4, <1>5, NoRowAssumption DEF Grows, Moves

\* What another request's step does to the rows keeps a request's own invariant.
LEMMA OthersKeep ==
    ASSUME IInv, NEW r \in Requests, \A n \in Numbers : Moves(n),
           pc'[r] = pc[r], call'[r] = call[r], tracked'[r] = tracked[r],
           orphans'[r] = orphans[r], reply'[r] = reply[r],
           log'[r] = log[r], effect'[r] = effect[r]
    PROVE  Local(r)'
  <1>1. TypeOK /\ Local(r)
    BY IInvIsLocal
  <1>2. Progress(r)' /\ (Sent(r)' <=> Sent(r)) /\ (Staged(r)' <=> Staged(r))
    BY <1>1 DEF Local, Statement, Progress, Sent, Staged, Results, NoEntry, Entry, Pending, Reply
  <1>3. CASE call[r] = NoCall
    <2>1. /\ pc[r] = "ready" /\ reply[r] = Pending /\ tracked[r] = NoEntry
          /\ orphans[r] = 0 /\ effect[r] = NoRow /\ log[r] = "none"
      BY <1>1, <1>3 DEF Local, Statement, Progress, LogTells
    <2>2. tracked[r].original = NoRow /\ reply[r].outcome = "Pending"
      BY <2>1 DEF NoEntry, Entry, Pending, Reply
    <2>3. ~Sent(r)
      BY <2>1 DEF Sent, Results
    <2>4. QED
      BY <1>2, <2>1, <2>2, <2>3
         DEF Local, Statement, Pinned, Truthful, LogTells, ConflictTells
  <1>4. CASE call[r] # NoCall
    <2>1. call[r] \in Call
      BY <1>1, <1>4 DEF TypeOK
    <2>2. Grows(r) /\ Row(r) \in Case \cup {NoRow} /\ Row(r)' \in Case \cup {NoRow}
      BY <2>1, RowGrows
    <2>3. \A c \in Case : c.version \in Nat
      BY DEF Case
    <2>4. /\ tracked[r].original \in Case \cup {NoRow}
          /\ effect[r] \in Case \cup {NoRow}
          /\ reply[r].actual \in Nat
      BY <1>1 DEF TypeOK
    <2>5. Pinned(r)'
      BY <1>1, <2>2, <2>3, <2>4 DEF Local, Pinned, Grows
    <2>6. Spent(r) => Spent(r)'
      BY <2>2, <2>3, <2>4 DEF Spent, Grows
    <2>7. effect[r] # NoRow /\ WasApplied(r) => WasApplied(r)'
      BY <2>2, <2>3, <2>4 DEF WasApplied, Grows
    <2>8. Statement(r)'
      BY <1>1, <1>2, <2>6, <2>7 DEF Local, Statement
    <2>9. Truthful(r)' /\ LogTells(r)'
      BY <1>1 DEF Local, Truthful, LogTells
    <2>10. ConflictTells(r)'
      BY <1>1, <2>2, <2>3, <2>4 DEF Local, ConflictTells, Grows
    <2>11. QED
      BY <2>5, <2>8, <2>9, <2>10 DEF Local
  <1>5. QED
    BY <1>3, <1>4

-----------------------------------------------------------------------------
\* Type correctness, one step per action.

\* Every reply is a reply.
LEMMA ReplyTypes ==
    /\ Pending \in [outcome : Outcomes, snapshot : Case \cup {NoRow}, actual : Nat]
    /\ \A c \in Case : Ok(c) \in [outcome : Outcomes, snapshot : Case \cup {NoRow}, actual : Nat]
    /\ \A v \in Nat : CaseConcurrency(v) \in
           [outcome : Outcomes, snapshot : Case \cup {NoRow}, actual : Nat]
    /\ \A x \in Refusals \cup {"Unknown"} : Throw(x) \in
           [outcome : Outcomes, snapshot : Case \cup {NoRow}, actual : Nat]
  BY DEF Pending, Ok, CaseConcurrency, Throw, Reply, Outcomes, Refusals

\* Every step keeps the types.
LEMMA TypeStep ==
    ASSUME IInv, NEW r \in Requests,
           \/ Begin(r) \/ Step(r) \/ Retry(r) \/ GiveUp(r) \/ ExecuteOrphan(r)
    PROVE  TypeOK'
  <1>0. TypeOK /\ Local(r) /\ Statement(r) /\ Pinned(r)
    BY IInvIsLocal DEF Local
  <1>1. pc[r] # "ready" => call[r] \in Call /\ call[r].number \in Numbers
    BY <1>0, MadeCall
  <1>2. Row(r) = db[call[r].number]
    BY DEF Row
  <1>3. \A c \in Case : c.version \in Nat
    BY DEF Case
  <1>4. CASE Begin(r)
    BY <1>0, <1>4 DEF Begin, TypeOK, Goto, Labels
  <1>5. CASE Construct(r)
    <2>1. ValidSeverity(call[r].severity) => NewCase(call[r].severity) \in Case
      BY <1>1, <1>5, CallFields, NewCaseIsCase DEF Construct
    <2>2. CASE ~ValidSeverity(call[r].severity)
      <3>1. /\ Answer(r, Throw("Argument"))
            /\ UNCHANGED <<db, call, tracked, attempts, orphans, log, effect>>
        BY <1>5, <2>2 DEF Construct
      <3>2. QED
        BY <1>0, <3>1, ReplyTypes DEF TypeOK, Answer, Labels, Refusals
    <2>3. CASE ValidSeverity(call[r].severity)
      <3>1. /\ Goto(r, "write")
            /\ tracked' = [tracked EXCEPT ![r] = Entry(NoRow, NewCase(call[r].severity))]
            /\ UNCHANGED <<db, call, attempts, orphans, log, effect>>
        BY <1>5, <2>3 DEF Construct
      <3>2. QED
        BY <1>0, <2>1, <2>3, <3>1 DEF TypeOK, Goto, Labels, Entry
    <2>4. QED
      BY <2>2, <2>3
  <1>6. CASE Load(r)
    <2>1. db[call[r].number] \in Case \cup {NoRow}
      BY <1>0, <1>1, <1>6 DEF Load, TypeOK
    <2>2. attempts' \in [Requests -> 0..MaxRetryCount]
      BY <1>0, <1>6, MaxRetryCountAssumption DEF Load, NewCommand, TypeOK
    <2>3. CASE db[call[r].number] = NoRow
      <3>1. /\ Answer(r, Throw("KeyNotFound"))
            /\ UNCHANGED <<db, call, tracked, orphans, log, effect>>
        BY <1>6, <2>3 DEF Load
      <3>2. QED
        BY <1>0, <2>2, <3>1, ReplyTypes DEF TypeOK, Answer, Labels, Refusals
    <2>4. CASE db[call[r].number] # NoRow /\ call[r].kind = "get"
      <3>1. /\ Answer(r, Ok(db[call[r].number]))
            /\ UNCHANGED <<db, call, tracked, orphans, log, effect>>
        BY <1>6, <2>4 DEF Load
      <3>2. QED
        BY <1>0, <2>1, <2>2, <2>4, <3>1, ReplyTypes DEF TypeOK, Answer, Labels
    <2>5. CASE db[call[r].number] # NoRow /\ call[r].kind # "get"
      <3>1. /\ Goto(r, "mutate")
            /\ tracked' = [tracked EXCEPT ![r] = Entry(db[call[r].number], db[call[r].number])]
            /\ UNCHANGED <<db, call, orphans, log, effect>>
        BY <1>6, <2>5 DEF Load
      <3>2. QED
        BY <1>0, <2>1, <2>2, <2>5, <3>1 DEF TypeOK, Goto, Labels, Entry
    <2>6. QED
      BY <2>3, <2>4, <2>5
  <1>7. CASE Mutate(r)
    <2>1. /\ call[r] \in Call /\ call[r].kind \in Mutations
          /\ tracked[r].original \in Case /\ tracked[r].current = tracked[r].original
      BY <1>0, <1>1, <1>7 DEF Mutate, Statement, Progress, TypeOK
    <2>2. ~Refused(tracked[r].current, call[r]) => Mutated(tracked[r].current, call[r]) \in Case
      BY <2>1, MutatedCase
    <2>3. CASE Goto(r, "write") /\ ~Refused(tracked[r].current, call[r])
               /\ tracked' = [tracked EXCEPT ![r].current = Mutated(tracked[r].current, call[r])]
      <3>1. tracked' \in [Requests -> [original : Case \cup {NoRow}, current : Case \cup {NoRow}]]
        BY <1>0, <2>2, <2>3 DEF TypeOK
      <3>2. QED
        BY <1>0, <1>7, <2>3, <3>1 DEF Mutate, TypeOK, Goto, Labels
    <2>4. ASSUME NEW value \in [outcome : Outcomes, snapshot : Case \cup {NoRow}, actual : Nat],
                 Answer(r, value), UNCHANGED tracked
          PROVE  TypeOK'
      BY <1>0, <1>7, <2>4 DEF Mutate, TypeOK, Answer, Labels
    <2>5. tracked[r].current.version \in Nat
      BY <1>3, <2>1
    <2>6. QED
      BY <1>7, <2>3, <2>4, <2>5, ReplyTypes DEF Mutate, Refusals
  <1>8. CASE Execute(r) \/ ExecuteOrphan(r)
    <2>1. (pc[r] = "write" \/ orphans[r] > 0) /\ RunStatement(r)
      BY <1>8 DEF Execute, ExecuteOrphan
    <2>2. call[r] \in Call /\ call[r].number \in Numbers /\ Staged(r)
      BY <2>1, Running
    <2>3. tracked[r].current \in Case
      BY <1>0, <2>2, StagedEntry
    <2>4. /\ db' \in [Numbers -> Case \cup {NoRow}]
          /\ effect' \in [Requests -> Case \cup {NoRow}]
          /\ Result(tracked[r], Row(r)) \in Results
      BY <1>0, <2>1, <2>2, <2>3, StatementEffect DEF TypeOK, Results
    <2>5. CASE Execute(r)
      BY <1>0, <1>2, <2>4, <2>5 DEF Execute, TypeOK, Goto, Labels
    <2>6. CASE ExecuteOrphan(r)
      BY <1>0, <2>4, <2>6 DEF ExecuteOrphan, TypeOK
    <2>7. QED
      BY <1>8, <2>5, <2>6
  <1>9. CASE Acknowledge(r)
    <2>1. CASE pc[r] = "affected"
      <3>1. tracked[r].current \in Case
        BY <1>0, <1>1, <2>1, StagedEntry DEF Statement, Sent, Results
      <3>2. LogLevel(call[r], tracked[r].current) \in {"none", "Information", "Debug"}
        BY DEF LogLevel
      <3>3. /\ Answer(r, Ok(tracked[r].current))
            /\ log' = [log EXCEPT ![r] = LogLevel(call[r], tracked[r].current)]
            /\ UNCHANGED <<db, call, tracked, attempts, orphans, effect>>
        BY <1>9, <2>1 DEF Acknowledge
      <3>4. QED
        BY <1>0, <3>1, <3>2, <3>3, ReplyTypes DEF TypeOK, Answer, Labels
    <2>2. CASE pc[r] = "duplicate"
      <3>1. /\ Answer(r, Throw("InvalidOperation"))
            /\ UNCHANGED <<db, call, tracked, attempts, orphans, log, effect>>
        BY <1>9, <2>2 DEF Acknowledge
      <3>2. QED
        BY <1>0, <3>1, ReplyTypes DEF TypeOK, Answer, Labels, Refusals
    <2>3. CASE pc[r] = "unaffected"
      <3>1. /\ Goto(r, "translate")
            /\ NewCommand(r)
            /\ UNCHANGED <<db, call, tracked, orphans, log, effect>>
        BY <1>9, <2>3 DEF Acknowledge
      <3>2. QED
        BY <1>0, <3>1, MaxRetryCountAssumption DEF TypeOK, Goto, NewCommand, Labels
    <2>4. QED
      BY <1>9, <2>1, <2>2, <2>3 DEF Acknowledge
  <1>10. CASE Translate(r)
    <2>1. db[call[r].number] \in Case \cup {NoRow}
      BY <1>0, <1>1, <1>10 DEF Translate, TypeOK
    <2>2. QED
      BY <1>0, <1>3, <1>10, <2>1, ReplyTypes DEF Translate, TypeOK, Answer, Labels, Refusals
  <1>11. CASE Retry(r)
    <2>1. attempts' \in [Requests -> 0..MaxRetryCount]
      BY <1>0, <1>11, MaxRetryCountAssumption DEF Retry, TypeOK
    <2>2. orphans' \in [Requests -> Nat]
      BY <1>0, <1>11 DEF Retry, CutOff, TypeOK
    <2>3. pc' \in [Requests -> Labels]
      BY <1>0, <1>11 DEF Retry, Goto, TypeOK, Labels
    <2>4. QED
      BY <1>0, <1>11, <2>1, <2>2, <2>3 DEF Retry, Goto, TypeOK
  <1>12. CASE GiveUp(r)
    <2>1. orphans' \in [Requests -> Nat]
      BY <1>0, <1>12 DEF GiveUp, CutOff, TypeOK
    <2>2. QED
      BY <1>0, <1>12, <2>1, ReplyTypes DEF GiveUp, Answer, TypeOK, Labels
  <1>13. QED
    BY <1>4, <1>5, <1>6, <1>7, <1>8, <1>9, <1>10, <1>11, <1>12 DEF Step

-----------------------------------------------------------------------------
\* The acting request keeps its own part of the invariant, one lemma per kind of
\* step.  Before the statement is staged:

\* A call that starts has sent nothing.
LEMMA BeginStep ==
    ASSUME IInv, NEW r \in Requests, Begin(r)
    PROVE  Local(r)'
  <1>0. TypeOK /\ Statement(r) /\ LogTells(r) /\ pc[r] = "ready"
    BY IInvIsLocal DEF Local, Begin
  <1>1. PICK c \in Call : /\ call' = [call EXCEPT ![r] = c]
                          /\ Goto(r, IF c.kind = "create" THEN "construct" ELSE "load")
    BY DEF Begin
  <1>2. /\ call'[r] = c /\ c # NoCall /\ c \in Call
        /\ pc'[r] = IF c.kind = "create" THEN "construct" ELSE "load"
        /\ reply'[r] = reply[r] /\ tracked'[r] = tracked[r] /\ orphans'[r] = orphans[r]
        /\ effect'[r] = effect[r] /\ log'[r] = log[r]
    BY <1>0, <1>1, NoCallAssumption DEF Begin, Goto, TypeOK
  <1>3. /\ reply[r] = Pending /\ tracked[r] = NoEntry /\ orphans[r] = 0
        /\ effect[r] = NoRow /\ log[r] = "none"
    BY <1>0 DEF Statement, Progress, LogTells
  <1>4. reply'[r].outcome = "Pending" /\ tracked'[r].original = NoRow
    BY <1>2, <1>3 DEF NoEntry, Entry, Pending, Reply
  <1>5. Progress(r)'
    BY <1>2, <1>3, <1>4 DEF Progress
  <1>6. ~Sent(r)'
    BY <1>2, <1>3 DEF Sent, Results
  <1>7. QED
    BY <1>2, <1>3, <1>4, <1>5, <1>6
       DEF Local, Statement, Pinned, Truthful, LogTells, ConflictTells, Refusals

\* A call that ends before it staged a statement left no trace.
LEMMA EarlyAnswer ==
    ASSUME IInv, NEW r \in Requests, pc[r] \in {"construct", "load", "mutate"},
           NEW x \in [outcome : Outcomes \ {"Pending"}, snapshot : Case \cup {NoRow}, actual : Nat],
           Answer(r, x),
           x.outcome = "Ok" => call[r].kind = "get",
           x.outcome = "CaseConcurrency" =>
               /\ x.actual # call[r].expected
               /\ Row(r) # NoRow
               /\ x.actual \in 1..Row(r).version,
           call'[r] = call[r], tracked'[r] = tracked[r], orphans'[r] = orphans[r],
           effect'[r] = effect[r], log'[r] = log[r], db' = db
    PROVE  Local(r)'
  <1>0. TypeOK /\ Statement(r) /\ Pinned(r) /\ LogTells(r)
    BY IInvIsLocal DEF Local
  <1>1. pc'[r] = "done" /\ reply'[r] = x
    BY <1>0 DEF Answer, TypeOK
  <1>2. /\ orphans'[r] = 0 /\ effect'[r] = NoRow /\ log'[r] = "none" /\ call'[r] # NoCall
    BY <1>0 DEF Statement, Progress, LogTells
  <1>3. Row(r)' = Row(r)
    BY DEF Row
  <1>4. Progress(r)'
    BY <1>1, <1>2 DEF Progress
  <1>5. ~Sent(r)'
    BY <1>1, <1>2 DEF Sent, Results
  <1>6. Pinned(r)'
    BY <1>0, <1>3 DEF Pinned
  <1>7. Truthful(r)' /\ LogTells(r)' /\ ConflictTells(r)'
    BY <1>1, <1>2, <1>3 DEF Truthful, LogTells, ConflictTells
  <1>8. Statement(r)'
    BY <1>1, <1>2, <1>4, <1>5 DEF Statement
  <1>9. QED
    BY <1>6, <1>7, <1>8 DEF Local

\* A statement is staged: nothing has been sent yet.
LEMMA StageStep ==
    ASSUME IInv, NEW r \in Requests, pc[r] \in {"construct", "mutate"},
           Goto(r, "write"), Staged(r)', Pinned(r)',
           call'[r] = call[r], orphans'[r] = orphans[r],
           effect'[r] = effect[r], log'[r] = log[r]
    PROVE  Local(r)'
  <1>0. TypeOK /\ Statement(r) /\ LogTells(r)
    BY IInvIsLocal DEF Local
  <1>1. pc'[r] = "write" /\ reply'[r] = Pending
    BY <1>0 DEF Goto, TypeOK, Statement, Progress
  <1>2. effect'[r] = NoRow /\ log'[r] = "none" /\ call'[r] # NoCall
    BY <1>0 DEF Statement, Progress, LogTells
  <1>3. reply'[r].outcome = "Pending"
    BY <1>1 DEF Pending, Reply
  <1>4. Progress(r)'
    BY <1>1, <1>2, <1>3 DEF Progress
  <1>5. QED
    BY <1>1, <1>2, <1>3, <1>4
       DEF Local, Statement, Truthful, LogTells, ConflictTells, Refusals

\* Add stages version 1 of the case.
LEMMA ConstructStep ==
    ASSUME IInv, NEW r \in Requests, Construct(r)
    PROVE  Local(r)'
  <1>0. TypeOK /\ Statement(r)
    BY IInvIsLocal DEF Local
  <1>1. pc[r] = "construct" /\ call[r].kind = "create"
    BY <1>0 DEF Construct, Statement, Progress
  <1>2. CASE ~ValidSeverity(call[r].severity)
    <2>1. /\ Answer(r, Throw("Argument"))
          /\ UNCHANGED <<db, call, tracked, orphans, log, effect>>
      BY <1>2 DEF Construct
    <2>2. /\ Throw("Argument") \in [outcome : Outcomes \ {"Pending"}, snapshot : Case \cup {NoRow}, actual : Nat]
          /\ Throw("Argument").outcome = "Argument"
      BY DEF Throw, Reply, Outcomes, Refusals
    <2>3. QED
      BY <1>1, <2>1, <2>2, EarlyAnswer
  <1>3. CASE ValidSeverity(call[r].severity)
    <2>1. /\ Goto(r, "write")
          /\ tracked' = [tracked EXCEPT ![r] = Entry(NoRow, NewCase(call[r].severity))]
          /\ UNCHANGED <<db, call, orphans, log, effect>>
      BY <1>3 DEF Construct
    <2>2. tracked'[r] = Entry(NoRow, NewCase(call[r].severity))
      BY <1>0, <2>1 DEF TypeOK
    <2>3. tracked'[r].original = NoRow
      BY <2>2 DEF Entry
    <2>4. Staged(r)' /\ Pinned(r)'
      BY <1>1, <1>3, <2>1, <2>2, <2>3 DEF Staged, Pinned
    <2>5. QED
      BY <1>1, <2>1, <2>4, StageStep
  <1>4. QED
    BY <1>2, <1>3

\* Loading tracks the row as it is.
LEMMA LoadStep ==
    ASSUME IInv, NEW r \in Requests, Load(r)
    PROVE  Local(r)'
  <1>0. TypeOK /\ Statement(r) /\ LogTells(r) /\ pc[r] = "load"
    BY IInvIsLocal DEF Local, Load
  <1>1. call[r] \in Call /\ call[r].number \in Numbers /\ Row(r) = db[call[r].number]
    BY <1>0, MadeCall DEF Row
  <1>2. Row(r) \in Case \cup {NoRow}
    BY <1>0, <1>1 DEF TypeOK
  <1>3. CASE Row(r) = NoRow
    <2>1. /\ Answer(r, Throw("KeyNotFound"))
          /\ UNCHANGED <<db, call, tracked, orphans, log, effect>>
      BY <1>1, <1>3 DEF Load
    <2>2. /\ Throw("KeyNotFound") \in [outcome : Outcomes \ {"Pending"}, snapshot : Case \cup {NoRow}, actual : Nat]
          /\ Throw("KeyNotFound").outcome = "KeyNotFound"
      BY DEF Throw, Reply, Outcomes, Refusals
    <2>3. QED
      BY <1>0, <2>1, <2>2, EarlyAnswer
  <1>4. CASE Row(r) # NoRow /\ call[r].kind = "get"
    <2>1. /\ Answer(r, Ok(Row(r)))
          /\ UNCHANGED <<db, call, tracked, orphans, log, effect>>
      BY <1>1, <1>4 DEF Load
    <2>2. /\ Ok(Row(r)) \in [outcome : Outcomes \ {"Pending"}, snapshot : Case \cup {NoRow}, actual : Nat]
          /\ Ok(Row(r)).outcome = "Ok"
      BY <1>2 DEF Ok, Reply, Outcomes, Refusals
    <2>3. QED
      BY <1>0, <1>4, <2>1, <2>2, EarlyAnswer
  <1>5. CASE Row(r) # NoRow /\ call[r].kind # "get"
    <2>1. /\ Goto(r, "mutate")
          /\ tracked' = [tracked EXCEPT ![r] = Entry(Row(r), Row(r))]
          /\ UNCHANGED <<db, call, orphans, log, effect>>
      BY <1>1, <1>5 DEF Load
    <2>2. tracked'[r].original = Row(r) /\ tracked'[r].current = Row(r)
      BY <1>0, <2>1 DEF TypeOK, Entry
    <2>3. /\ pc'[r] = "mutate" /\ reply'[r] = Pending /\ call'[r] # NoCall
          /\ orphans'[r] = 0 /\ effect'[r] = NoRow /\ log'[r] = "none" /\ call'[r] = call[r]
      BY <1>0, <2>1 DEF Goto, TypeOK, Statement, Progress, LogTells
    <2>4. call[r].kind \in Mutations
      BY <1>0, <1>1, <1>5, CallFields DEF Statement, Progress
    <2>5. reply'[r].outcome = "Pending"
      BY <2>3 DEF Pending, Reply
    <2>6. Progress(r)' /\ ~Sent(r)'
      BY <1>5, <2>2, <2>3, <2>4, <2>5 DEF Progress, Sent, Results
    <2>7. Row(r)' = Row(r) /\ Row(r).version >= Row(r).version
      BY <1>2, <1>5, <2>1 DEF Row, Case
    <2>8. Pinned(r)'
      BY <1>5, <2>2, <2>7 DEF Pinned
    <2>9. QED
      BY <2>3, <2>5, <2>6, <2>8
         DEF Local, Statement, Truthful, LogTells, ConflictTells, Refusals
  <1>6. QED
    BY <1>3, <1>4, <1>5

\* Mutate stages the next version of the loaded row, or answers.
LEMMA MutateStep ==
    ASSUME IInv, NEW r \in Requests, Mutate(r)
    PROVE  Local(r)'
  <1>0. TypeOK /\ Statement(r) /\ Pinned(r) /\ pc[r] = "mutate"
    BY IInvIsLocal DEF Local, Mutate
  <1>1. /\ call[r] \in Call /\ call[r].kind \in Mutations
        /\ tracked[r].original \in Case /\ tracked[r].original # NoRow
        /\ tracked[r].current = tracked[r].original
    BY <1>0, MadeCall DEF Statement, Progress, TypeOK
  <1>2. CASE /\ tracked[r].current.version = call[r].expected
             /\ ~Refused(tracked[r].current, call[r])
             /\ tracked' = [tracked EXCEPT ![r].current = Mutated(tracked[r].current, call[r])]
             /\ Goto(r, "write")
    <2>1. UNCHANGED <<db, call, orphans, log, effect>>
      BY DEF Mutate
    <2>2. tracked[r] \in [original : Case \cup {NoRow}, current : Case \cup {NoRow}]
      BY <1>0 DEF TypeOK
    <2>3. /\ tracked'[r].original = tracked[r].original
          /\ tracked'[r].current = Mutated(tracked[r].original, call[r])
      BY <1>0, <1>1, <1>2, <2>2 DEF TypeOK
    <2>4. Staged(r)'
      BY <1>1, <1>2, <2>1, <2>3 DEF Staged
    <2>5. Pinned(r)'
      BY <1>0, <2>1, <2>3 DEF Pinned, Row
    <2>6. QED
      BY <1>0, <1>2, <2>1, <2>4, <2>5, StageStep
  <1>3. CASE /\ tracked[r].current.version # call[r].expected
             /\ Answer(r, CaseConcurrency(tracked[r].current.version))
             /\ UNCHANGED tracked
    <2>1. UNCHANGED <<db, call, tracked, orphans, log, effect>>
      BY <1>3 DEF Mutate
    <2>2. tracked[r].current.version \in Nat /\ tracked[r].current.version >= 1
      BY <1>1 DEF Case
    <2>3. /\ CaseConcurrency(tracked[r].current.version) \in
                 [outcome : Outcomes \ {"Pending"}, snapshot : Case \cup {NoRow}, actual : Nat]
          /\ CaseConcurrency(tracked[r].current.version).outcome = "CaseConcurrency"
          /\ CaseConcurrency(tracked[r].current.version).actual = tracked[r].current.version
      BY <2>2 DEF CaseConcurrency, Reply, Outcomes, Refusals
    <2>4. Row(r) # NoRow /\ Row(r).version >= tracked[r].current.version
      BY <1>0, <1>1 DEF Pinned
    <2>5. Row(r).version \in Nat
      BY <1>0, <1>1, <2>4, CallFields DEF TypeOK, Row, Case
    <2>6. tracked[r].current.version \in 1..Row(r).version
      BY <2>2, <2>4, <2>5
    <2>7. QED
      BY <1>0, <1>3, <2>1, <2>3, <2>4, <2>6, EarlyAnswer
  <1>4. ASSUME NEW x \in {"InvalidOperation", "Argument"}, Answer(r, Throw(x)), UNCHANGED tracked
        PROVE  Local(r)'
    <2>1. UNCHANGED <<db, call, tracked, orphans, log, effect>>
      BY <1>4 DEF Mutate
    <2>2. /\ Throw(x) \in [outcome : Outcomes \ {"Pending"}, snapshot : Case \cup {NoRow}, actual : Nat]
          /\ Throw(x).outcome = x
      BY <1>4 DEF Throw, Reply, Outcomes, Refusals
    <2>3. x # "Ok" /\ x # "CaseConcurrency"
      BY <1>4
    <2>4. QED
      BY <1>0, <1>4, <2>1, <2>2, <2>3, EarlyAnswer
  <1>5. QED
    BY <1>2, <1>3, <1>4 DEF Mutate

\* Once the statement is staged, the server runs it:

\* A statement applies once, to the row it was computed from, or is spent.
LEMMA RunStep ==
    ASSUME IInv, NEW r \in Requests, Execute(r) \/ ExecuteOrphan(r),
           \A n \in Numbers : Moves(n)
    PROVE  Local(r)'
  <1>0. TypeOK /\ Local(r) /\ Statement(r) /\ Pinned(r)
    BY IInvIsLocal DEF Local
  <1>1. /\ pc[r] = "write" \/ orphans[r] > 0
        /\ RunStatement(r)
        /\ call' = call /\ tracked' = tracked /\ reply' = reply /\ log' = log
    BY DEF Execute, ExecuteOrphan, Goto
  <1>2. call[r] \in Call /\ call[r].number \in Numbers /\ Staged(r)
    BY <1>1, Running
  <1>3. /\ tracked[r].current \in Case
        /\ tracked[r].original \in Case \cup {NoRow}
    BY <1>0, <1>2, StagedEntry
  <1>4. Grows(r) /\ Row(r) \in Case \cup {NoRow} /\ Row(r)' \in Case \cup {NoRow}
    BY <1>1, <1>2, RowGrows
  <1>5. \A c \in Case : c.version \in Nat
    BY DEF Case
  <1>6. pc[r] # "ready" /\ call[r] # NoCall
    BY <1>0, <1>1, <1>2, NoCallAssumption DEF Statement, Progress
  <1>7. /\ pc'[r] = IF Execute(r) /\ pc[r] = "write" THEN Result(tracked[r], Row(r)) ELSE pc[r]
        /\ Execute(r) => pc[r] = "write"
        /\ ~Execute(r) => pc' = pc /\ orphans[r] > 0
    BY <1>0 DEF Execute, ExecuteOrphan, Goto, TypeOK, Row
  <1>8. Staged(r)' /\ Pinned(r)'
    BY <1>0, <1>1, <1>2, <1>3, <1>4, <1>5 DEF Staged, Pinned, Grows
  <1>9. Spent(r) => Spent(r)'
    BY <1>1, <1>3, <1>4, <1>5 DEF Spent, Grows
  <1>10. effect[r] # NoRow /\ WasApplied(r) => tracked[r].current = effect[r] /\ Row(r)' # NoRow
                                               /\ Row(r)'.version >= effect[r].version
    BY <1>3, <1>4, <1>5 DEF WasApplied, Grows
  <1>11. Progress(r)'
    <2>1. pc'[r] \in Results \/ pc'[r] = pc[r]
      BY <1>0, <1>1, <1>2, <1>7, StatementEffect DEF Results
    <2>2. pc[r] \notin {"ready", "construct", "load", "mutate"}
      BY <1>0, <1>1 DEF Statement, Progress
    <2>3. pc'[r] = "done" <=> pc[r] = "done"
      BY <1>7, <2>1 DEF Results
    <2>4. QED
      BY <1>0, <1>1, <1>6, <2>1, <2>2, <2>3 DEF Progress, Results, Statement
  <1>12. CASE /\ Result(tracked[r], Row(r)) = "affected"
              /\ db' = [db EXCEPT ![call[r].number] = tracked[r].current]
              /\ effect' = [effect EXCEPT ![r] = tracked[r].current]
    <2>1. effect'[r] = tracked[r].current /\ Row(r)' = tracked[r].current
      BY <1>0, <1>1, <1>2, <1>12 DEF TypeOK, Row
    <2>2. effect'[r] # NoRow /\ WasApplied(r)'
      BY <1>1, <1>3, <1>5, <2>1, NoRowAssumption DEF WasApplied
    <2>3. effect[r] # NoRow => effect'[r] = effect[r]
      BY <1>0, <2>1 DEF Statement, WasApplied
    <2>4. pc'[r] \in {"unaffected", "duplicate", "translate"} => pc'[r] = pc[r]
      BY <1>7, <1>12
    <2>5. reply[r].outcome \in Refusals => Spent(r)
      <3>1. reply[r].outcome \in Refusals => pc[r] = "done"
        BY <1>0 DEF Statement, Progress, Refusals
      <3>2. QED
        BY <1>0, <1>1, <3>1 DEF Statement, Sent
    <2>6. Statement(r)'
      BY <1>0, <1>1, <1>8, <1>9, <1>11, <2>2, <2>4, <2>5 DEF Statement
    <2>7. Truthful(r)'
      BY <1>0, <1>1, <2>3 DEF Local, Truthful
    <2>8. LogTells(r)'
      BY <1>0, <1>1, <2>3 DEF Local, LogTells
    <2>9. ConflictTells(r)'
      <3>1. reply[r].actual \in Nat
        BY <1>0 DEF TypeOK
      <3>2. QED
        BY <1>0, <1>1, <1>4, <1>5, <3>1 DEF Local, ConflictTells, Grows
    <2>10. QED
      BY <1>8, <2>6, <2>7, <2>8, <2>9 DEF Local
  <1>13. CASE /\ Result(tracked[r], Row(r)) \in {"unaffected", "duplicate"}
              /\ Result(tracked[r], Row(r)) = "unaffected" => call[r].kind \in Mutations
              /\ Result(tracked[r], Row(r)) = "duplicate" => call[r].kind = "create"
              /\ Spent(r)
              /\ UNCHANGED <<db, effect>>
    <2>1. effect'[r] = effect[r] /\ Row(r)' = Row(r)
      BY <1>1, <1>13 DEF Row
    <2>2. pc'[r] = "affected" => pc[r] = "affected"
      BY <1>7, <1>13
    <2>3. Statement(r)'
      BY <1>0, <1>1, <1>7, <1>8, <1>9, <1>10, <1>11, <1>13, <2>1, <2>2
         DEF Statement, WasApplied
    <2>4. Truthful(r)' /\ LogTells(r)' /\ ConflictTells(r)'
      BY <1>0, <1>1, <2>1 DEF Local, Truthful, LogTells, ConflictTells
    <2>5. QED
      BY <1>8, <2>3, <2>4 DEF Local
  <1>14. QED
    BY <1>0, <1>1, <1>2, <1>12, <1>13, StatementEffect

\* A call that has no answer yet has logged nothing.
LEMMA Silent ==
    ASSUME IInv, NEW r \in Requests, pc[r] \notin {"ready", "done"}
    PROVE  /\ reply[r].outcome = "Pending"
           /\ log[r] = "none"
  <1>1. Statement(r) /\ LogTells(r)
    BY IInvIsLocal DEF Local
  <1>2. reply[r].outcome = "Pending"
    BY <1>1 DEF Statement, Progress
  <1>3. QED
    BY <1>1, <1>2 DEF LogTells

\* What the acknowledged statement reports is what it did.
LEMMA AcknowledgeStep ==
    ASSUME IInv, NEW r \in Requests, Acknowledge(r)
    PROVE  Local(r)'
  <1>0. TypeOK /\ Local(r) /\ Statement(r) /\ Pinned(r) /\ pc[r] \in Results
    BY IInvIsLocal DEF Local, Acknowledge, Results
  <1>1. db' = db /\ call' = call /\ tracked' = tracked /\ orphans' = orphans /\ effect' = effect
    BY DEF Acknowledge
  <1>2. /\ Sent(r) /\ Staged(r) /\ call[r] \in Call /\ call[r] # NoCall
        /\ reply[r] = Pending /\ log[r] \in {"none", "Information", "Debug"}
    BY <1>0, MadeCall DEF Statement, Sent, Results, Progress, TypeOK
  <1>3. Row(r)' = Row(r) /\ Staged(r)' /\ Pinned(r)' /\ (Spent(r) => Spent(r)')
    BY <1>0, <1>1, <1>2 DEF Row, Staged, Pinned, Spent
  <1>4. effect[r] # NoRow => WasApplied(r)'
    BY <1>0, <1>1, <1>3 DEF Statement, WasApplied
  <1>5. CASE pc[r] = "affected"
    <2>1. /\ pc'[r] = "done" /\ reply'[r] = Ok(tracked[r].current)
          /\ log'[r] = LogLevel(call[r], tracked[r].current)
      BY <1>0, <1>5 DEF Acknowledge, Answer, TypeOK
    <2>2. reply'[r].outcome = "Ok" /\ reply'[r].snapshot = tracked[r].current
      BY <2>1 DEF Ok, Reply
    <2>3. effect[r] # NoRow /\ effect[r] = tracked[r].current
      BY <1>0, <1>5 DEF Statement, WasApplied
    <2>4. Statement(r)'
      BY <1>1, <1>2, <1>3, <1>4, <2>1, <2>2, <2>3 DEF Statement, Progress, Refusals
    <2>5. Truthful(r)' /\ ConflictTells(r)'
      BY <1>1, <2>2, <2>3 DEF Truthful, ConflictTells
    <2>6. LogTells(r)'
      <3>1. IsChange(effect[r], call[r]) <=> tracked[r].current.version # call[r].expected
        BY <2>3 DEF IsChange
      <3>2. call[r].kind = "create" => tracked[r].current.version = 1 /\ call[r].expected = 0
        BY <1>0, <1>2, StagedEntry, CallFields DEF Mutations
      <3>3. call[r].kind \in {"close", "reopen"} =>
                tracked[r].current.version # call[r].expected
        BY <1>0, <1>2, StagedEntry DEF Case
      <3>4. call[r].kind \in {"create", "close", "reopen", "escalate", "severity"}
        BY <1>0, <1>2, StagedEntry DEF Mutations
      <3>5. log'[r] = "Information" <=> tracked[r].current.version # call[r].expected
        BY <2>1, <3>2, <3>3, <3>4 DEF LogLevel
      <3>6. log'[r] # "none" /\ call[r].kind # "get"
        BY <2>1, <3>4 DEF LogLevel
      <3>7. QED
        BY <1>1, <2>2, <2>3, <3>1, <3>5, <3>6 DEF LogTells
    <2>7. QED
      BY <1>3, <2>4, <2>5, <2>6 DEF Local
  <1>6. CASE pc[r] = "duplicate"
    <2>1. /\ pc'[r] = "done" /\ reply'[r] = Throw("InvalidOperation") /\ log' = log
      BY <1>0, <1>6 DEF Acknowledge, Answer, TypeOK
    <2>2. reply'[r].outcome = "InvalidOperation"
      BY <2>1 DEF Throw, Reply
    <2>3. Spent(r)'
      BY <1>0, <1>3, <1>6 DEF Statement
    <2>4. Statement(r)'
      BY <1>1, <1>2, <1>3, <1>4, <2>1, <2>2, <2>3 DEF Statement, Progress
    <2>5. log[r] = "none"
      BY <1>6, Silent
    <2>6. QED
      BY <1>0, <1>1, <1>3, <2>1, <2>2, <2>4, <2>5 DEF Local, Truthful, LogTells, ConflictTells
  <1>7. CASE pc[r] = "unaffected"
    <2>1. pc'[r] = "translate" /\ reply' = reply /\ log' = log
      BY <1>0, <1>7 DEF Acknowledge, Goto, TypeOK
    <2>2. reply'[r].outcome = "Pending"
      BY <1>2, <2>1 DEF Pending, Reply
    <2>3. Spent(r)' /\ call[r].kind \in Mutations
      BY <1>0, <1>3, <1>7 DEF Statement
    <2>4. Statement(r)'
      BY <1>1, <1>2, <1>3, <1>4, <2>1, <2>2, <2>3 DEF Statement, Progress
    <2>5. QED
      BY <1>0, <1>1, <1>3, <2>1, <2>2, <2>4 DEF Local, Truthful, LogTells, ConflictTells
  <1>8. QED
    BY <1>0, <1>5, <1>6, <1>7 DEF Results

\* The row that is read again has moved past the expected version.
LEMMA TranslateStep ==
    ASSUME IInv, NEW r \in Requests, Translate(r)
    PROVE  Local(r)'
  <1>0. TypeOK /\ Local(r) /\ Statement(r) /\ Pinned(r) /\ pc[r] = "translate"
    BY IInvIsLocal DEF Local, Translate
  <1>1. /\ db' = db /\ call' = call /\ tracked' = tracked /\ orphans' = orphans
        /\ effect' = effect /\ log' = log
    BY DEF Translate
  <1>2. /\ Staged(r) /\ Spent(r) /\ call[r] \in Call /\ call[r] # NoCall
        /\ call[r].kind \in Mutations /\ Row(r) = db[call[r].number]
    BY <1>0, MadeCall DEF Statement, Sent, Progress, Row
  <1>3. Row(r)' = Row(r) /\ Staged(r)' /\ Pinned(r)' /\ Spent(r)'
    BY <1>0, <1>1, <1>2 DEF Row, Staged, Pinned, Spent
  <1>4. effect[r] # NoRow => WasApplied(r)'
    BY <1>0, <1>1, <1>3 DEF Statement, WasApplied
  <1>5. pc'[r] = "done" /\ reply'[r] = CaseConcurrency(Row(r).version)
    BY <1>0, <1>2 DEF Translate, Answer, TypeOK, Spent
  <1>6. reply'[r].outcome = "CaseConcurrency" /\ reply'[r].actual = Row(r).version
    BY <1>5 DEF CaseConcurrency, Reply
  <1>7. /\ tracked[r].original \in Case /\ tracked[r].original # NoRow
        /\ tracked[r].original.version = call[r].expected
    BY <1>0, <1>2, StagedEntry, NoRowAssumption DEF Mutations
  <1>8. /\ Row(r) \in Case /\ Row(r).version > call[r].expected
    BY <1>0, <1>2, <1>7, CallFields DEF Spent, TypeOK
  <1>9. Row(r).version \in Nat /\ Row(r).version >= 1 /\ call[r].expected \in Nat
    BY <1>2, <1>8, CallFields DEF Case
  <1>10. ConflictTells(r)'
    BY <1>1, <1>2, <1>3, <1>6, <1>8, <1>9 DEF ConflictTells, Spent
  <1>11. Statement(r)'
    BY <1>1, <1>2, <1>3, <1>4, <1>5, <1>6 DEF Statement, Progress
  <1>12. log[r] = "none"
    BY <1>0, Silent
  <1>13. QED
    BY <1>0, <1>1, <1>3, <1>6, <1>10, <1>11, <1>12 DEF Local, Truthful, LogTells

\* A failure: the command is sent again, or the call is given up.
LEMMA RetryStep ==
    ASSUME IInv, NEW r \in Requests, Retry(r)
    PROVE  Local(r)'
  <1>0. TypeOK /\ Local(r) /\ Statement(r) /\ Pinned(r)
    BY IInvIsLocal DEF Local
  <1>1. /\ db' = db /\ call' = call /\ tracked' = tracked /\ log' = log
        /\ effect' = effect /\ reply' = reply
        /\ pc[r] \in {"load", "write", "translate"} \cup Results
        /\ pc'[r] = IF pc[r] \in Results THEN "write" ELSE pc[r]
        /\ pc[r] # "write" => orphans' = orphans
    BY <1>0 DEF Retry, Goto, AtDatabase, CutOff, TypeOK
  <1>2. Row(r)' = Row(r) /\ Pinned(r)' /\ (Spent(r) => Spent(r)') /\ (Staged(r) => Staged(r)')
    BY <1>0, <1>1 DEF Row, Pinned, Spent, Staged
  <1>3. Sent(r)' => Sent(r)
    BY <1>1 DEF Sent, Results
  <1>4. Progress(r)'
    BY <1>0, <1>1 DEF Statement, Progress, Results
  <1>5. effect[r] # NoRow => WasApplied(r)'
    BY <1>0, <1>1, <1>2 DEF Statement, WasApplied
  <1>6. Statement(r)'
    BY <1>0, <1>1, <1>2, <1>3, <1>4, <1>5 DEF Statement, Results
  <1>7. QED
    BY <1>0, <1>1, <1>2, <1>6 DEF Local, Truthful, LogTells, ConflictTells

\* A call that is given up promises nothing.
LEMMA GiveUpStep ==
    ASSUME IInv, NEW r \in Requests, GiveUp(r)
    PROVE  Local(r)'
  <1>0. TypeOK /\ Local(r) /\ Statement(r) /\ Pinned(r)
    BY IInvIsLocal DEF Local
  <1>1. /\ db' = db /\ call' = call /\ tracked' = tracked /\ log' = log /\ effect' = effect
        /\ pc[r] \in {"load", "write", "translate"} \cup Results
        /\ pc'[r] = "done" /\ reply'[r] = Throw("Unknown")
        /\ pc[r] # "write" => orphans' = orphans
    BY <1>0 DEF GiveUp, Answer, AtDatabase, CutOff, TypeOK
  <1>2. Row(r)' = Row(r) /\ Pinned(r)' /\ (Staged(r) => Staged(r)')
    BY <1>0, <1>1 DEF Row, Pinned, Staged
  <1>3. Sent(r)' => Sent(r)
    BY <1>1 DEF Sent, Results
  <1>4. reply'[r].outcome = "Unknown"
    BY <1>1 DEF Throw, Reply
  <1>5. Progress(r)'
    BY <1>0, <1>1, <1>4 DEF Statement, Progress, Results
  <1>6. effect[r] # NoRow => WasApplied(r)'
    BY <1>0, <1>1, <1>2 DEF Statement, WasApplied
  <1>7. Statement(r)'
    BY <1>0, <1>1, <1>2, <1>3, <1>4, <1>5, <1>6 DEF Statement, Refusals
  <1>8. log[r] = "none"
    BY <1>1, Silent DEF Results
  <1>9. QED
    BY <1>0, <1>1, <1>2, <1>4, <1>7, <1>8 DEF Local, Truthful, LogTells, ConflictTells

-----------------------------------------------------------------------------
\* Two requests: what a statement writes is newer than all that was applied.

\* Only a call leaves an effect.
LEMMA EffectNeedsCall ==
    ASSUME IInv, NEW r \in Requests, effect[r] # NoRow
    PROVE  /\ pc[r] # "ready" /\ call[r] \in Call /\ call[r] # NoCall
           /\ Staged(r) /\ WasApplied(r) /\ effect[r] \in Case
  <1>1. TypeOK /\ Statement(r)
    BY IInvIsLocal DEF Local
  <1>2. pc[r] # "ready" /\ call[r] # NoCall
    BY <1>1 DEF Statement, Progress
  <1>3. QED
    BY <1>1, <1>2, MadeCall DEF Statement, Sent, TypeOK

\* Without a new effect there is no new conflict of effects.
LEMMA SameEffects ==
    ASSUME IInv, effect' = effect,
           \A r \in Requests : effect[r] # NoRow => call'[r] = call[r]
    PROVE  NoLostUpdate'
  <1>1. \A r \in Requests : effect[r] # NoRow => call[r] # NoCall
    BY EffectNeedsCall
  <1>2. NoLostUpdate
    BY DEF IInv
  <1>3. QED
    BY <1>1, <1>2 DEF NoLostUpdate, IsChange

\* A change's version is above every version its row has had.
LEMMA NewEffect ==
    ASSUME IInv, NEW r \in Requests, call' = call,
           call[r] \in Call, Staged(r), AppliesTo(r, Row(r)),
           effect' = [effect EXCEPT ![r] = tracked[r].current]
    PROVE  NoLostUpdate'
  <1>0. TypeOK /\ NoLostUpdate
    BY DEF IInv
  <1>1. effect'[r] = tracked[r].current /\ \A p \in Requests : p # r => effect'[p] = effect[p]
    BY <1>0 DEF TypeOK
  <1>2. ASSUME NEW q \in Requests, q # r, effect[q] # NoRow,
               call[q].number = call[r].number, IsChange(tracked[r].current, call[r])
        PROVE  tracked[r].current.version # effect[q].version
    <2>1. WasApplied(q) /\ Row(q) = Row(r) /\ effect[q] \in Case
      BY <1>2, EffectNeedsCall DEF Row
    <2>2. Row(r) # NoRow /\ Row(r).version >= effect[q].version
      BY <2>1 DEF WasApplied
    <2>3. tracked[r].current.version = Row(r).version + 1 /\ Row(r) \in Case
      <3>1. /\ Row(r) = tracked[r].original /\ tracked[r].original # NoRow
            /\ \/ tracked[r].current.version = Row(r).version + 1
               \/ tracked[r].current = Row(r)
        BY <2>2 DEF AppliesTo
      <3>2. tracked[r].original \in Case /\ tracked[r].original.version = call[r].expected
        BY <1>0, <3>1, StagedEntry
      <3>3. QED
        BY <1>2, <3>1, <3>2 DEF IsChange
    <2>4. QED
      BY <2>1, <2>2, <2>3 DEF Case
  <1>3. SUFFICES ASSUME NEW p \in Requests, NEW q \in Requests, p # q,
                        IsChange(effect'[p], call[p]), IsChange(effect'[q], call[q]),
                        call[p] # NoCall, call[q] # NoCall,
                        call[p].number = call[q].number
                 PROVE  effect'[p].version # effect'[q].version
    BY DEF NoLostUpdate, IsChange
  <1>4. CASE p = r
    <2>1. effect[q] # NoRow /\ effect'[q] = effect[q]
      BY <1>1, <1>3, <1>4 DEF IsChange
    <2>2. QED
      BY <1>1, <1>2, <1>3, <1>4, <2>1
  <1>5. CASE q = r
    <2>1. effect[p] # NoRow /\ effect'[p] = effect[p]
      BY <1>1, <1>3, <1>5 DEF IsChange
    <2>2. QED
      BY <1>1, <1>2, <1>3, <1>5, <2>1
  <1>6. CASE p # r /\ q # r
    BY <1>0, <1>1, <1>3, <1>6 DEF NoLostUpdate
  <1>7. QED
    BY <1>4, <1>5, <1>6

\* A step adds at most one effect, under a version of its own.
LEMMA NoLostUpdateStep ==
    ASSUME IInv, NEW r \in Requests,
           Begin(r) \/ Step(r) \/ Retry(r) \/ GiveUp(r) \/ ExecuteOrphan(r)
    PROVE  NoLostUpdate'
  <1>1. CASE Begin(r)
    <2>1. effect[r] = NoRow
      BY <1>1, EffectNeedsCall DEF Begin
    <2>2. \A p \in Requests : p # r => call'[p] = call[p]
      BY <1>1 DEF Begin, IInv, TypeOK
    <2>3. effect' = effect
      BY <1>1 DEF Begin
    <2>4. QED
      BY <2>1, <2>2, <2>3, SameEffects
  <1>2. CASE Construct(r) \/ Load(r) \/ Mutate(r) \/ Acknowledge(r) \/ Translate(r)
             \/ Retry(r) \/ GiveUp(r)
    <2>1. effect' = effect /\ call' = call
      BY <1>2 DEF Construct, Load, Mutate, Acknowledge, Translate, Retry, GiveUp
    <2>2. QED
      BY <2>1, SameEffects
  <1>3. CASE Execute(r) \/ ExecuteOrphan(r)
    <2>1. RunStatement(r) /\ call' = call /\ (pc[r] = "write" \/ orphans[r] > 0)
      BY <1>3 DEF Execute, ExecuteOrphan
    <2>2. TypeOK /\ call[r] \in Call /\ Staged(r) /\ Pinned(r)
      BY <2>1, Running DEF IInv
    <2>3. QED
      BY <2>1, <2>2, StatementEffect, NewEffect, SameEffects
  <1>4. QED
    BY <1>1, <1>2, <1>3 DEF Step

-----------------------------------------------------------------------------
\* The invariant is inductive, and implies everything the runs check.

\* A step of one request leaves the state of the others alone.
LEMMA OthersUntouched ==
    ASSUME IInv, NEW r \in Requests, NEW p \in Requests, p # r,
           Begin(r) \/ Step(r) \/ Retry(r) \/ GiveUp(r) \/ ExecuteOrphan(r)
    PROVE  /\ pc'[p] = pc[p] /\ call'[p] = call[p] /\ tracked'[p] = tracked[p]
           /\ orphans'[p] = orphans[p] /\ reply'[p] = reply[p]
           /\ log'[p] = log[p] /\ effect'[p] = effect[p]
  <1>0. TypeOK
    BY DEF IInv
  <1>1. CASE Begin(r)
    BY <1>0, <1>1 DEF Begin, Goto, TypeOK
  <1>2. CASE Construct(r)
    BY <1>0, <1>2 DEF Construct, Goto, Answer, TypeOK
  <1>3. CASE Load(r)
    BY <1>0, <1>3 DEF Load, Goto, Answer, TypeOK
  <1>4. CASE Mutate(r)
    BY <1>0, <1>4 DEF Mutate, Goto, Answer, TypeOK
  <1>5. CASE Execute(r)
    BY <1>0, <1>5 DEF Execute, RunStatement, Goto, TypeOK
  <1>6. CASE Acknowledge(r)
    BY <1>0, <1>6 DEF Acknowledge, Goto, Answer, TypeOK
  <1>7. CASE Translate(r)
    BY <1>0, <1>7 DEF Translate, Answer, TypeOK
  <1>8. CASE Retry(r)
    BY <1>0, <1>8 DEF Retry, Goto, CutOff, TypeOK
  <1>9. CASE GiveUp(r)
    BY <1>0, <1>9 DEF GiveUp, Answer, CutOff, TypeOK
  <1>10. CASE ExecuteOrphan(r)
    BY <1>0, <1>10 DEF ExecuteOrphan, RunStatement, TypeOK
  <1>11. QED
    BY <1>1, <1>2, <1>3, <1>4, <1>5, <1>6, <1>7, <1>8, <1>9, <1>10 DEF Step

\* A step of a request keeps its own invariant.
LEMMA ActorStep ==
    ASSUME IInv, NEW r \in Requests, \A n \in Numbers : Moves(n),
           Begin(r) \/ Step(r) \/ Retry(r) \/ GiveUp(r) \/ ExecuteOrphan(r)
    PROVE  Local(r)'
  BY BeginStep, ConstructStep, LoadStep, MutateStep, RunStep, AcknowledgeStep,
     TranslateStep, RetryStep, GiveUpStep DEF Step

\* IInv is inductive.
LEMMA IInvStep == IInv /\ [Next]_vars => IInv'
  <1> SUFFICES ASSUME IInv, [Next]_vars PROVE IInv'
    OBVIOUS
  <1>1. \A n \in Numbers : Moves(n)
    BY RowsMove
  <1>2. ASSUME NEW r \in Requests,
               Begin(r) \/ Step(r) \/ Retry(r) \/ GiveUp(r) \/ ExecuteOrphan(r)
        PROVE  IInv'
    <2>1. TypeOK'
      BY <1>2, TypeStep
    <2>2. NoLostUpdate'
      BY <1>2, NoLostUpdateStep
    <2>3. ASSUME NEW p \in Requests PROVE Local(p)'
      <3>1. CASE p = r
        BY <1>1, <1>2, <3>1, ActorStep
      <3>2. CASE p # r
        BY <1>1, <1>2, <3>2, OthersUntouched, OthersKeep
      <3>3. QED
        BY <3>1, <3>2
    <2>4. QED
      BY <2>1, <2>2, <2>3
         DEF IInv, Local, Statements, VersionPinsRow, TruthfulSuccess,
             LogTellsCommittedChange, ConflictReportsOtherVersion
  <1>3. CASE UNCHANGED vars
    BY <1>3
       DEF vars, IInv, TypeOK, Statements, Statement, Progress, Sent, Staged, WasApplied, Spent,
           VersionPinsRow, Pinned, TruthfulSuccess, Truthful, NoLostUpdate, Row,
           LogTellsCommittedChange, LogTells, ConflictReportsOtherVersion, ConflictTells
  <1>4. QED
    BY <1>2, <1>3 DEF Next

\* The invariant holds of every behaviour of the service.
THEOREM Invariance == Spec => []IInv
  BY InitIInv, IInvStep, PTL DEF Spec

\* Every variable keeps its type.
THEOREM TypeCorrect == Spec => []TypeOK
  <1>1. IInv => TypeOK
    BY DEF IInv
  <1>2. QED
    BY <1>1, Invariance, PTL

\* What a request has staged, sent and left behind is what its place in the code says.
THEOREM StatementsStayTrue == Spec => []Statements
  <1>1. IInv => Statements
    BY DEF IInv
  <1>2. QED
    BY <1>1, Invariance, PTL

\* While a row still has the version a request loaded, it is the row it loaded.
THEOREM RowsArePinned == Spec => []VersionPinsRow
  <1>1. IInv => VersionPinsRow
    BY DEF IInv
  <1>2. QED
    BY <1>1, Invariance, PTL

\* A write reported successful was applied exactly as the snapshot says.
THEOREM SuccessIsTrue == Spec => []TruthfulSuccess
  <1>1. IInv => TruthfulSuccess
    BY DEF IInv
  <1>2. QED
    BY <1>1, Invariance, PTL

\* No two calls change a case into the same version.
THEOREM UpdatesAreNotLost == Spec => []NoLostUpdate
  <1>1. IInv => NoLostUpdate
    BY DEF IInv
  <1>2. QED
    BY <1>1, Invariance, PTL

\* A log event tells of a committed write, at the level of what it changed.
THEOREM LogIsTrue == Spec => []LogTellsCommittedChange
  <1>1. IInv => LogTellsCommittedChange
    BY DEF IInv
  <1>2. QED
    BY <1>1, Invariance, PTL

\* A conflict reports a version the case has reached and the caller did not send.
THEOREM ConflictIsTrue == Spec => []ConflictReportsOtherVersion
  <1>1. IInv => ConflictReportsOtherVersion
    BY DEF IInv
  <1>2. QED
    BY <1>1, Invariance, PTL

-----------------------------------------------------------------------------
(***************************************************************************)
(* One version, one representation.  What callers have got is behind the    *)
(* row or is the row; what a step adds to it is the row as the step leaves  *)
(* it.                                                                      *)
(***************************************************************************)

\* The snapshots that a call has left or has got.
Snapshots(r) == {effect[r], reply[r].snapshot} \ {NoRow}

\* A snapshot of a row is the row, or has an earlier version.
Current(r) ==
    \A c \in Snapshots(r) :
        /\ call[r] \in Call /\ Row(r) # NoRow
        /\ c.version <= Row(r).version
        /\ c.version = Row(r).version => c = Row(r)

Agreement ==
    \A r, s \in Requests : \A c \in Snapshots(r), d \in Snapshots(s) :
        call[r].number = call[s].number /\ c.version = d.version => c = d

SnapshotsTell ==
    /\ \A r \in Requests : Current(r) /\ (reply[r].outcome = "Ok" => reply[r].snapshot # NoRow)
    /\ Agreement

\* What the step of r adds to the snapshots of r.
Adds(r) ==
    /\ \/ reply'[r] = reply[r]
       \/ reply'[r].outcome = "Ok" <=> reply'[r].snapshot # NoRow
    /\ \A c \in Snapshots(r)' :
          /\ call'[r] = call[r] /\ call[r] \in Call
          /\ c \in Snapshots(r) \/ c = Row(r)'

\* A step that ends the call without a snapshot, or does not end it, adds none.
LEMMA NothingAdded ==
    ASSUME IInv, NEW r \in Requests, UNCHANGED <<call, effect>>, call[r] \in Call,
           \/ UNCHANGED reply
           \/ \E e \in Refusals \cup {"Unknown"} : reply' = [reply EXCEPT ![r] = Throw(e)]
           \/ \E v : reply' = [reply EXCEPT ![r] = CaseConcurrency(v)]
    PROVE  Adds(r)
  <1>1. CASE UNCHANGED reply
    BY <1>1 DEF Adds, Snapshots
  <1>2. ASSUME NEW e \in Refusals \cup {"Unknown"}, reply' = [reply EXCEPT ![r] = Throw(e)]
        PROVE  Adds(r)
    <2>1. reply'[r] = Throw(e)
      BY <1>2 DEF IInv, TypeOK
    <2>2. Throw(e).snapshot = NoRow /\ Throw(e).outcome # "Ok"
      BY DEF Throw, Reply, Refusals
    <2>3. QED
      BY <2>1, <2>2 DEF Adds, Snapshots
  <1>3. ASSUME NEW v, reply' = [reply EXCEPT ![r] = CaseConcurrency(v)] PROVE Adds(r)
    <2>1. reply'[r] = CaseConcurrency(v)
      BY <1>3 DEF IInv, TypeOK
    <2>2. CaseConcurrency(v).snapshot = NoRow /\ CaseConcurrency(v).outcome # "Ok"
      BY DEF CaseConcurrency, Reply
    <2>3. QED
      BY <2>1, <2>2 DEF Adds, Snapshots
  <1>4. QED
    BY <1>1, <1>2, <1>3

\* A snapshot is added by the SELECT of a get, by the statement and by its result.
LEMMA StepAdds ==
    ASSUME IInv, NEW r \in Requests,
           Begin(r) \/ Step(r) \/ Retry(r) \/ GiveUp(r) \/ ExecuteOrphan(r)
    PROVE  Adds(r)
  <1>1. TypeOK /\ Statement(r) /\ TruthfulSuccess
    BY DEF IInv, Statements
  <1>2. pc[r] # "ready" => call[r] \in Call /\ call[r].number \in Numbers
    BY <1>1, MadeCall
  <1>3. CASE Begin(r)
    <2>1. effect[r] = NoRow /\ reply[r] = Pending /\ UNCHANGED <<effect, reply>>
      BY <1>1, <1>3 DEF Begin, Goto, Statement, Progress
    <2>2. QED
      BY <2>1 DEF Adds, Snapshots, Pending, Reply
  <1>4. CASE Construct(r)
    <2>1. UNCHANGED reply \/ reply' = [reply EXCEPT ![r] = Throw("Argument")]
      BY <1>4 DEF Construct, Goto, Answer
    <2>2. QED
      BY <1>2, <1>4, <2>1, NothingAdded DEF Construct, Refusals
  <1>5. CASE Load(r)
    <2>1. /\ UNCHANGED <<db, call, effect>> /\ pc[r] = "load"
          /\ \/ reply' = [reply EXCEPT ![r] = Throw("KeyNotFound")]
             \/ Row(r) # NoRow /\ reply' = [reply EXCEPT ![r] = Ok(Row(r))]
             \/ UNCHANGED reply
      BY <1>5 DEF Load, Row, Goto, Answer
    <2>2. CASE Row(r) # NoRow /\ reply' = [reply EXCEPT ![r] = Ok(Row(r))]
      <3>1. reply'[r].outcome = "Ok" /\ reply'[r].snapshot = Row(r)
        BY <1>1, <2>2 DEF TypeOK, Ok, Reply
      <3>2. Row(r)' = Row(r)
        BY <2>1 DEF Row
      <3>3. QED
        BY <1>2, <2>1, <2>2, <3>1, <3>2 DEF Adds, Snapshots
    <2>3. CASE UNCHANGED reply \/ reply' = [reply EXCEPT ![r] = Throw("KeyNotFound")]
      BY <1>2, <2>1, <2>3, NothingAdded DEF Refusals
    <2>4. QED
      BY <2>1, <2>2, <2>3
  <1>6. CASE Mutate(r)
    <2>1. /\ UNCHANGED <<call, effect>> /\ pc[r] = "mutate"
          /\ \/ UNCHANGED reply
             \/ \E e \in {"InvalidOperation", "Argument"} : reply' = [reply EXCEPT ![r] = Throw(e)]
             \/ \E v : reply' = [reply EXCEPT ![r] = CaseConcurrency(v)]
      BY <1>6 DEF Mutate, Goto, Answer
    <2>2. QED
      BY <1>2, <2>1, NothingAdded DEF Refusals
  <1>7. CASE Execute(r) \/ ExecuteOrphan(r)
    <2>1. RunStatement(r) /\ UNCHANGED <<call, reply>> /\ (pc[r] = "write" \/ orphans[r] > 0)
      BY <1>7 DEF Execute, ExecuteOrphan, Goto
    <2>2. call[r] \in Call /\ call[r].number \in Numbers /\ Staged(r) /\ Pinned(r)
      BY <2>1, Running
    <2>3. CASE UNCHANGED <<db, effect>>
      BY <2>1, <2>2, <2>3, NothingAdded
    <2>4. CASE /\ db' = [db EXCEPT ![call[r].number] = tracked[r].current]
               /\ effect' = [effect EXCEPT ![r] = tracked[r].current]
      <3>1. effect'[r] = tracked[r].current /\ Row(r)' = tracked[r].current
        BY <1>1, <2>1, <2>2, <2>4 DEF TypeOK, Row
      <3>2. QED
        BY <2>1, <2>2, <3>1 DEF Adds, Snapshots
    <2>5. QED
      BY <1>1, <2>1, <2>2, <2>3, <2>4, StatementEffect
  <1>8. CASE Acknowledge(r)
    <2>1. UNCHANGED <<call, effect>> /\ pc[r] # "ready"
      BY <1>8 DEF Acknowledge
    <2>2. CASE pc[r] = "affected" /\ reply' = [reply EXCEPT ![r] = Ok(tracked[r].current)]
      <3>1. reply'[r].outcome = "Ok" /\ reply'[r].snapshot = tracked[r].current
        BY <1>1, <2>2 DEF TypeOK, Ok, Reply
      <3>2. effect[r] # NoRow /\ effect[r] = tracked[r].current
        BY <1>1, <2>2 DEF Statement, WasApplied
      <3>3. QED
        BY <1>2, <2>1, <3>1, <3>2 DEF Adds, Snapshots
    <2>3. CASE UNCHANGED reply \/ reply' = [reply EXCEPT ![r] = Throw("InvalidOperation")]
      BY <1>2, <2>1, <2>3, NothingAdded DEF Refusals
    <2>4. QED
      BY <1>8, <2>2, <2>3 DEF Acknowledge, Goto, Answer
  <1>9. CASE Translate(r)
    <2>1. /\ UNCHANGED <<call, effect>> /\ pc[r] = "translate"
          /\ \/ reply' = [reply EXCEPT ![r] = Throw("KeyNotFound")]
             \/ reply' = [reply EXCEPT ![r] = CaseConcurrency(Row(r).version)]
      BY <1>9 DEF Translate, Row, Answer
    <2>2. QED
      BY <1>2, <2>1, NothingAdded DEF Refusals
  <1>10. CASE Retry(r)
    <2>1. UNCHANGED <<call, effect, reply>> /\ pc[r] # "ready"
      BY <1>10 DEF Retry, Goto, AtDatabase, Results
    <2>2. QED
      BY <1>2, <2>1, NothingAdded
  <1>11. CASE GiveUp(r)
    <2>1. /\ UNCHANGED <<call, effect>> /\ pc[r] # "ready"
          /\ reply' = [reply EXCEPT ![r] = Throw("Unknown")]
      BY <1>11 DEF GiveUp, Answer, AtDatabase, Results
    <2>2. QED
      BY <1>2, <2>1, NothingAdded
  <1>12. QED
    BY <1>3, <1>4, <1>5, <1>6, <1>7, <1>8, <1>9, <1>10, <1>11 DEF Step

LEMMA SnapshotStep ==
    ASSUME IInv, SnapshotsTell, NEW r \in Requests,
           Begin(r) \/ Step(r) \/ Retry(r) \/ GiveUp(r) \/ ExecuteOrphan(r),
           \A n \in Numbers : Moves(n)
    PROVE  SnapshotsTell'
  <1>1. Adds(r)
    BY StepAdds
  <1>2. TypeOK /\ TypeOK'
    BY TypeStep DEF IInv
  <1>3. ASSUME NEW s \in Requests, s # r
        PROVE  call'[s] = call[s] /\ reply'[s] = reply[s] /\ effect'[s] = effect[s]
    BY <1>3, OthersUntouched
  <1>4. ASSUME NEW s \in Requests, NEW c \in Snapshots(s)'
        PROVE  /\ call[s] \in Call /\ call'[s] = call[s] /\ c \in Case
               /\ c \in Snapshots(s) \/ (s = r /\ c = Row(s)')
    <2>1. c \in Case
      BY <1>2 DEF Snapshots, TypeOK
    <2>2. CASE s = r
      BY <1>1, <2>1, <2>2 DEF Adds
    <2>3. CASE s # r
      <3>1. c \in Snapshots(s) /\ call'[s] = call[s]
        BY <1>3, <2>3 DEF Snapshots
      <3>2. call[s] \in Call
        BY <3>1 DEF SnapshotsTell, Current
      <3>3. QED
        BY <2>1, <3>1, <3>2
    <2>4. QED
      BY <2>2, <2>3
  <1>5. ASSUME NEW s \in Requests PROVE Current(s)'
    <2> SUFFICES ASSUME NEW c \in Snapshots(s)'
                 PROVE  /\ call'[s] \in Call /\ Row(s)' # NoRow
                        /\ c.version <= Row(s)'.version
                        /\ c.version = Row(s)'.version => c = Row(s)'
      BY DEF Current
    <2>1. /\ call[s] \in Call /\ call'[s] = call[s] /\ c \in Case /\ c.version \in Nat
          /\ c \in Snapshots(s) \/ c = Row(s)'
      BY <1>4 DEF Case
    <2>2. CASE c = Row(s)'
      BY <2>1, <2>2, NoRowAssumption
    <2>3. CASE c \in Snapshots(s)
      <3>1. /\ Row(s) # NoRow /\ c.version <= Row(s).version
            /\ c.version = Row(s).version => c = Row(s)
        BY <2>3 DEF SnapshotsTell, Current
      <3>2. Grows(s) /\ Row(s) \in Case \cup {NoRow} /\ Row(s)' \in Case \cup {NoRow}
        BY <2>1, RowGrows
      <3>3. /\ Row(s)' # NoRow /\ Row(s)'.version >= Row(s).version
            /\ Row(s)'.version = Row(s).version => Row(s)' = Row(s)
        BY <3>1, <3>2 DEF Grows
      <3>4. Row(s).version \in Nat /\ Row(s)'.version \in Nat
        BY <3>1, <3>2, <3>3 DEF Case
      <3>5. QED
        BY <2>1, <3>1, <3>3, <3>4
    <2>4. QED
      BY <2>1, <2>2, <2>3
  <1>6. Agreement'
    <2> SUFFICES ASSUME NEW s \in Requests, NEW t \in Requests,
                        NEW c \in Snapshots(s)', NEW d \in Snapshots(t)',
                        call'[s].number = call'[t].number, c.version = d.version
                 PROVE  c = d
      BY DEF Agreement
    <2>1. /\ call'[s] = call[s] /\ (c \in Snapshots(s) \/ (s = r /\ c = Row(s)'))
          /\ call'[t] = call[t] /\ (d \in Snapshots(t) \/ (t = r /\ d = Row(t)'))
      BY <1>4
    <2>2. Row(s)' = Row(t)'
      BY DEF Row
    <2>3. CASE c \in Snapshots(s) /\ d \in Snapshots(t)
      BY <2>1, <2>3 DEF SnapshotsTell, Agreement
    <2>4. CASE c = Row(s)'
      BY <1>5, <2>2, <2>4 DEF Current
    <2>5. CASE d = Row(t)'
      BY <1>5, <2>2, <2>5 DEF Current
    <2>6. QED
      BY <2>1, <2>3, <2>4, <2>5
  <1>7. ASSUME NEW s \in Requests, reply'[s].outcome = "Ok" PROVE reply'[s].snapshot # NoRow
    <2>1. reply'[s] = reply[s] \/ (reply'[s].outcome = "Ok" <=> reply'[s].snapshot # NoRow)
      BY <1>1, <1>3 DEF Adds
    <2>2. QED
      BY <1>7, <2>1 DEF SnapshotsTell
  <1>8. QED
    BY <1>5, <1>6, <1>7 DEF SnapshotsTell

LEMMA SnapshotInvariance == Spec => [](IInv /\ SnapshotsTell)
  <1>1. Init => SnapshotsTell
    <2> SUFFICES ASSUME Init PROVE SnapshotsTell
      OBVIOUS
    <2>1. \A r \in Requests : Snapshots(r) = {} /\ reply[r].outcome # "Ok"
      BY DEF Init, Snapshots, Pending, Reply
    <2>2. QED
      BY <2>1 DEF SnapshotsTell, Current, Agreement
  <1>2. IInv /\ SnapshotsTell /\ [Next]_vars => SnapshotsTell'
    <2> SUFFICES ASSUME IInv, SnapshotsTell, [Next]_vars PROVE SnapshotsTell'
      OBVIOUS
    <2>1. CASE UNCHANGED vars
      BY <2>1 DEF vars, SnapshotsTell, Current, Agreement, Snapshots, Row
    <2>2. CASE Next
      BY <2>2, RowsMove, SnapshotStep DEF Next
    <2>3. QED
      BY <2>1, <2>2
  <1>3. QED
    BY <1>1, <1>2, InitIInv, IInvStep, PTL DEF Spec

\* Callers that got one version of a case got one representation of it, although an
\* UPDATE sets single columns and statements are sent again and executed late.
THEOREM VersionNamesRepresentation == Spec => []OneRepresentationPerVersion
  <1>1. SnapshotsTell => OneRepresentationPerVersion
    <2> SUFFICES ASSUME SnapshotsTell, NEW r \in Requests, NEW s \in Requests,
                        reply[r].outcome = "Ok", reply[s].outcome = "Ok",
                        call[r].number = call[s].number,
                        reply[r].snapshot.version = reply[s].snapshot.version
                 PROVE  reply[r].snapshot = reply[s].snapshot
      BY DEF OneRepresentationPerVersion
    <2>1. reply[r].snapshot \in Snapshots(r) /\ reply[s].snapshot \in Snapshots(s)
      BY DEF SnapshotsTell, Snapshots
    <2>2. QED
      BY <2>1 DEF SnapshotsTell, Agreement
  <1>2. QED
    BY <1>1, SnapshotInvariance, PTL

\* CreateCaseAsync "Returns a version-1 snapshot" (CaseService.cs:33): over SQL Server the
\* entity is the request's own until the row is answered, so nothing can come between.
THEOREM CreatesReturnVersionOne ==
    Spec => [](\A r \in Requests :
                  reply[r].outcome = "Ok" /\ call[r].kind = "create" =>
                      reply[r].snapshot = NewCase(call[r].severity))
  <1>1. IInv => \A r \in Requests :
                   reply[r].outcome = "Ok" /\ call[r].kind = "create" =>
                       reply[r].snapshot = NewCase(call[r].severity)
    <2> SUFFICES ASSUME IInv, NEW r \in Requests, reply[r].outcome = "Ok", call[r].kind = "create"
                 PROVE  reply[r].snapshot = NewCase(call[r].severity)
      OBVIOUS
    <2>1. effect[r] # NoRow /\ effect[r] = reply[r].snapshot
      BY DEF IInv, TruthfulSuccess, Truthful
    <2>2. Staged(r) /\ effect[r] = tracked[r].current
      BY <2>1 DEF IInv, Statements, Statement, Sent, WasApplied
    <2>3. tracked[r] = Entry(NoRow, NewCase(call[r].severity))
      BY <2>2 DEF Staged, Mutations
    <2>4. QED
      BY <2>1, <2>2, <2>3 DEF Entry
  <1>2. QED
    BY <1>1, Invariance, PTL

-----------------------------------------------------------------------------
\* What a step may never do.

\* A row is inserted at version 1 and changes by one version at a time.
THEOREM VersionsCount == Spec => VersionCountsChanges
  <1>1. IInv /\ [Next]_vars =>
            [\A n \in Numbers :
                 db'[n] # db[n] =>
                     \/ db[n] = NoRow /\ db'[n].version = 1
                     \/ db[n] # NoRow /\ db'[n] # NoRow /\ db'[n].version = db[n].version + 1]_vars
    <2> SUFFICES ASSUME IInv, [Next]_vars, NEW n \in Numbers, db'[n] # db[n]
                 PROVE  \/ db[n] = NoRow /\ db'[n].version = 1
                        \/ db[n] # NoRow /\ db'[n] # NoRow /\ db'[n].version = db[n].version + 1
      OBVIOUS
    <2>1. Moves(n)
      BY RowsMove
    <2>2. QED
      BY <2>1, NoRowAssumption DEF Moves
  <1>2. QED
    BY <1>1, Invariance, PTL DEF Spec, VersionCountsChanges

\* A statement of a call that was applied, or answered, changes nothing.
LEMMA LateStatement ==
    ASSUME IInv, NEW r \in Requests, effect[r] # NoRow \/ Answered(r),
           Execute(r) \/ ExecuteOrphan(r)
    PROVE  UNCHANGED <<db, effect>>
  <1>0. TypeOK /\ Local(r) /\ Statement(r)
    BY IInvIsLocal DEF Local
  <1>1. RunStatement(r) /\ (pc[r] = "write" \/ orphans[r] > 0)
    BY DEF Execute, ExecuteOrphan
  <1>2. /\ call[r] \in Call /\ call[r].number \in Numbers /\ Staged(r) /\ Pinned(r)
        /\ call[r].kind # "get"
    BY <1>1, Running DEF Staged, Mutations
  <1>3. Row(r) \in Case \cup {NoRow} /\ tracked[r].original \in Case \cup {NoRow}
    BY <1>0, <1>2 DEF TypeOK, Row
  <1>4. CASE effect[r] # NoRow
    <2>1. /\ effect[r] = tracked[r].current /\ Row(r) # NoRow
          /\ Row(r).version >= tracked[r].current.version
      BY <1>4, EffectNeedsCall DEF WasApplied
    <2>2. CASE /\ db' = [db EXCEPT ![call[r].number] = tracked[r].current]
               /\ effect' = [effect EXCEPT ![r] = tracked[r].current]
               /\ AppliesTo(r, Row(r))
      <3>1. Row(r) = tracked[r].original /\ tracked[r].original # NoRow
        BY <2>1, <2>2 DEF AppliesTo
      <3>2. Row(r).version \in Nat
        BY <1>3, <3>1 DEF Case
      <3>3. tracked[r].current = Row(r)
        BY <2>1, <2>2, <3>1, <3>2 DEF AppliesTo
      <3>4. QED
        BY <1>0, <1>2, <2>1, <2>2, <3>3 DEF TypeOK, Row
    <2>3. QED
      BY <1>0, <1>1, <1>2, <2>2, StatementEffect
  <1>5. CASE effect[r] = NoRow
    <2>1. reply[r].outcome \in Refusals
      BY <1>0, <1>2, <1>5 DEF Answered, Local, Truthful
    <2>2. pc[r] = "done"
      BY <1>0, <2>1 DEF Statement, Progress, Refusals
    <2>3. Spent(r)
      BY <1>0, <1>1, <2>1, <2>2 DEF Statement, Sent
    <2>4. ~AppliesTo(r, Row(r))
      BY <1>3, <2>3 DEF AppliesTo, Spent, Case
    <2>5. QED
      BY <1>0, <1>1, <1>2, <2>4, StatementEffect
  <1>6. QED
    BY <1>4, <1>5

\* A statement sent again, or executed late, changes nothing once its call was
\* applied or answered: what the retries of the connection may not break.
THEOREM EffectsHappenOnce == Spec => AppliedOnce
  <1>1. IInv =>
            [\A r \in Requests :
                 /\ effect[r] # NoRow \/ Answered(r)
                 /\ Execute(r) \/ ExecuteOrphan(r)
                 => UNCHANGED <<db, effect>>]_vars
    BY LateStatement
  <1>2. QED
    BY <1>1, Invariance, PTL DEF AppliedOnce

-----------------------------------------------------------------------------
(***************************************************************************)
(* What a refusal says of its own change.  A call that is not answered yet  *)
(* says nothing, one that is answered takes no effect any more, and one     *)
(* that is refused after its effect is refused by Translate or by the       *)
(* result of an INSERT.                                                     *)
(***************************************************************************)

\* A call that is refused before it sent its statement has no effect to admit.
LEMMA NothingToAdmit ==
    ASSUME NEW r \in Requests, effect'[r] = NoRow
    PROVE  AdmitsItsChange(r)'
  BY DEF AdmitsItsChange, IsChange

\* A reply that refuses nothing admits everything.
LEMMA NoRefusal ==
    ASSUME NEW r \in Requests, reply'[r].outcome \notin Refusals
    PROVE  AdmitsItsChange(r)'
  BY DEF AdmitsItsChange

\* The acting request's refusal admits the change it made.
LEMMA AdmitStep ==
    ASSUME IInv, NEW r \in Requests, AdmitsItsChange(r),
           Begin(r) \/ Step(r) \/ Retry(r) \/ GiveUp(r) \/ ExecuteOrphan(r)
    PROVE  AdmitsItsChange(r)'
  <1>0. TypeOK /\ Statement(r) /\ Progress(r)
    BY IInvIsLocal DEF Local, Statement
  <1>1. pc[r] # "done" => reply[r].outcome \notin Refusals
    BY <1>0 DEF Progress, Refusals
  <1>2. CASE Begin(r) \/ Execute(r) \/ Retry(r)
    <2>1. reply' = reply /\ pc[r] # "done"
      BY <1>2 DEF Begin, Execute, Retry, Goto, AtDatabase, Results
    <2>2. QED
      BY <1>1, <2>1, NoRefusal
  <1>3. CASE Construct(r) \/ Load(r) \/ Mutate(r)
    <2>1. effect' = effect /\ effect[r] = NoRow
      BY <1>0, <1>3 DEF Construct, Load, Mutate, Progress
    <2>2. QED
      BY <2>1, NothingToAdmit
  <1>4. CASE Acknowledge(r)
    <2>1. CASE pc[r] = "affected"
      <3>1. reply'[r] = Ok(tracked[r].current)
        BY <1>0, <1>4, <2>1 DEF Acknowledge, Answer, TypeOK
      <3>2. QED
        BY <3>1, NoRefusal DEF Ok, Reply, Refusals
    <2>2. CASE pc[r] = "duplicate"
      <3>1. reply'[r] = Throw("InvalidOperation") /\ call' = call
        BY <1>0, <1>4, <2>2 DEF Acknowledge, Answer, TypeOK
      <3>2. reply'[r].outcome = "InvalidOperation"
        BY <3>1 DEF Throw, Reply
      <3>3. call'[r].kind = "create"
        BY <1>0, <2>2, <3>1 DEF Statement
      <3>4. QED
        BY <3>2, <3>3 DEF AdmitsItsChange
    <2>3. CASE pc[r] = "unaffected"
      <3>1. reply' = reply
        BY <1>4, <2>3 DEF Acknowledge, Goto
      <3>2. QED
        BY <1>1, <2>3, <3>1, NoRefusal
    <2>4. QED
      BY <1>4, <2>1, <2>2, <2>3 DEF Acknowledge
  <1>5. CASE Translate(r)
    <2>1. CASE effect[r] = NoRow
      BY <1>5, <2>1, NothingToAdmit DEF Translate
    <2>2. CASE effect[r] # NoRow
      <3>1. Row(r) # NoRow /\ Row(r).version >= effect[r].version
        BY <1>0, <2>2 DEF Statement, WasApplied
      <3>2. reply'[r] = CaseConcurrency(Row(r).version) /\ effect' = effect
        BY <1>0, <1>5, <3>1 DEF Translate, Answer, TypeOK, Row
      <3>3. reply'[r].outcome = "CaseConcurrency" /\ reply'[r].actual = Row(r).version
        BY <3>2 DEF CaseConcurrency, Reply
      <3>4. QED
        BY <3>1, <3>2, <3>3 DEF AdmitsItsChange
    <2>3. QED
      BY <2>1, <2>2
  <1>6. CASE GiveUp(r)
    <2>1. reply'[r] = Throw("Unknown")
      BY <1>0, <1>6 DEF GiveUp, Answer, TypeOK
    <2>2. QED
      BY <2>1, NoRefusal DEF Throw, Reply, Refusals
  <1>7. CASE ExecuteOrphan(r)
    <2>1. UNCHANGED <<call, reply>>
      BY <1>7 DEF ExecuteOrphan
    <2>2. CASE reply[r].outcome \in Refusals
      <3>1. effect' = effect
        BY <1>7, <2>2, LateStatement DEF Answered
      <3>2. QED
        BY <2>1, <3>1 DEF AdmitsItsChange
    <2>3. CASE reply[r].outcome \notin Refusals
      BY <2>1, <2>3, NoRefusal
    <2>4. QED
      BY <2>2, <2>3
  <1>8. QED
    BY <1>2, <1>3, <1>4, <1>5, <1>6, <1>7 DEF Step

\* Other requests leave a request's reply and its change alone.
LEMMA AdmitOthers ==
    ASSUME IInv, NEW r \in Requests, NEW s \in Requests, r # s, AdmitsItsChange(r),
           Begin(s) \/ Step(s) \/ Retry(s) \/ GiveUp(s) \/ ExecuteOrphan(s)
    PROVE  AdmitsItsChange(r)'
  <1>1. reply'[r] = reply[r] /\ effect'[r] = effect[r] /\ call'[r] = call[r]
    BY OthersUntouched
  <1>2. QED
    BY <1>1 DEF AdmitsItsChange

\* However often its statement was sent and whenever it was executed, a refused call that
\* changed its case is told so: by a conflict at a version that has the change, or by a
\* create's duplicate.  Every other refusal tells that nothing was changed.
THEOREM RefusalsAdmitChange == Spec => []RefusalsAdmitTheirChange
  <1>1. Init => RefusalsAdmitTheirChange
    BY DEF Init, RefusalsAdmitTheirChange, AdmitsItsChange, Pending, Reply, Refusals
  <1>2. IInv /\ RefusalsAdmitTheirChange /\ [Next]_vars => RefusalsAdmitTheirChange'
    <2> SUFFICES ASSUME IInv, RefusalsAdmitTheirChange, [Next]_vars, NEW r \in Requests
                 PROVE  AdmitsItsChange(r)'
      BY DEF RefusalsAdmitTheirChange
    <2>1. AdmitsItsChange(r)
      BY DEF RefusalsAdmitTheirChange
    <2>2. CASE UNCHANGED vars
      BY <2>1, <2>2 DEF vars, AdmitsItsChange
    <2>3. ASSUME NEW s \in Requests,
                 Begin(s) \/ Step(s) \/ Retry(s) \/ GiveUp(s) \/ ExecuteOrphan(s)
          PROVE  AdmitsItsChange(r)'
      BY <2>1, <2>3, AdmitStep, AdmitOthers
    <2>4. QED
      BY <2>2, <2>3 DEF Next
  <1>3. QED
    BY <1>1, <1>2, Invariance, PTL DEF Spec

-----------------------------------------------------------------------------
(***************************************************************************)
(* SqlCaseService implements VersionedCases, for every value of the         *)
(* constants: its table is the abstract store, its replies the abstract     *)
(* answers, and the statement that applies is the moment a call takes       *)
(* effect.                                                                  *)
(***************************************************************************)

\* The two specifications share the rules of a case and the calls.
LEMMA SharedCalls ==
    /\ VC!Case = Case
    /\ VC!Call = Call
    /\ VC!Mutations = Mutations
    /\ VC!Pending = Pending
    /\ \A x : VC!Throw(x) = Throw(x)
    /\ \A c : VC!Ok(c) = Ok(c)
    /\ \A v : VC!CaseConcurrency(v) = CaseConcurrency(v)
    /\ \A s : VC!NewCase(s) = NewCase(s)
    /\ \A s : VC!ValidSeverity(s) = ValidSeverity(s)
    /\ \A c, k : VC!ForbiddenTransition(c, k) = ForbiddenTransition(c, k)
    /\ \A c, k : VC!Refused(c, k) = Refused(c, k)
    /\ \A c, k : VC!Mutated(c, k) = Mutated(c, k)
  BY DEF VC!Case, Case, VC!Call, Call, VC!CreateCall, CreateCall, VC!SeverityCall, SeverityCall,
         VC!StateCall, StateCall, VC!GetCall, GetCall, VC!Mutations, Mutations,
         VC!Pending, Pending, VC!Throw, Throw, VC!Ok, Ok, VC!CaseConcurrency, CaseConcurrency,
         VC!Reply, Reply, VC!NewCase, NewCase, VC!ValidSeverity, ValidSeverity,
         VC!ForbiddenTransition, ForbiddenTransition, VC!Refused, Refused,
         VC!InvalidArgument, InvalidArgument, VC!Mutated, Mutated, VC!Applied, Applied,
         VC!StateChanged, StateChanged

\* The initial states are initial states of VersionedCases.
LEMMA InitRefines == Init => VC!Init
  BY SharedCalls, InitialRowsAssumption DEF Init, VC!Init

\* A request whose reply is pending is one the abstract caller waits for.
LEMMA PendingWaits ==
    ASSUME IInv, NEW r \in Requests, pc[r] \notin {"ready", "done"}
    PROVE  VC!Waiting(r)
  <1>1. call[r] # NoCall /\ reply[r] = Pending
    BY IInvIsLocal DEF Local, Statement, Progress
  <1>2. QED
    BY <1>1, SharedCalls DEF VC!Waiting

\* An answer is a reply that leaves the cases alone.
LEMMA AnswerReplies ==
    ASSUME NEW r \in Requests, NEW x, Answer(r, x), UNCHANGED <<db, call, effect>>
    PROVE  VC!Replies(r, x)
  BY DEF Answer, VC!Replies

\* A call that starts is submitted.
LEMMA BeginRefines ==
    ASSUME NEW r \in Requests, IInv, Begin(r)
    PROVE  VC!Submit(r)
  <1>1. call[r] = NoCall
    BY IInvIsLocal DEF Local, Statement, Progress, Begin
  <1>2. QED
    BY <1>1, SharedCalls DEF Begin, Goto, VC!Submit

\* A rejected argument is refused; staging is invisible.
LEMMA ConstructRefines ==
    ASSUME IInv, NEW r \in Requests, Construct(r)
    PROVE  VC!RefuseArgument(r) \/ UNCHANGED VC!vars
  <1>1. VC!Waiting(r) /\ call[r].kind = "create" /\ effect[r] = NoRow
    BY PendingWaits, IInvIsLocal DEF Construct, Local, Statement, Progress
  <1>2. CASE ~ValidSeverity(call[r].severity)
    <2>1. VC!Replies(r, Throw("Argument"))
      BY <1>2, AnswerReplies DEF Construct
    <2>2. QED
      BY <1>1, <1>2, <2>1, SharedCalls DEF VC!RefuseArgument
  <1>3. CASE ValidSeverity(call[r].severity)
    BY <1>3 DEF Construct, Goto, VC!vars
  <1>4. QED
    BY <1>2, <1>3

\* A missing case and a read are answered; tracking a row is invisible.
LEMMA LoadRefines ==
    ASSUME IInv, NEW r \in Requests, Load(r)
    PROVE  VC!RefuseMissing(r) \/ VC!Read(r) \/ UNCHANGED VC!vars
  <1>1. VC!Waiting(r) /\ call[r].kind # "create" /\ effect[r] = NoRow
    BY PendingWaits, IInvIsLocal DEF Load, Local, Statement, Progress
  <1>2. CASE db[call[r].number] = NoRow
    <2>1. VC!Replies(r, Throw("KeyNotFound"))
      BY <1>2, AnswerReplies DEF Load
    <2>2. QED
      BY <1>1, <1>2, <2>1, SharedCalls DEF VC!RefuseMissing
  <1>3. CASE db[call[r].number] # NoRow /\ call[r].kind = "get"
    <2>1. VC!Replies(r, Ok(db[call[r].number]))
      BY <1>3, AnswerReplies DEF Load
    <2>2. QED
      BY <1>1, <1>3, <2>1, SharedCalls DEF VC!Read
  <1>4. CASE db[call[r].number] # NoRow /\ call[r].kind # "get"
    BY <1>4 DEF Load, Goto, VC!vars
  <1>5. QED
    BY <1>2, <1>3, <1>4

\* A refusal judged on the copy holds of the stored case, or held of it.
LEMMA MutateRefines ==
    ASSUME IInv, NEW r \in Requests, Mutate(r)
    PROVE  \/ VC!RefuseConflict(r) \/ VC!RefuseTransition(r) \/ VC!RefuseArgument(r)
           \/ UNCHANGED VC!vars
  <1>1. /\ VC!Waiting(r) /\ TypeOK /\ Pinned(r) /\ call[r].kind \in Mutations
        /\ tracked[r].original # NoRow /\ tracked[r].current = tracked[r].original
        /\ effect[r] = NoRow
    BY PendingWaits, IInvIsLocal DEF Mutate, Local, Statement, Progress
  <1>2. /\ tracked[r].current \in Case /\ Row(r) = db[call[r].number] /\ Row(r) # NoRow
        /\ Row(r).version >= tracked[r].current.version
        /\ Row(r).version = tracked[r].current.version => Row(r) = tracked[r].current
    BY <1>1 DEF TypeOK, Pinned, Row
  <1>3. Row(r) \in Case
    BY <1>1, <1>2, MadeCall, IInvIsLocal DEF TypeOK, Local, Mutate
  <1>4. CASE /\ tracked[r].current.version # call[r].expected
             /\ Answer(r, CaseConcurrency(tracked[r].current.version))
    <2>1. VC!Replies(r, CaseConcurrency(tracked[r].current.version))
      BY <1>4, AnswerReplies DEF Mutate
    <2>2. tracked[r].current.version \in 1..Row(r).version
      BY <1>2, <1>3 DEF Case
    <2>3. QED
      BY <1>1, <1>2, <1>4, <2>1, <2>2, SharedCalls DEF VC!RefuseConflict
  <1>5. CASE /\ tracked[r].current.version = call[r].expected
             /\ ForbiddenTransition(tracked[r].current, call[r])
             /\ Answer(r, Throw("InvalidOperation"))
    <2>1. VC!Replies(r, Throw("InvalidOperation"))
      BY <1>5, AnswerReplies DEF Mutate
    <2>2. /\ Row(r).version >= call[r].expected
          /\ Row(r).version = call[r].expected => ForbiddenTransition(Row(r), call[r])
      BY <1>2, <1>5
    <2>3. call[r].kind # "get"
      BY <1>1 DEF Mutations
    <2>4. QED
      BY <1>1, <1>2, <2>1, <2>2, <2>3, SharedCalls DEF VC!RefuseTransition
  <1>6. CASE InvalidArgument(call[r]) /\ Answer(r, Throw("Argument"))
    <2>1. VC!Replies(r, Throw("Argument"))
      BY <1>6, AnswerReplies DEF Mutate
    <2>2. QED
      BY <1>1, <1>6, <2>1, SharedCalls DEF VC!RefuseArgument, InvalidArgument
  <1>7. CASE Goto(r, "write")
    BY <1>7 DEF Mutate, Goto, VC!vars
  <1>8. QED
    BY <1>4, <1>5, <1>6, <1>7 DEF Mutate

\* A statement that applies is the instant its call takes effect.
LEMMA RunRefines ==
    ASSUME IInv, NEW r \in Requests, Execute(r) \/ ExecuteOrphan(r)
    PROVE  VC!TakeEffect(r) \/ UNCHANGED VC!vars
  <1>0. TypeOK /\ Local(r) /\ Statement(r)
    BY IInvIsLocal DEF Local
  <1>1. /\ RunStatement(r) /\ (pc[r] = "write" \/ orphans[r] > 0)
        /\ UNCHANGED <<call, reply>>
    BY DEF Execute, ExecuteOrphan, Goto
  <1>2. /\ call[r] \in Call /\ call[r].number \in Numbers /\ Staged(r) /\ Pinned(r)
        /\ call[r] # NoCall
    BY <1>1, Running, NoCallAssumption
  <1>3. CASE UNCHANGED <<db, effect>>
    BY <1>1, <1>3 DEF VC!vars
  <1>4. CASE ~UNCHANGED <<db, effect>>
    <2>1. effect[r] = NoRow /\ ~Answered(r)
      BY <1>4, LateStatement
    <2>2. /\ db' = [db EXCEPT ![call[r].number] = tracked[r].current]
          /\ effect' = [effect EXCEPT ![r] = tracked[r].current]
          /\ AppliesTo(r, Row(r))
      BY <1>0, <1>1, <1>2, <1>4, StatementEffect
    <2>3. VC!Store(r, tracked[r].current)
      BY <2>2 DEF VC!Store
    <2>4. VC!Create(r) \/ VC!Change(r)
      <3>1. CASE /\ call[r].kind = "create" /\ ValidSeverity(call[r].severity)
                 /\ tracked[r] = Entry(NoRow, NewCase(call[r].severity))
        <4>1. tracked[r].original = NoRow /\ tracked[r].current = NewCase(call[r].severity)
          BY <3>1 DEF Entry
        <4>2. db[call[r].number] = NoRow
          BY <2>2, <4>1 DEF AppliesTo, Row
        <4>3. QED
          BY <2>3, <3>1, <4>1, <4>2, SharedCalls DEF VC!Create
      <3>2. CASE /\ call[r].kind \in Mutations
                 /\ tracked[r].original # NoRow
                 /\ tracked[r].original.version = call[r].expected
                 /\ ~Refused(tracked[r].original, call[r])
                 /\ tracked[r].current = Mutated(tracked[r].original, call[r])
        <4>1. db[call[r].number] = tracked[r].original
          BY <2>2, <3>2 DEF AppliesTo, Row
        <4>2. QED
          BY <2>3, <3>2, <4>1, SharedCalls DEF VC!Change
      <3>3. QED
        BY <1>2, <3>1, <3>2 DEF Staged
    <2>5. reply[r].outcome \in {"Pending", "Unknown"}
      BY <1>0, <2>1 DEF TypeOK, Answered, Outcomes, Refusals
    <2>6. QED
      BY <1>1, <1>2, <2>1, <2>4, <2>5, SharedCalls DEF VC!TakeEffect
  <1>5. QED
    BY <1>3, <1>4

\* Success is answered with the effect; a duplicate key is refused.
LEMMA AcknowledgeRefines ==
    ASSUME IInv, NEW r \in Requests, Acknowledge(r)
    PROVE  VC!Succeed(r) \/ VC!RefuseTransition(r) \/ UNCHANGED VC!vars
  <1>0. TypeOK /\ Statement(r) /\ pc[r] \in Results
    BY IInvIsLocal DEF Local, Acknowledge, Results
  <1>1. VC!Waiting(r) /\ call[r] \in Call /\ Staged(r)
    BY <1>0, PendingWaits, MadeCall DEF Statement, Sent, Results
  <1>2. CASE pc[r] = "affected"
    <2>1. effect[r] # NoRow /\ effect[r] = tracked[r].current
      BY <1>0, <1>2 DEF Statement, WasApplied
    <2>2. VC!Replies(r, Ok(effect[r]))
      BY <1>2, <2>1, AnswerReplies DEF Acknowledge
    <2>3. QED
      BY <1>1, <2>1, <2>2, SharedCalls DEF VC!Succeed
  <1>3. CASE pc[r] = "duplicate"
    <2>1. VC!Replies(r, Throw("InvalidOperation"))
      BY <1>3, AnswerReplies DEF Acknowledge
    <2>2. call[r].kind = "create" /\ db[call[r].number] # NoRow
      BY <1>0, <1>3 DEF Statement, Spent, Row
    <2>3. QED
      BY <1>1, <2>1, <2>2, SharedCalls DEF VC!RefuseTransition, Mutations
  <1>4. CASE pc[r] = "unaffected"
    BY <1>4 DEF Acknowledge, Goto, VC!vars
  <1>5. QED
    BY <1>0, <1>2, <1>3, <1>4 DEF Results

\* The version that is read again is one the case has reached.
LEMMA TranslateRefines ==
    ASSUME IInv, NEW r \in Requests, Translate(r)
    PROVE  VC!RefuseConflict(r)
  <1>0. TypeOK /\ Statement(r) /\ pc[r] = "translate"
    BY IInvIsLocal DEF Local, Translate
  <1>1. /\ VC!Waiting(r) /\ call[r] \in Call /\ call[r].kind \in Mutations
        /\ Spent(r) /\ Staged(r)
    BY <1>0, PendingWaits, MadeCall DEF Statement, Sent
  <1>2. /\ db[call[r].number] \in Case /\ db[call[r].number] # NoRow
        /\ db[call[r].number].version > call[r].expected
    BY <1>0, <1>1, CallFields DEF Spent, Staged, Row, TypeOK, Mutations
  <1>3. VC!Replies(r, CaseConcurrency(db[call[r].number].version))
    BY <1>2, AnswerReplies DEF Translate
  <1>4. /\ db[call[r].number].version \in 1..db[call[r].number].version
        /\ db[call[r].number].version # call[r].expected
    BY <1>1, <1>2, CallFields DEF Case
  <1>5. effect[r] # NoRow => db[call[r].number].version >= effect[r].version
    BY <1>0 DEF Statement, WasApplied, Row
  <1>6. QED
    BY <1>1, <1>2, <1>3, <1>4, <1>5, SharedCalls DEF VC!RefuseConflict

\* A retry is invisible, and giving up loses track.
LEMMA FailureRefines ==
    ASSUME IInv, NEW r \in Requests, Retry(r) \/ GiveUp(r)
    PROVE  VC!LoseTrack(r) \/ UNCHANGED VC!vars
  <1>1. CASE Retry(r)
    BY <1>1 DEF Retry, Goto, VC!vars
  <1>2. CASE GiveUp(r)
    <2>1. VC!Waiting(r)
      BY <1>2, PendingWaits DEF GiveUp, AtDatabase, Results
    <2>2. VC!Replies(r, Throw("Unknown"))
      BY <1>2, AnswerReplies DEF GiveUp
    <2>3. QED
      BY <2>1, <2>2, SharedCalls DEF VC!LoseTrack
  <1>3. QED
    BY <1>1, <1>2

\* Every step is a step of VersionedCases or a stutter.
LEMMA StepRefines == IInv /\ [Next]_vars => [VC!Next]_VC!vars
  <1> SUFFICES ASSUME IInv, [Next]_vars PROVE [VC!Next]_VC!vars
    OBVIOUS
  <1>1. ASSUME NEW r \in Requests,
               Begin(r) \/ Step(r) \/ Retry(r) \/ GiveUp(r) \/ ExecuteOrphan(r)
        PROVE  [VC!Next]_VC!vars
    BY <1>1, BeginRefines, ConstructRefines, LoadRefines, MutateRefines, RunRefines,
       AcknowledgeRefines, TranslateRefines, FailureRefines DEF Step, VC!Next
  <1>2. CASE UNCHANGED vars
    BY <1>2 DEF vars, VC!vars
  <1>3. QED
    BY <1>1, <1>2 DEF Next

\* The SQL-backed service keeps the promise of VersionedCases.
THEOREM Refinement == Spec => ImplementsVersionedCases
  BY InitRefines, StepRefines, Invariance, PTL DEF Spec, VC!Spec, ImplementsVersionedCases
=============================================================================
