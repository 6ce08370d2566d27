--------------------------- MODULE InMemoryCaseProofs ---------------------------
(***************************************************************************)
(* What holds of InMemoryCaseService for any number of requests, case       *)
(* numbers, severities, versions and stored cases, and at the end what      *)
(* holds of a listing that runs beside it (CaseListing).  That case numbers *)
(* are ordered (NumbersAssumption) is a fact that only the listing needs.   *)
(***************************************************************************)
EXTENDS CaseListing, CaseCallsProofs, FiniteSetTheorems

-----------------------------------------------------------------------------
\* The inductive invariant.

Inside(r) == pc[r] \in {"mutate", "bump", "capture"}

\* Whoever is inside the lock of a case holds it, alone.
Exclusion ==
    /\ \A n \in Numbers : \A r, s \in holders[n] : r = s
    /\ \A r \in Requests, n \in Numbers :
          r \in holders[n] <=> Inside(r) /\ call[r].number = n

\* An object whose lock is free is as its last holder left it.
FreeIsSettled ==
    \A n \in Numbers :
        /\ holders[n] = {} => cases[n] = settled[n]
        /\ cases[n] = NoRow <=> settled[n] = NoRow

\* Where a request can be, by the kind of its call.
Progress(r) ==
    /\ pc[r] = "ready" => call[r] = NoCall /\ captured[r] = NoRow
    /\ pc[r] # "ready" => call[r] \in Call
    /\ pc[r] # "done" => reply[r] = Pending
    /\ pc[r] = "done" => reply[r].outcome # "Pending"
    /\ pc[r] = "add" => call[r].kind = "create"
    /\ pc[r] = "load" => call[r].kind # "create"
    /\ pc[r] \in {"mutate", "bump"} => call[r].kind \in Mutations
    /\ pc[r] = "save" => call[r].kind # "get"

\* What a request has written: nothing before its effect, its effect after it.
Written(r) ==
    /\ pc[r] \in {"ready", "add", "load"} => effect[r] = NoRow
    /\ pc[r] \in {"lock", "mutate", "bump", "capture"} /\ call[r].kind # "create" => effect[r] = NoRow
    /\ pc[r] \in {"lock", "capture"} /\ call[r].kind = "create" => effect[r] # NoRow
    /\ pc[r] = "save" => effect[r] # NoRow
    /\ pc[r] = "save" /\ call[r].kind \in Mutations => captured[r] = effect[r]
    /\ pc[r] = "done" /\ reply[r].outcome = "Ok" =>
          /\ reply[r].snapshot # NoRow
          /\ call[r].kind = "create" => effect[r] # NoRow

\* What the object of a request that is past its lookup holds, against the
\* case its callers know.
Guarded(r) ==
    LET object == cases[call[r].number]
        case == settled[call[r].number]
    IN  /\ pc[r] \in {"lock", "mutate", "bump", "capture", "save"} => case # NoRow
        /\ pc[r] = "mutate" => object = case
        /\ pc[r] = "bump" =>
              /\ case.version = call[r].expected
              /\ ~Refused(case, call[r])
              /\ StateChanged(case, call[r])
              /\ object = Applied(case, call[r])
        /\ pc[r] = "capture" /\ call[r].kind \in Mutations =>
              /\ case.version = call[r].expected
              /\ ~Refused(case, call[r])
              /\ object = Mutated(case, call[r])
        /\ pc[r] = "capture" /\ call[r].kind \notin Mutations => object = case

Local(r) == Progress(r) /\ Written(r) /\ Guarded(r)

\* The snapshots of its case a request has.
Known(r) == {effect[r], captured[r], reply[r].snapshot} \ {NoRow}

\* A snapshot of an earlier version, or the case as it is.
Precedes(x, case) ==
    /\ case # NoRow
    /\ x.version <= case.version
    /\ x.version = case.version => x = case

Current == \A r \in Requests : \A x \in Known(r) : Precedes(x, settled[call[r].number])

Agreement ==
    \A r, s \in Requests :
        \A x \in Known(r), y \in Known(s) :
            call[r].number = call[s].number /\ x.version = y.version => x = y

IInv ==
    /\ TypeOK
    /\ Exclusion
    /\ FreeIsSettled
    /\ \A r \in Requests : Local(r)
    /\ Current
    /\ Agreement
    /\ NoLostUpdate

\* Nothing is locked, asked or answered at the start.
LEMMA InitIInv == Init => IInv
  <1> SUFFICES ASSUME Init PROVE IInv
    OBVIOUS
  <1>1. TypeOK
    BY InitialRowsAssumption DEF Init, TypeOK, Labels, Pending, Reply, Outcomes
  <1>2. Exclusion /\ FreeIsSettled
    BY DEF Init, Exclusion, FreeIsSettled, Inside
  <1>3. ASSUME NEW r \in Requests PROVE Local(r) /\ Known(r) = {}
    <2>1. /\ pc[r] = "ready" /\ call[r] = NoCall /\ captured[r] = NoRow
          /\ reply[r] = Pending /\ effect[r] = NoRow
      BY DEF Init
    <2>2. reply[r].outcome = "Pending" /\ reply[r].snapshot = NoRow
      BY <2>1 DEF Pending, Reply
    <2>3. QED
      BY <2>1, <2>2 DEF Local, Progress, Written, Guarded, Known
  <1>4. Current /\ Agreement
    BY <1>3 DEF Current, Agreement
  <1>5. NoLostUpdate
    BY DEF Init, NoLostUpdate
  <1>6. QED
    BY <1>1, <1>2, <1>3, <1>4, <1>5 DEF IInv

-----------------------------------------------------------------------------
\* What a request may rely on when it acts.

\* A request that is past its start has made a call.
LEMMA MadeCall ==
    ASSUME IInv, NEW r \in Requests, pc[r] # "ready"
    PROVE  /\ call[r] \in Call
           /\ call[r].number \in Numbers
           /\ call[r].kind \in {"create", "get"} \cup Mutations
           /\ call[r].severity \in Int
  <1>1. call[r] \in Call
    BY DEF IInv, Local, Progress
  <1>2. QED
    BY <1>1, CallFields

\* Inside the lock of a case a request is alone, and the case exists.
LEMMA InsideLock ==
    ASSUME IInv, NEW r \in Requests, Inside(r)
    PROVE  /\ holders[call[r].number] = {r}
           /\ Object(r) \in Case
           /\ settled[call[r].number] \in Case
  <1>1. pc[r] # "ready" /\ pc[r] \in {"lock", "mutate", "bump", "capture", "save"}
    BY DEF Inside
  <1>2. call[r].number \in Numbers
    BY <1>1, MadeCall
  <1>3. r \in holders[call[r].number] /\ \A s, t \in holders[call[r].number] : s = t
    BY <1>2 DEF IInv, Exclusion
  <1>4. settled[call[r].number] # NoRow /\ cases[call[r].number] # NoRow
    BY <1>1, <1>2 DEF IInv, Local, Guarded, FreeIsSettled
  <1>5. QED
    BY <1>2, <1>3, <1>4 DEF IInv, TypeOK, Object

\* The object a request is about to leave: the settled case, mutated if the
\* call is a mutation and it was not refused.
LEMMA AtCapture ==
    ASSUME IInv, NEW r \in Requests, pc[r] = "capture"
    PROVE  /\ Object(r) \in Case
           /\ settled[call[r].number] \in Case
           /\ \/ Object(r) = settled[call[r].number]
              \/ Object(r).version = settled[call[r].number].version + 1
           /\ call[r].kind \in Mutations =>
                 /\ settled[call[r].number].version = call[r].expected
                 /\ ~Refused(settled[call[r].number], call[r])
                 /\ Object(r) = Mutated(settled[call[r].number], call[r])
           /\ call[r].kind \notin Mutations => Object(r) = settled[call[r].number]
  <1>1. Object(r) \in Case /\ settled[call[r].number] \in Case
    BY InsideLock DEF Inside
  <1>2. Guarded(r) /\ call[r].severity \in Int
    BY MadeCall DEF IInv, Local
  <1>3. QED
    BY <1>1, <1>2, MutationOfCase DEF Guarded, Object

-----------------------------------------------------------------------------
\* What a step of one request does to the variables of the others.

Frame(r) ==
    \A s \in Requests \ {r} :
        /\ pc'[s] = pc[s] /\ call'[s] = call[s] /\ captured'[s] = captured[s]
        /\ reply'[s] = reply[s] /\ effect'[s] = effect[s]

\* A request writes only its own.
LEMMA OwnVariables ==
    ASSUME TypeOK, NEW r \in Requests, Begin(r) \/ Step(r)
    PROVE  Frame(r)
  <1>1. CASE Begin(r)
    BY <1>1 DEF Begin, Goto, Frame, TypeOK
  <1>2. CASE Add(r)
    BY <1>2 DEF Add, Answer, Goto, Frame, TypeOK
  <1>3. CASE Load(r)
    BY <1>3 DEF Load, Answer, Goto, Frame, TypeOK
  <1>4. CASE Lock(r)
    BY <1>4 DEF Lock, Goto, Frame, TypeOK
  <1>5. CASE Mutate(r)
    BY <1>5 DEF Mutate, Refuse, Apply, Answer, Goto, Frame, TypeOK
  <1>6. CASE Bump(r)
    BY <1>6 DEF Bump, Goto, Frame, TypeOK
  <1>7. CASE Capture(r)
    BY <1>7 DEF Capture, Answer, Goto, Frame, TypeOK
  <1>8. CASE Save(r)
    BY <1>8 DEF Save, Answer, Goto, Frame, TypeOK
  <1>9. QED
    BY <1>1, <1>2, <1>3, <1>4, <1>5, <1>6, <1>7, <1>8 DEF Step

-----------------------------------------------------------------------------
\* Type correctness, one step per action.

\* Every reply is a reply.
LEMMA RepliesTyped ==
    /\ \A e \in {"Unknown"} \cup Refusals :
          Throw(e) \in [outcome : Outcomes, snapshot : Case \cup {NoRow}, actual : Nat]
    /\ \A c \in Case : Ok(c) \in [outcome : Outcomes, snapshot : Case \cup {NoRow}, actual : Nat]
    /\ \A c \in Case :
          CaseConcurrency(c.version) \in [outcome : Outcomes, snapshot : Case \cup {NoRow}, actual : Nat]
  BY DEF Throw, Ok, CaseConcurrency, Reply, Outcomes, Refusals, Case

\* A call that ends, ends with a reply.
LEMMA AnswerTyped ==
    ASSUME TypeOK, NEW r \in Requests, NEW x, Answer(r, x),
           x \in [outcome : Outcomes, snapshot : Case \cup {NoRow}, actual : Nat]
    PROVE  /\ pc' \in [Requests -> Labels]
           /\ reply' \in [Requests -> [outcome : Outcomes, snapshot : Case \cup {NoRow}, actual : Nat]]
  BY DEF Answer, TypeOK, Labels

LEMMA TypeStep ==
    ASSUME IInv, [Next]_vars
    PROVE  TypeOK'
  <1>0. TypeOK
    BY DEF IInv
  <1>1. CASE UNCHANGED vars
    BY <1>0, <1>1 DEF TypeOK, vars
  <1>2. ASSUME NEW r \in Requests, Begin(r) PROVE TypeOK'
    BY <1>0, <1>2 DEF Begin, Goto, TypeOK, Labels
  <1>3. ASSUME NEW r \in Requests, Add(r) PROVE TypeOK'
    <2>1. call[r].number \in Numbers /\ call[r].severity \in Int
      BY <1>3, MadeCall DEF Add
    <2>2. ValidSeverity(call[r].severity) => NewCase(call[r].severity) \in Case
      BY <2>1, NewCaseIsCase
    <2>3. CASE /\ UNCHANGED <<cases, holders, call, captured, log, settled, effect>>
               /\ \E e \in Refusals : Answer(r, Throw(e))
      BY <1>0, <2>3, AnswerTyped, RepliesTyped DEF TypeOK
    <2>4. CASE /\ ValidSeverity(call[r].severity)
               /\ cases' = [cases EXCEPT ![call[r].number] = NewCase(call[r].severity)]
               /\ settled' = [settled EXCEPT ![call[r].number] = NewCase(call[r].severity)]
               /\ effect' = [effect EXCEPT ![r] = NewCase(call[r].severity)]
               /\ Goto(r, "save")
               /\ UNCHANGED <<holders, call, captured, log>>
      BY <1>0, <2>1, <2>2, <2>4 DEF Goto, TypeOK, Labels
    <2>5. "Argument" \in Refusals /\ "InvalidOperation" \in Refusals
      BY DEF Refusals
    <2>6. QED
      BY <1>3, <2>3, <2>4, <2>5 DEF Add
  <1>4. ASSUME NEW r \in Requests, Load(r) PROVE TypeOK'
    <2>1. CASE \E e \in {"Unknown"} \cup Refusals : Answer(r, Throw(e))
      BY <1>0, <1>4, <2>1, AnswerTyped, RepliesTyped DEF Load, TypeOK
    <2>2. CASE Goto(r, "lock")
      BY <1>0, <1>4, <2>2 DEF Load, Goto, TypeOK, Labels
    <2>3. QED
      BY <1>4, <2>1, <2>2 DEF Load, Refusals
  <1>5. ASSUME NEW r \in Requests, Lock(r) PROVE TypeOK'
    BY <1>0, <1>5 DEF Lock, AfterLock, Goto, TypeOK, Labels
  <1>6. ASSUME NEW r \in Requests, Mutate(r) PROVE TypeOK'
    <2>1. /\ Object(r) \in Case /\ call[r].number \in Numbers /\ call[r].severity \in Int
          /\ call[r].kind \in Mutations
      BY <1>6, InsideLock, MadeCall DEF Mutate, Inside, IInv, Local, Progress
    <2>2. ~Refused(Object(r), call[r]) => Applied(Object(r), call[r]) \in Case
      BY <2>1, AppliedCase
    <2>3. ASSUME NEW x, Refuse(r, x),
                 x \in [outcome : Outcomes, snapshot : Case \cup {NoRow}, actual : Nat],
                 UNCHANGED <<call, captured, log, settled, effect>>
          PROVE TypeOK'
      BY <1>0, <2>1, <2>3 DEF Refuse, Release, Answer, TypeOK, Labels
    <2>4. CASE Apply(r) /\ ~Refused(Object(r), call[r])
      <3>1. cases' = [cases EXCEPT ![call[r].number] = Applied(Object(r), call[r])]
        BY <2>4 DEF Apply, Object
      <3>2. QED
        BY <1>0, <1>6, <2>1, <2>2, <2>4, <3>1 DEF Mutate, Apply, Goto, TypeOK, Labels
    <2>5. QED
      BY <1>6, <2>1, <2>3, <2>4, RepliesTyped DEF Mutate, Refusals
  <1>7. ASSUME NEW r \in Requests, Bump(r) PROVE TypeOK'
    <2>1. Object(r) \in Case /\ call[r].number \in Numbers
      BY <1>7, InsideLock, MadeCall DEF Bump, Inside
    <2>2. cases' = [cases EXCEPT ![call[r].number] = [Object(r) EXCEPT !.version = @ + 1]]
      BY <1>0, <1>7, <2>1 DEF Bump, Object, TypeOK
    <2>3. QED
      BY <1>0, <1>7, <2>1, <2>2, BumpedIsCase DEF Bump, Goto, TypeOK, Labels
  <1>8. ASSUME NEW r \in Requests, Capture(r) PROVE TypeOK'
    <2>1. Object(r) \in Case /\ call[r].number \in Numbers
      BY <1>8, InsideLock, MadeCall DEF Capture, Inside
    <2>2. LogLevel(call[r], Object(r)) \in {"none", "Information", "Debug"}
      BY DEF LogLevel
    <2>3. CASE Answer(r, Ok(Object(r)))
      <3>1. /\ pc' \in [Requests -> Labels]
            /\ reply' \in [Requests -> [outcome : Outcomes, snapshot : Case \cup {NoRow}, actual : Nat]]
        BY <1>0, <2>1, <2>3, AnswerTyped, RepliesTyped
      <3>2. log' \in [Requests -> {"none", "Information", "Debug"}]
        BY <1>0, <1>8, <2>2 DEF Capture, TypeOK
      <3>3. /\ captured' \in [Requests -> Case \cup {NoRow}]
            /\ effect' \in [Requests -> Case \cup {NoRow}]
        BY <1>0, <1>8, <2>1 DEF Capture, TypeOK
      <3>4. QED
        BY <1>0, <1>8, <2>1, <3>1, <3>2, <3>3 DEF Capture, Release, TypeOK
    <2>4. CASE Goto(r, "save") /\ UNCHANGED log
      <3>1. /\ pc' \in [Requests -> Labels]
            /\ UNCHANGED <<reply, log>>
        BY <1>0, <2>4 DEF Goto, TypeOK, Labels
      <3>2. /\ captured' \in [Requests -> Case \cup {NoRow}]
            /\ effect' \in [Requests -> Case \cup {NoRow}]
        BY <1>0, <1>8, <2>1 DEF Capture, TypeOK
      <3>3. QED
        BY <1>0, <1>8, <2>1, <3>1, <3>2 DEF Capture, Release, TypeOK
    <2>5. QED
      BY <1>8, <2>3, <2>4 DEF Capture
  <1>9. ASSUME NEW r \in Requests, Save(r) PROVE TypeOK'
    <2>1. call[r].kind # "create" => captured[r] \in Case
      BY <1>0, <1>9, MadeCall DEF Save, IInv, Local, Written, Progress, TypeOK
    <2>2. LogLevel(call[r], captured[r]) \in {"none", "Information", "Debug"}
      BY DEF LogLevel
    <2>3. QED
      BY <1>0, <1>9, <2>1, <2>2, RepliesTyped DEF Save, Answer, Goto, TypeOK, Labels
  <1>10. QED
    BY <1>1, <1>2, <1>3, <1>4, <1>5, <1>6, <1>7, <1>8, <1>9 DEF Next, Step

-----------------------------------------------------------------------------
\* How the case its callers know moves.

Settles(n) ==
    \/ settled'[n] = settled[n]
    \/ settled[n] = NoRow /\ settled'[n] \in Case
    \/ /\ settled[n] \in Case /\ settled'[n] \in Case
       /\ settled'[n].version = settled[n].version + 1

\* No step takes a case away, and a case that changes moves to the next version.
LEMMA SettledMoves ==
    ASSUME IInv, [Next]_vars
    PROVE  \A n \in Numbers : Settles(n)
  <1>0. TypeOK
    BY DEF IInv
  <1>1. CASE UNCHANGED settled
    BY <1>1 DEF Settles
  <1>2. ASSUME NEW r \in Requests, Add(r) PROVE \A n \in Numbers : Settles(n)
    <2>1. call[r].number \in Numbers /\ call[r].severity \in Int
      BY <1>2, MadeCall DEF Add
    <2>2. \/ UNCHANGED settled
          \/ /\ settled[call[r].number] = NoRow
             /\ NewCase(call[r].severity) \in Case
             /\ settled' = [settled EXCEPT ![call[r].number] = NewCase(call[r].severity)]
      BY <1>2, <2>1, NewCaseIsCase DEF Add, IInv, FreeIsSettled
    <2>3. QED
      BY <1>0, <2>1, <2>2 DEF Settles, TypeOK
  <1>3. ASSUME NEW r \in Requests, Capture(r) PROVE \A n \in Numbers : Settles(n)
    <2>1. settled' = [settled EXCEPT ![call[r].number] = Object(r)]
      BY <1>3 DEF Capture
    <2>2. /\ Object(r) \in Case /\ settled[call[r].number] \in Case
          /\ \/ Object(r) = settled[call[r].number]
             \/ Object(r).version = settled[call[r].number].version + 1
      BY <1>3, AtCapture DEF Capture
    <2>3. QED
      BY <1>0, <2>1, <2>2 DEF Settles, TypeOK
  <1>4. ASSUME NEW r \in Requests,
               Begin(r) \/ Load(r) \/ Lock(r) \/ Mutate(r) \/ Bump(r) \/ Save(r)
        PROVE  UNCHANGED settled
    BY <1>4 DEF Begin, Load, Lock, Mutate, Bump, Save
  <1>5. CASE UNCHANGED vars
    BY <1>5, <1>1 DEF vars
  <1>6. QED
    BY <1>1, <1>2, <1>3, <1>4, <1>5 DEF Next, Step

-----------------------------------------------------------------------------
\* The lock.

\* Leaving the lock leaves it empty.
LEMMA Released ==
    ASSUME IInv, NEW r \in Requests, Inside(r), Release(r)
    PROVE  /\ holders'[call[r].number] = {}
           /\ \A n \in Numbers : n # call[r].number => holders'[n] = holders[n]
  <1>1. call[r].number \in Numbers /\ holders[call[r].number] = {r}
    BY MadeCall, InsideLock DEF Inside
  <1>2. QED
    BY <1>1 DEF Release, IInv, TypeOK

\* A request holds the lock of its case exactly while it is inside, alone.
LEMMA ExclusionStep ==
    ASSUME IInv, [Next]_vars
    PROVE  Exclusion'
  <1>0. TypeOK /\ Exclusion
    BY DEF IInv
  <1>1. CASE UNCHANGED vars
    BY <1>0, <1>1 DEF vars, Exclusion, Inside
  <1>2. ASSUME NEW r \in Requests, Begin(r) \/ Add(r) \/ Load(r) \/ Bump(r) \/ Save(r)
        PROVE Exclusion'
    <2>1. Frame(r) /\ UNCHANGED holders
      BY <1>0, <1>2, OwnVariables DEF Step, Begin, Add, Load, Bump, Save
    <2>2. \/ ~Inside(r) /\ ~Inside(r)'
          \/ Inside(r) /\ Inside(r)' /\ UNCHANGED call
      <3>1. CASE Begin(r) \/ Add(r) \/ Load(r) \/ Save(r)
        <4>1. pc[r] \in {"ready", "add", "load", "save"}
          BY <3>1 DEF Begin, Add, Load, Save
        <4>2. \E l \in {"add", "load", "lock", "save", "done"} : pc' = [pc EXCEPT ![r] = l]
          BY <3>1 DEF Begin, Add, Load, Save, Answer, Goto
        <4>3. pc'[r] \in {"add", "load", "lock", "save", "done"}
          BY <1>0, <4>2 DEF TypeOK
        <4>4. QED
          BY <4>1, <4>3 DEF Inside
      <3>2. CASE Bump(r)
        BY <1>0, <3>2 DEF Bump, Goto, Inside, TypeOK
      <3>3. QED
        BY <1>2, <3>1, <3>2
    <2>3. QED
      BY <1>0, <2>1, <2>2 DEF Exclusion, Inside, Frame
  <1>3. ASSUME NEW r \in Requests, Lock(r) PROVE Exclusion'
    <2>1. Frame(r) /\ call[r].number \in Numbers
      BY <1>0, <1>3, OwnVariables, MadeCall DEF Step, Lock
    <2>2. /\ holders[call[r].number] = {} /\ UNCHANGED call /\ ~Inside(r) /\ Inside(r)'
          /\ holders' = [holders EXCEPT ![call[r].number] = {r}]
      BY <1>0, <1>3 DEF Lock, AfterLock, Goto, Inside, TypeOK
    <2>3. /\ holders'[call[r].number] = {r}
          /\ \A n \in Numbers : n # call[r].number => holders'[n] = holders[n]
      BY <1>0, <2>1, <2>2 DEF TypeOK
    <2>4. QED
      BY <1>0, <2>1, <2>2, <2>3 DEF Exclusion, Inside, Frame
  <1>4. ASSUME NEW r \in Requests, Mutate(r) \/ Capture(r), Release(r) PROVE Exclusion'
    <2>1. Frame(r) /\ call[r].number \in Numbers /\ Inside(r) /\ UNCHANGED call
      BY <1>0, <1>4, OwnVariables, MadeCall DEF Step, Mutate, Capture, Inside
    <2>2. CASE Inside(r)'
      <3>1. Mutate(r) /\ Apply(r)
        BY <1>0, <1>4, <2>2 DEF Mutate, Capture, Refuse, Answer, Goto, Inside, TypeOK
      <3>2. holders'[call[r].number] = {} /\ holders[call[r].number] = {r} /\ UNCHANGED holders
        BY <1>4, <2>1, <3>1, Released, InsideLock DEF Apply
      <3>3. QED
        BY <3>2
    <2>3. CASE ~Inside(r)'
      <3>1. /\ holders'[call[r].number] = {} /\ holders[call[r].number] = {r}
            /\ \A n \in Numbers : n # call[r].number => holders'[n] = holders[n]
        BY <1>4, <2>1, Released, InsideLock
      <3>2. QED
        BY <1>0, <2>1, <2>3, <3>1 DEF Exclusion, Inside, Frame
    <2>4. QED
      BY <2>2, <2>3
  <1>5. ASSUME NEW r \in Requests, Mutate(r), Apply(r) PROVE Exclusion'
    <2>1. Frame(r) /\ Inside(r) /\ Inside(r)' /\ UNCHANGED <<call, holders>>
      BY <1>0, <1>5, OwnVariables DEF Step, Mutate, Apply, Goto, Inside, TypeOK
    <2>2. QED
      BY <1>0, <2>1 DEF Exclusion, Inside, Frame
  <1>6. QED
    <2>1. ASSUME NEW r \in Requests, Mutate(r) PROVE Release(r) \/ Apply(r)
      BY <2>1 DEF Mutate, Refuse
    <2>2. ASSUME NEW r \in Requests, Capture(r) PROVE Release(r)
      BY <2>2 DEF Capture
    <2>3. QED
      BY <1>1, <1>2, <1>3, <1>4, <1>5, <2>1, <2>2 DEF Next, Step

\* What one step does to the objects and to the cases callers know.
LEMMA ObjectsMove ==
    ASSUME IInv, NEW r \in Requests, Begin(r) \/ Step(r)
    PROVE  \/ /\ UNCHANGED <<cases, settled>>
              /\ \/ UNCHANGED holders
                 \/ holders' = [holders EXCEPT ![call[r].number] = {r}]
                 \/ pc[r] = "mutate" /\ Release(r)
           \/ /\ pc[r] = "add" /\ settled[call[r].number] = NoRow
              /\ \E c \in Case :
                    /\ cases' = [cases EXCEPT ![call[r].number] = c]
                    /\ settled' = [settled EXCEPT ![call[r].number] = c]
              /\ UNCHANGED holders
           \/ /\ pc[r] \in {"mutate", "bump"}
              /\ \E c \in Case : cases' = [cases EXCEPT ![call[r].number] = c]
              /\ UNCHANGED <<settled, holders>>
           \/ /\ pc[r] = "capture"
              /\ settled' = [settled EXCEPT ![call[r].number] = Object(r)]
              /\ Release(r)
              /\ UNCHANGED cases
  <1>1. CASE Begin(r) \/ Load(r) \/ Lock(r) \/ Save(r)
    BY <1>1 DEF Begin, Load, Lock, Save
  <1>2. CASE Add(r)
    <2>1. call[r].number \in Numbers /\ call[r].severity \in Int
      BY <1>2, MadeCall DEF Add
    <2>2. cases[call[r].number] = NoRow => settled[call[r].number] = NoRow
      BY <2>1 DEF IInv, FreeIsSettled
    <2>3. QED
      BY <1>2, <2>1, <2>2, NewCaseIsCase DEF Add
  <1>3. CASE Mutate(r)
    <2>1. Object(r) \in Case /\ call[r].kind \in Mutations /\ call[r].severity \in Int
      BY <1>3, InsideLock, MadeCall DEF Mutate, Inside, IInv, Local, Progress
    <2>2. ~Refused(Object(r), call[r]) => Applied(Object(r), call[r]) \in Case
      BY <2>1, AppliedCase
    <2>3. QED
      BY <1>3, <2>2 DEF Mutate, Refuse, Apply, Object
  <1>4. CASE Bump(r)
    <2>1. Object(r) \in Case /\ call[r].number \in Numbers
      BY <1>4, InsideLock, MadeCall DEF Bump, Inside
    <2>2. cases' = [cases EXCEPT ![call[r].number] = [Object(r) EXCEPT !.version = @ + 1]]
      BY <1>4, <2>1 DEF Bump, Object, IInv, TypeOK
    <2>3. QED
      BY <1>4, <2>1, <2>2, BumpedIsCase DEF Bump
  <1>5. CASE Capture(r)
    BY <1>5 DEF Capture
  <1>6. QED
    BY <1>1, <1>2, <1>3, <1>4, <1>5 DEF Step

\* A case is as its callers know it whenever its lock is free.
LEMMA FreeIsSettledStep ==
    ASSUME IInv, [Next]_vars
    PROVE  FreeIsSettled'
  <1>0. TypeOK /\ FreeIsSettled
    BY DEF IInv
  <1>1. CASE UNCHANGED vars
    BY <1>0, <1>1 DEF vars, FreeIsSettled
  <1>2. ASSUME NEW r \in Requests, Begin(r) \/ Step(r) PROVE FreeIsSettled'
    <2>1. CASE UNCHANGED <<cases, settled>> /\ UNCHANGED holders
      BY <1>0, <2>1 DEF FreeIsSettled
    <2>2. CASE UNCHANGED <<cases, settled>> /\ holders' = [holders EXCEPT ![call[r].number] = {r}]
      <3>1. \A n \in Numbers : holders'[n] = {} => holders[n] = {}
        BY <1>0, <2>2 DEF TypeOK
      <3>2. QED
        BY <1>0, <2>2, <3>1 DEF FreeIsSettled
    <2>3. CASE UNCHANGED <<cases, settled>> /\ pc[r] = "mutate" /\ Release(r)
      <3>1. cases[call[r].number] = settled[call[r].number]
        BY <2>3 DEF IInv, Local, Guarded
      <3>2. \A n \in Numbers : n # call[r].number => holders'[n] = holders[n]
        BY <2>3, Released DEF Inside
      <3>3. QED
        BY <1>0, <2>3, <3>1, <3>2 DEF FreeIsSettled
    <2>4. ASSUME NEW c \in Case,
                 cases' = [cases EXCEPT ![call[r].number] = c],
                 settled' = [settled EXCEPT ![call[r].number] = c],
                 UNCHANGED holders
          PROVE  FreeIsSettled'
      BY <1>0, <2>4, NoRowAssumption DEF FreeIsSettled, TypeOK
    <2>5. ASSUME NEW c \in Case, pc[r] \in {"mutate", "bump"},
                 cases' = [cases EXCEPT ![call[r].number] = c],
                 UNCHANGED <<settled, holders>>
          PROVE  FreeIsSettled'
      <3>1. holders[call[r].number] = {r} /\ settled[call[r].number] \in Case
        BY <2>5, InsideLock DEF Inside
      <3>2. QED
        BY <1>0, <2>5, <3>1, NoRowAssumption DEF FreeIsSettled, TypeOK
    <2>6. CASE /\ pc[r] = "capture"
               /\ settled' = [settled EXCEPT ![call[r].number] = Object(r)]
               /\ Release(r)
               /\ UNCHANGED cases
      <3>1. \A n \in Numbers : n # call[r].number => holders'[n] = holders[n]
        BY <2>6, Released DEF Inside
      <3>2. QED
        BY <1>0, <2>6, <3>1 DEF FreeIsSettled, TypeOK, Object
    <2>7. QED
      BY <1>2, <2>1, <2>2, <2>3, <2>4, <2>5, <2>6, ObjectsMove
  <1>3. QED
    BY <1>1, <1>2 DEF Next

-----------------------------------------------------------------------------
\* What another request's step leaves of a request's own invariant.

\* Nobody touches the object of a request that is inside its lock.
LEMMA InsideIsPrivate ==
    ASSUME IInv, NEW r \in Requests, Begin(r) \/ Step(r),
           NEW s \in Requests \ {r}, Inside(s)
    PROVE  /\ cases'[call[s].number] = cases[call[s].number]
           /\ settled'[call[s].number] = settled[call[s].number]
  <1>1. TypeOK /\ call[s].number \in Numbers
    BY MadeCall DEF IInv, Inside
  <1>2. holders[call[s].number] = {s} /\ settled[call[s].number] \in Case
    BY InsideLock
  <1>3. Inside(r) => call[r].number # call[s].number
    BY <1>2, InsideLock
  <1>4. CASE pc[r] = "add" /\ settled[call[r].number] = NoRow
    <2>1. call[r].number # call[s].number
      BY <1>2, <1>4, NoRowAssumption
    <2>2. QED
      BY <1>1, <1>4, <2>1, ObjectsMove DEF TypeOK
  <1>5. CASE Inside(r)
    BY <1>1, <1>3, <1>5, ObjectsMove DEF TypeOK
  <1>6. CASE UNCHANGED <<cases, settled>>
    BY <1>6
  <1>7. QED
    BY <1>4, <1>5, <1>6, ObjectsMove DEF Inside

\* A step of one request keeps the invariant of every other.
LEMMA OthersKeep ==
    ASSUME IInv, [Next]_vars, NEW r \in Requests, Begin(r) \/ Step(r),
           NEW s \in Requests \ {r}
    PROVE  Local(s)'
  <1>1. Local(s) /\ Frame(r) /\ TypeOK
    BY OwnVariables DEF IInv
  <1>2. Progress(s)' /\ Written(s)'
    BY <1>1 DEF Local, Progress, Written, Frame
  <1>3. CASE pc[s] \in {"lock", "save"}
    <2>1. call[s].number \in Numbers /\ settled[call[s].number] # NoRow
      BY <1>1, <1>3, MadeCall DEF Local, Guarded
    <2>2. settled'[call[s].number] # NoRow
      BY <2>1, SettledMoves, NoRowAssumption DEF Settles
    <2>3. QED
      BY <1>1, <1>2, <1>3, <2>2 DEF Local, Guarded, Frame
  <1>4. CASE Inside(s)
    BY <1>1, <1>2, <1>4, InsideIsPrivate DEF Local, Guarded, Frame, Inside
  <1>5. CASE pc[s] \in {"ready", "add", "load", "done"}
    BY <1>1, <1>2, <1>5 DEF Local, Guarded, Frame
  <1>6. QED
    BY <1>1, <1>3, <1>4, <1>5 DEF TypeOK, Labels, Inside

-----------------------------------------------------------------------------
\* A request keeps its own invariant, one lemma per action.

LEMMA BeginKeeps ==
    ASSUME IInv, NEW r \in Requests, Begin(r)
    PROVE  Local(r)'
  <1>1. TypeOK /\ Progress(r) /\ Written(r)
    BY DEF IInv, Local
  <1>2. PICK c \in Call :
            /\ call' = [call EXCEPT ![r] = c]
            /\ Goto(r, IF c.kind = "create" THEN "add" ELSE "load")
    BY DEF Begin
  <1>3. /\ call'[r] = c /\ pc'[r] = (IF c.kind = "create" THEN "add" ELSE "load")
        /\ UNCHANGED <<captured, reply, effect>> /\ pc[r] = "ready"
    BY <1>1, <1>2 DEF Begin, Goto, TypeOK
  <1>4. QED
    BY <1>1, <1>3 DEF Local, Progress, Written, Guarded

\* A call that ends keeps what its end promises.
LEMMA EndKeeps ==
    ASSUME IInv, NEW r \in Requests, pc[r] # "ready", NEW x, Answer(r, x),
           x.outcome # "Pending", UNCHANGED call,
           x.outcome = "Ok" =>
              /\ x.snapshot # NoRow
              /\ call[r].kind = "create" => effect'[r] # NoRow
    PROVE  Local(r)'
  <1>1. TypeOK /\ Progress(r)
    BY DEF IInv, Local
  <1>2. pc'[r] = "done" /\ reply'[r] = x /\ call'[r] = call[r]
    BY <1>1 DEF Answer, TypeOK
  <1>3. QED
    BY <1>1, <1>2 DEF Local, Progress, Written, Guarded

\* Every refusal ends a call without success.
LEMMA ThrowEnds ==
    /\ \A e \in {"Unknown"} \cup Refusals : Throw(e).outcome \notin {"Pending", "Ok"}
    /\ \A v : CaseConcurrency(v).outcome \notin {"Pending", "Ok"}
    /\ \A c : Ok(c).outcome = "Ok" /\ Ok(c).snapshot = c
  BY DEF Throw, CaseConcurrency, Ok, Reply, Refusals

LEMMA AddKeeps ==
    ASSUME IInv, NEW r \in Requests, Add(r)
    PROVE  Local(r)'
  <1>1. /\ TypeOK /\ Progress(r) /\ call[r].kind = "create" /\ pc[r] = "add"
        /\ call[r].number \in Numbers /\ call[r].severity \in Int
    BY MadeCall DEF IInv, Local, Progress, Add
  <1>2. CASE \E e \in Refusals : Answer(r, Throw(e))
    BY <1>1, <1>2, EndKeeps, ThrowEnds DEF Add
  <1>3. CASE /\ ValidSeverity(call[r].severity)
             /\ settled' = [settled EXCEPT ![call[r].number] = NewCase(call[r].severity)]
             /\ effect' = [effect EXCEPT ![r] = NewCase(call[r].severity)]
             /\ Goto(r, "save")
    <2>1. NewCase(call[r].severity) # NoRow
      BY <1>1, <1>3, NewCaseIsCase, NoRowAssumption
    <2>2. /\ pc'[r] = "save" /\ effect'[r] # NoRow /\ settled'[call[r].number] # NoRow
          /\ UNCHANGED <<call, reply>>
      BY <1>1, <1>3, <2>1 DEF Add, Goto, TypeOK
    <2>3. QED
      BY <1>1, <2>2 DEF Local, Progress, Written, Guarded, Mutations
  <1>4. "Argument" \in Refusals /\ "InvalidOperation" \in Refusals
    BY DEF Refusals
  <1>5. QED
    BY <1>2, <1>3, <1>4 DEF Add

LEMMA LoadKeeps ==
    ASSUME IInv, NEW r \in Requests, Load(r)
    PROVE  Local(r)'
  <1>1. /\ TypeOK /\ Progress(r) /\ Written(r) /\ pc[r] = "load"
        /\ UNCHANGED <<cases, holders, call, captured, log, settled, effect>>
    BY DEF IInv, Local, Load
  <1>2. CASE \E e \in {"Unknown"} \cup Refusals : Answer(r, Throw(e))
    BY <1>1, <1>2, EndKeeps, ThrowEnds
  <1>3. CASE Object(r) # NoRow /\ Goto(r, "lock")
    <2>1. settled[call[r].number] # NoRow
      BY <1>1, <1>3, MadeCall DEF IInv, FreeIsSettled, Object
    <2>2. pc'[r] = "lock" /\ UNCHANGED reply
      BY <1>1, <1>3 DEF Goto, TypeOK
    <2>3. QED
      BY <1>1, <2>1, <2>2 DEF Local, Progress, Written, Guarded
  <1>4. QED
    BY <1>2, <1>3 DEF Load, Refusals

LEMMA LockKeeps ==
    ASSUME IInv, NEW r \in Requests, Lock(r)
    PROVE  Local(r)'
  <1>1. TypeOK /\ Local(r) /\ call[r].number \in Numbers
    BY MadeCall DEF IInv, Lock
  <1>2. /\ pc[r] = "lock" /\ UNCHANGED <<cases, settled, call, captured, reply, effect>>
        /\ pc'[r] = (IF call[r].kind \in Mutations THEN "mutate" ELSE "capture")
    BY <1>1 DEF Lock, AfterLock, Goto, TypeOK
  <1>3. cases[call[r].number] = settled[call[r].number]
    BY <1>1 DEF Lock, IInv, FreeIsSettled
  <1>4. QED
    BY <1>1, <1>2, <1>3 DEF Local, Progress, Written, Guarded

LEMMA MutateKeeps ==
    ASSUME IInv, NEW r \in Requests, Mutate(r)
    PROVE  Local(r)'
  <1>1. /\ TypeOK /\ Local(r) /\ pc[r] = "mutate" /\ call[r].number \in Numbers
        /\ call[r].kind \in Mutations /\ Object(r) = settled[call[r].number]
        /\ UNCHANGED <<call, captured, log, settled, effect>>
    BY MadeCall DEF IInv, Local, Progress, Guarded, Mutate, Object
  <1>2. CASE \/ \E e \in Refusals : Answer(r, Throw(e))
             \/ Answer(r, CaseConcurrency(Object(r).version))
    BY <1>1, <1>2, EndKeeps, ThrowEnds
  <1>3. CASE /\ Object(r).version = call[r].expected
             /\ ~Refused(Object(r), call[r])
             /\ Apply(r)
    <2>1. cases'[call[r].number] = Applied(settled[call[r].number], call[r])
      BY <1>1, <1>3 DEF Apply, Object, TypeOK
    <2>2. CASE StateChanged(settled[call[r].number], call[r])
      <3>1. pc'[r] = "bump" /\ UNCHANGED reply
        BY <1>1, <1>3, <2>2 DEF Apply, Goto, TypeOK
      <3>2. QED
        BY <1>1, <1>3, <2>1, <2>2, <3>1 DEF Local, Progress, Written, Guarded
    <2>3. CASE ~StateChanged(settled[call[r].number], call[r])
      <3>1. pc'[r] = "capture" /\ UNCHANGED reply
        BY <1>1, <1>3, <2>3 DEF Apply, Goto, TypeOK
      <3>2. cases'[call[r].number] = Mutated(settled[call[r].number], call[r])
        BY <2>1, <2>3 DEF Mutated
      <3>3. QED
        BY <1>1, <1>3, <3>1, <3>2 DEF Local, Progress, Written, Guarded, Mutations
    <2>4. QED
      BY <2>2, <2>3
  <1>4. "Argument" \in Refusals /\ "InvalidOperation" \in Refusals
    BY DEF Refusals
  <1>5. QED
    BY <1>2, <1>3, <1>4 DEF Mutate, Refuse

LEMMA BumpKeeps ==
    ASSUME IInv, NEW r \in Requests, Bump(r)
    PROVE  Local(r)'
  <1>1. /\ TypeOK /\ Local(r) /\ pc[r] = "bump" /\ call[r].number \in Numbers
        /\ UNCHANGED <<call, captured, settled, effect, reply>>
    BY MadeCall DEF IInv, Bump, Goto
  <1>2. cases'[call[r].number] = [cases[call[r].number] EXCEPT !.version = @ + 1]
    BY <1>1 DEF Bump, TypeOK
  <1>3. cases'[call[r].number] = Mutated(settled[call[r].number], call[r])
    BY <1>1, <1>2 DEF Local, Guarded, Mutated
  <1>4. pc'[r] = "capture"
    BY <1>1 DEF Bump, Goto, TypeOK
  <1>5. QED
    BY <1>1, <1>3, <1>4 DEF Local, Progress, Written, Guarded, Mutations

LEMMA CaptureKeeps ==
    ASSUME IInv, NEW r \in Requests, Capture(r)
    PROVE  Local(r)'
  <1>1. /\ TypeOK /\ Local(r) /\ pc[r] = "capture" /\ Object(r) \in Case
        /\ call[r].number \in Numbers /\ UNCHANGED call
    BY MadeCall, AtCapture DEF IInv, Capture
  <1>2. CASE Answer(r, Ok(Object(r))) /\ UNCHANGED effect
    BY <1>1, <1>2, EndKeeps, ThrowEnds, NoRowAssumption DEF Local, Written
  <1>3. CASE /\ call[r].kind \in Mutations
             /\ captured' = [captured EXCEPT ![r] = Object(r)]
             /\ effect' = [effect EXCEPT ![r] = Object(r)]
             /\ Goto(r, "save")
    <2>1. /\ pc'[r] = "save" /\ captured'[r] = Object(r) /\ effect'[r] = Object(r)
          /\ settled'[call[r].number] = Object(r) /\ UNCHANGED reply
      BY <1>1, <1>3 DEF Capture, Goto, TypeOK
    <2>2. QED
      BY <1>1, <1>3, <2>1, NoRowAssumption DEF Local, Progress, Written, Guarded, Mutations
  <1>4. QED
    BY <1>2, <1>3 DEF Capture

LEMMA SaveKeeps ==
    ASSUME IInv, NEW r \in Requests, Save(r)
    PROVE  Local(r)'
  <1>1. /\ TypeOK /\ Local(r) /\ pc[r] = "save"
        /\ UNCHANGED <<cases, holders, call, captured, settled, effect>>
    BY DEF IInv, Save
  <1>2. CASE Answer(r, Throw("Unknown"))
    BY <1>1, <1>2, EndKeeps, ThrowEnds
  <1>3. CASE call[r].kind # "create" /\ Answer(r, Ok(captured[r]))
    <2>1. captured[r] # NoRow
      BY <1>1, <1>3, MadeCall DEF Local, Written, Progress
    <2>2. QED
      BY <1>1, <1>3, <2>1, EndKeeps, ThrowEnds
  <1>4. CASE call[r].kind = "create" /\ Goto(r, "lock")
    <2>1. pc'[r] = "lock" /\ UNCHANGED reply
      BY <1>1, <1>4 DEF Goto, TypeOK
    <2>2. QED
      BY <1>1, <1>4, <2>1 DEF Local, Progress, Written, Guarded
  <1>5. QED
    BY <1>2, <1>3, <1>4 DEF Save

\* Every request keeps its own invariant, whoever steps.
LEMMA LocalStep ==
    ASSUME IInv, [Next]_vars
    PROVE  \A s \in Requests : Local(s)'
  <1>1. CASE UNCHANGED vars
    BY <1>1 DEF vars, IInv, Local, Progress, Written, Guarded
  <1>2. ASSUME NEW r \in Requests, Begin(r) \/ Step(r), NEW s \in Requests
        PROVE  Local(s)'
    <2>1. CASE s # r
      BY <1>2, <2>1, OthersKeep
    <2>2. CASE s = r
      BY <1>2, <2>2, BeginKeeps, AddKeeps, LoadKeeps, LockKeeps, MutateKeeps, BumpKeeps,
         CaptureKeeps, SaveKeeps DEF Step
    <2>3. QED
      BY <2>1, <2>2
  <1>3. QED
    BY <1>1, <1>2 DEF Next

-----------------------------------------------------------------------------
\* What callers know of a case.

\* A request that has not asked knows nothing, and what it knows are cases.
LEMMA KnownIsTyped ==
    ASSUME IInv, NEW r \in Requests
    PROVE  /\ Known(r) \subseteq Case
           /\ Known(r) # {} => call[r] \in Call /\ call[r].number \in Numbers
  <1>1. Known(r) \subseteq Case
    BY DEF IInv, TypeOK, Known
  <1>2. CASE pc[r] = "ready"
    <2>1. effect[r] = NoRow /\ captured[r] = NoRow /\ reply[r] = Pending
      BY <1>2 DEF IInv, Local, Progress, Written
    <2>2. QED
      BY <1>1, <2>1 DEF Known, Pending, Reply
  <1>3. CASE pc[r] # "ready"
    BY <1>1, <1>3, MadeCall
  <1>4. QED
    BY <1>2, <1>3

Learns(r) ==
    /\ call'[r] = call[r]
    /\ call[r].number \in Numbers
    /\ \A x \in Known(r)' :
          x \in Known(r) \/ (x = settled'[call[r].number] /\ x \in Case)

\* A request learns of its case only what its callers may know.
LEMMA StepLearns ==
    ASSUME IInv, NEW r \in Requests, Begin(r) \/ Step(r)
    PROVE  Learns(r) \/ Known(r)' = {}
  <1>0. TypeOK /\ Local(r)
    BY DEF IInv
  <1>1. /\ \A e : Throw(e).snapshot = NoRow
        /\ \A v : CaseConcurrency(v).snapshot = NoRow
        /\ \A c : Ok(c).snapshot = c
    BY DEF Throw, CaseConcurrency, Ok, Reply
  <1>2. CASE Begin(r)
    <2>1. UNCHANGED <<effect, captured, reply>> /\ Known(r) = {}
      <3>1. effect[r] = NoRow /\ captured[r] = NoRow /\ reply[r] = Pending
        BY <1>0, <1>2 DEF Begin, Local, Progress, Written
      <3>2. QED
        BY <1>2, <3>1 DEF Begin, Goto, Known, Pending, Reply
    <2>2. QED
      BY <2>1 DEF Known
  <1>3. CASE Step(r)
    <2>0. pc[r] # "ready" /\ UNCHANGED call
      BY <1>3 DEF Step, Add, Load, Lock, Mutate, Bump, Capture, Save
    <2>1. call[r].number \in Numbers /\ call[r].severity \in Int
      BY <2>0, MadeCall
    <2>2. CASE UNCHANGED <<effect, captured>> /\ UNCHANGED reply
      BY <2>0, <2>1, <2>2 DEF Learns, Known
    <2>3. ASSUME NEW x, Answer(r, x), x.snapshot = NoRow, UNCHANGED <<effect, captured>>
          PROVE  Learns(r)
      <3>1. reply'[r] = x
        BY <1>0, <2>3 DEF Answer, TypeOK
      <3>2. QED
        BY <2>0, <2>1, <2>3, <3>1 DEF Learns, Known
    <2>4. CASE Add(r)
      <3>1. CASE /\ ValidSeverity(call[r].severity)
                 /\ settled' = [settled EXCEPT ![call[r].number] = NewCase(call[r].severity)]
                 /\ effect' = [effect EXCEPT ![r] = NewCase(call[r].severity)]
                 /\ Goto(r, "save")
        <4>1. /\ effect'[r] = settled'[call[r].number] /\ effect'[r] \in Case
              /\ UNCHANGED <<reply, captured>>
          BY <1>0, <2>1, <2>4, <3>1, NewCaseIsCase DEF Add, Goto, TypeOK
        <4>2. QED
          BY <2>0, <2>1, <4>1 DEF Learns, Known
      <3>2. QED
        BY <1>1, <2>3, <2>4, <3>1 DEF Add
    <2>5. CASE Load(r) \/ Lock(r) \/ Mutate(r) \/ Bump(r)
      <3>1. UNCHANGED <<effect, captured>>
        BY <2>5 DEF Load, Lock, Mutate, Bump
      <3>2. UNCHANGED reply \/ \E x : Answer(r, x) /\ x.snapshot = NoRow
        BY <1>1, <2>5 DEF Load, Lock, Mutate, Refuse, Apply, Bump, Goto
      <3>3. QED
        BY <2>2, <2>3, <3>1, <3>2
    <2>6. CASE Capture(r)
      <3>1. Object(r) \in Case /\ settled'[call[r].number] = Object(r)
        BY <1>0, <2>1, <2>6, AtCapture DEF Capture, TypeOK
      <3>2. /\ effect'[r] \in {effect[r], Object(r)}
            /\ captured'[r] \in {captured[r], Object(r)}
        BY <1>0, <2>6 DEF Capture, TypeOK
      <3>3. reply'[r].snapshot \in {reply[r].snapshot, Object(r)}
        BY <1>0, <1>1, <2>6 DEF Capture, Answer, Goto, TypeOK
      <3>4. QED
        BY <2>0, <2>1, <3>1, <3>2, <3>3 DEF Learns, Known
    <2>7. CASE Save(r)
      <3>1. UNCHANGED <<effect, captured>>
        BY <2>7 DEF Save
      <3>2. reply'[r].snapshot \in {reply[r].snapshot, captured[r], NoRow}
        BY <1>0, <1>1, <2>7 DEF Save, Answer, Goto, TypeOK
      <3>3. QED
        BY <2>0, <2>1, <3>1, <3>2 DEF Learns, Known
    <2>8. QED
      BY <1>3, <2>4, <2>5, <2>6, <2>7 DEF Step
  <1>4. QED
    BY <1>2, <1>3

\* What precedes a case still precedes it after a step.
LEMMA PrecedesStep ==
    ASSUME IInv, [Next]_vars, NEW n \in Numbers, NEW x \in Case, Precedes(x, settled[n])
    PROVE  Precedes(x, settled'[n])
  <1>1. settled[n] \in Case /\ x.version \in Nat /\ settled[n].version \in Nat
    BY DEF IInv, TypeOK, Precedes, Case
  <1>2. Settles(n)
    BY SettledMoves
  <1>3. QED
    BY <1>1, <1>2, NoRowAssumption DEF Precedes, Settles

\* What a request knows after a step of any request.
LEMMA KnownAfter ==
    ASSUME IInv, [Next]_vars, NEW s \in Requests, NEW x \in Known(s)'
    PROVE  /\ call'[s] = call[s] /\ call[s].number \in Numbers /\ x \in Case
           /\ x \in Known(s) \/ x = settled'[call[s].number]
  <1>1. CASE UNCHANGED vars
    BY <1>1, KnownIsTyped DEF vars, Known
  <1>2. ASSUME NEW r \in Requests, Begin(r) \/ Step(r), s = r
        PROVE  Learns(s)
    BY <1>2, StepLearns
  <1>3. ASSUME NEW r \in Requests, Begin(r) \/ Step(r), s # r
        PROVE  call'[s] = call[s] /\ x \in Known(s)
    BY <1>3, OwnVariables DEF IInv, Frame, Known
  <1>4. QED
    BY <1>1, <1>2, <1>3, KnownIsTyped DEF Next, Learns

LEMMA CurrentStep ==
    ASSUME IInv, [Next]_vars
    PROVE  Current'
  <1> SUFFICES ASSUME NEW s \in Requests, NEW x \in Known(s)'
               PROVE  Precedes(x, settled'[call[s].number])
    BY KnownAfter DEF Current, Precedes
  <1>1. call[s].number \in Numbers /\ x \in Case
    BY KnownAfter
  <1>2. CASE x \in Known(s)
    BY <1>1, <1>2, PrecedesStep DEF IInv, Current
  <1>3. CASE x = settled'[call[s].number]
    BY <1>1, <1>3, NoRowAssumption DEF Precedes, Case
  <1>4. QED
    BY <1>2, <1>3, KnownAfter

LEMMA AgreementStep ==
    ASSUME IInv, [Next]_vars
    PROVE  Agreement'
  <1> SUFFICES ASSUME NEW r \in Requests, NEW s \in Requests,
                      NEW x \in Known(r)', NEW y \in Known(s)',
                      call[r].number = call[s].number, x.version = y.version
               PROVE  x = y
    BY KnownAfter DEF Agreement
  <1>1. Precedes(x, settled'[call[r].number]) /\ Precedes(y, settled'[call[s].number])
    BY CurrentStep, KnownAfter DEF Current
  <1>2. \/ x \in Known(r)
        \/ x = settled'[call[r].number]
    BY KnownAfter
  <1>3. \/ y \in Known(s)
        \/ y = settled'[call[s].number]
    BY KnownAfter
  <1>4. QED
    BY <1>1, <1>2, <1>3 DEF IInv, Agreement, Precedes

\* A write that is a change makes a version nobody else has made.
LEMMA NoLostUpdateStep ==
    ASSUME IInv, [Next]_vars
    PROVE  NoLostUpdate'
  <1>0. TypeOK /\ NoLostUpdate
    BY DEF IInv
  <1>1. CASE UNCHANGED vars
    BY <1>0, <1>1 DEF vars, NoLostUpdate, IsChange
  <1>2. ASSUME NEW r \in Requests, Begin(r) \/ Step(r) PROVE NoLostUpdate'
    <2>1. Frame(r)
      BY <1>0, <1>2, OwnVariables
    <2>2. CASE effect'[r] = effect[r]
      <3>1. effect[r] # NoRow => call'[r] = call[r]
        <4>1. Begin(r) => effect[r] = NoRow
          BY DEF Begin, IInv, Local, Written
        <4>2. Step(r) => UNCHANGED call
          BY DEF Step, Add, Load, Lock, Mutate, Bump, Capture, Save
        <4>3. QED
          BY <1>2, <4>1, <4>2
      <3>2. \A s \in Requests : effect'[s] = effect[s] /\ (effect[s] # NoRow => call'[s] = call[s])
        BY <2>1, <2>2, <3>1 DEF Frame
      <3>3. \A s \in Requests : effect[s] # NoRow => call[s] # NoCall
        BY MadeCall, NoCallAssumption DEF IInv, Local, Progress, Written
      <3>4. QED
        BY <1>0, <3>2, <3>3 DEF NoLostUpdate, IsChange
    <2>3. CASE effect'[r] # effect[r]
      <3>1. /\ UNCHANGED call /\ call[r].number \in Numbers
            /\ \/ settled[call[r].number] = NoRow
               \/ /\ IsChange(effect'[r], call[r])
                  => /\ settled[call[r].number] \in Case
                     /\ effect'[r].version = settled[call[r].number].version + 1
        <4>1. CASE Add(r)
          BY <1>0, <2>3, <4>1, MadeCall DEF Add, IInv, FreeIsSettled
        <4>2. CASE Capture(r)
          <5>1. call[r].kind \in Mutations /\ effect'[r] = Object(r) /\ UNCHANGED call
            BY <1>0, <2>3, <4>2 DEF Capture, TypeOK
          <5>2. QED
            BY <4>2, <5>1, AtCapture, MadeCall DEF Capture, IsChange
        <4>3. QED
          BY <1>2, <2>3, <4>1, <4>2 DEF Step, Begin, Load, Lock, Mutate, Bump, Save
      <3>2. ASSUME NEW s \in Requests, s # r, call[s].number = call[r].number, effect[s] # NoRow
            PROVE  /\ settled[call[r].number] # NoRow
                   /\ effect[s].version \in Nat
                   /\ settled[call[r].number] \in Case
                          => effect[s].version <= settled[call[r].number].version
        <4>1. effect[s] \in Known(s) /\ effect[s] \in Case
          BY <1>0, <3>2 DEF Known, TypeOK
        <4>2. QED
          BY <3>2, <4>1 DEF IInv, Current, Precedes, Case
      <3>3. ASSUME NEW s \in Requests, s # r, call[s].number = call[r].number,
                   IsChange(effect[s], call[s]), IsChange(effect'[r], call[r])
            PROVE  effect[s].version # effect'[r].version
        BY <3>1, <3>2, <3>3 DEF IsChange, Case
      <3>4. \A s \in Requests : s # r => effect'[s] = effect[s]
        BY <2>1 DEF Frame
      <3>5. QED
        BY <1>0, <3>1, <3>3, <3>4 DEF NoLostUpdate
    <2>4. QED
      BY <2>2, <2>3
  <1>3. QED
    BY <1>1, <1>2 DEF Next

-----------------------------------------------------------------------------
LEMMA StepIInv == IInv /\ [Next]_vars => IInv'
  BY TypeStep, ExclusionStep, FreeIsSettledStep, LocalStep, CurrentStep, AgreementStep,
     NoLostUpdateStep DEF IInv

LEMMA Invariance == Spec => []IInv
  BY InitIInv, StepIInv, PTL DEF Spec

\* The store holds cases, and a request's variables what they are meant to.
THEOREM TypeCorrect == Spec => []TypeOK
  BY Invariance, PTL DEF IInv

\* No two calls change the same case into the same version, however many
\* threads race inside the dictionary (SupportCase.Mutate's lock and version).
THEOREM NoUpdateIsLost == Spec => []NoLostUpdate
  BY Invariance, PTL DEF IInv

\* Callers that got one version of a case got one representation of it,
\* although Mutate writes the object field by field.
THEOREM VersionNamesRepresentation == Spec => []OneRepresentationPerVersion
  <1>1. IInv => OneRepresentationPerVersion
    <2> SUFFICES ASSUME IInv, NEW r \in Requests, NEW s \in Requests,
                        Successful(r), Successful(s),
                        call[r].number = call[s].number,
                        reply[r].snapshot.version = reply[s].snapshot.version
                 PROVE  reply[r].snapshot = reply[s].snapshot
      BY DEF OneRepresentationPerVersion
    <2>1. ASSUME NEW t \in Requests, Successful(t) PROVE reply[t].snapshot \in Known(t)
      <3>1. pc[t] = "done"
        BY <2>1 DEF Successful, IInv, Local, Progress, Pending, Reply
      <3>2. QED
        BY <2>1, <3>1 DEF Successful, IInv, Local, Written, Known
    <2>2. QED
      BY <2>1 DEF IInv, Agreement
  <1>2. QED
    BY <1>1, Invariance, PTL

-----------------------------------------------------------------------------
(***************************************************************************)
(* InMemoryCaseService implements VersionedCases, for every value of the    *)
(* constants: the abstract store is the dictionary with every object as its *)
(* last lock holder left it, a mutation takes effect when it leaves the     *)
(* lock, and a create's answer is the case it added.                        *)
(***************************************************************************)

\* The two specifications share the rules of a case and the calls.
LEMMA SharedCalls ==
    /\ VC!Case = Case
    /\ VC!Call = Call
    /\ VC!Mutations = Mutations
    /\ VC!Pending = Pending
    /\ \A x : VC!Throw(x) = Throw(x)
    /\ \A c : VC!Ok(c) = Ok(c)
    /\ \A v : VC!CaseConcurrency(v) = CaseConcurrency(v)
    /\ \A s : VC!NewCase(s) = NewCase(s)
    /\ \A s : VC!ValidSeverity(s) = ValidSeverity(s)
    /\ \A c, k : VC!ForbiddenTransition(c, k) = ForbiddenTransition(c, k)
    /\ \A c, k : VC!Refused(c, k) = Refused(c, k)
    /\ \A c, k : VC!Mutated(c, k) = Mutated(c, k)
  BY DEF VC!Case, Case, VC!Call, Call, VC!CreateCall, CreateCall, VC!SeverityCall, SeverityCall,
         VC!StateCall, StateCall, VC!GetCall, GetCall, VC!Mutations, Mutations,
         VC!Pending, Pending, VC!Throw, Throw, VC!Ok, Ok, VC!CaseConcurrency, CaseConcurrency,
         VC!Reply, Reply, VC!NewCase, NewCase, VC!ValidSeverity, ValidSeverity,
         VC!ForbiddenTransition, ForbiddenTransition, VC!Refused, Refused,
         VC!InvalidArgument, InvalidArgument, VC!Mutated, Mutated, VC!Applied, Applied,
         VC!StateChanged, StateChanged

\* The answers callers are promised.
answers == [r \in Requests |-> Promised(r)]

\* The initial states are initial states of VersionedCases.
LEMMA InitRefines == Init => VC!Init
  <1> SUFFICES ASSUME Init PROVE VC!Init
    OBVIOUS
  <1>1. \A r \in Requests : Promised(r) = Pending
    BY DEF Init, Promised, Successful, Pending, Reply
  <1>2. settled \in [Numbers -> Case \cup {NoRow}]
    BY InitialRowsAssumption DEF Init
  <1>3. QED
    BY <1>1, <1>2, SharedCalls DEF Init, VC!Init

\* A request in the middle of its call is one the abstract caller waits for.
LEMMA Waits ==
    ASSUME IInv, NEW r \in Requests, pc[r] \notin {"ready", "done"}
    PROVE  VC!Waiting(r) /\ Promised(r) = Pending
  <1>1. call[r] # NoCall /\ reply[r] = Pending
    BY MadeCall, NoCallAssumption DEF IInv, Local, Progress
  <1>2. Promised(r) = Pending
    BY <1>1 DEF Promised, Successful, Pending, Reply
  <1>3. QED
    BY <1>1, <1>2, SharedCalls DEF VC!Waiting

\* While a request has not been answered, no promise changes.
LEMMA NoAnswer ==
    ASSUME IInv, NEW r \in Requests, Frame(r), pc[r] # "done", UNCHANGED reply
    PROVE  answers' = answers
  <1>1. \A s \in Requests : s # r => Promised(s)' = Promised(s)
    BY DEF Frame, Promised, Successful
  <1>2. reply[r].outcome = "Pending"
    BY DEF IInv, Local, Progress, Pending, Reply
  <1>3. Promised(r)' = Promised(r)
    BY <1>2 DEF Promised, Successful
  <1>4. QED
    BY <1>1, <1>3 DEF answers

\* An answer is a reply that leaves the cases alone.
LEMMA AnswerReplies ==
    ASSUME IInv, NEW r \in Requests, Frame(r), NEW x, Answer(r, x),
           UNCHANGED <<settled, call, effect>>,
           NEW y, y = (IF x.outcome = "Ok" /\ call[r].kind = "create" THEN Ok(effect[r]) ELSE x)
    PROVE  VC!Replies(r, y)
  <1>1. reply'[r] = x
    BY DEF Answer, IInv, TypeOK
  <1>2. Promised(r)' = y
    BY <1>1 DEF Promised, Successful
  <1>3. \A s \in Requests : s # r => Promised(s)' = Promised(s)
    BY DEF Frame, Promised, Successful
  <1>4. answers' = [answers EXCEPT ![r] = y]
    BY <1>2, <1>3 DEF answers
  <1>5. QED
    BY <1>4 DEF VC!Replies, answers

-----------------------------------------------------------------------------
\* A call that starts is submitted.
LEMMA BeginRefines ==
    ASSUME IInv, NEW r \in Requests, Begin(r)
    PROVE  VC!Submit(r)
  <1>1. call[r] = NoCall
    BY DEF IInv, Local, Progress, Begin
  <1>2. answers' = answers
    BY NoAnswer, OwnVariables DEF IInv, Begin, Goto
  <1>3. QED
    BY <1>1, <1>2, SharedCalls DEF Begin, VC!Submit, answers

\* A create takes effect when TryAdd succeeds, and is refused when it does not.
LEMMA AddRefines ==
    ASSUME IInv, NEW r \in Requests, Add(r)
    PROVE  VC!TakeEffect(r) \/ VC!RefuseArgument(r) \/ VC!RefuseTransition(r)
  <1>1. /\ VC!Waiting(r) /\ Promised(r) = Pending /\ Frame(r)
        /\ call[r] \in Call /\ call[r].number \in Numbers
        /\ call[r].kind = "create" /\ effect[r] = NoRow
    BY Waits, MadeCall, OwnVariables DEF Add, IInv, Local, Progress, Written, Step
  <1>2. CASE ~ValidSeverity(call[r].severity)
    <2>1. VC!Replies(r, Throw("Argument"))
      BY <1>1, <1>2, AnswerReplies, ThrowEnds DEF Add, Refusals
    <2>2. QED
      BY <1>1, <1>2, <2>1, SharedCalls DEF VC!RefuseArgument
  <1>3. CASE ValidSeverity(call[r].severity) /\ cases[call[r].number] # NoRow
    <2>1. VC!Replies(r, Throw("InvalidOperation"))
      BY <1>1, <1>3, AnswerReplies, ThrowEnds DEF Add, Refusals
    <2>2. settled[call[r].number] # NoRow
      BY <1>1, <1>3 DEF IInv, FreeIsSettled
    <2>3. QED
      BY <1>1, <2>1, <2>2, SharedCalls DEF VC!RefuseTransition, Mutations
  <1>4. CASE ValidSeverity(call[r].severity) /\ cases[call[r].number] = NoRow
    <2>1. settled[call[r].number] = NoRow
      BY <1>1, <1>4 DEF IInv, FreeIsSettled
    <2>2. answers' = answers
      BY <1>1, <1>4, NoAnswer DEF Add, Goto
    <2>3. VC!Create(r)
      BY <1>1, <1>4, <2>1, SharedCalls DEF Add, VC!Create, VC!Store
    <2>4. answers[r].outcome = "Pending"
      BY <1>1 DEF answers, Pending, Reply
    <2>5. QED
      BY <1>1, <2>2, <2>3, <2>4, NoCallAssumption DEF Add, VC!TakeEffect, answers
  <1>5. QED
    BY <1>2, <1>3, <1>4

\* A missing case and a cancelled token are answered; finding one is invisible.
LEMMA LoadRefines ==
    ASSUME IInv, NEW r \in Requests, Load(r)
    PROVE  VC!RefuseMissing(r) \/ VC!LoseTrack(r) \/ UNCHANGED VC!vars
  <1>1. /\ VC!Waiting(r) /\ Frame(r) /\ call[r].kind # "create" /\ effect[r] = NoRow
        /\ call[r].number \in Numbers
    BY Waits, MadeCall, OwnVariables DEF Load, IInv, Local, Progress, Written, Step
  <1>2. CASE Answer(r, Throw("Unknown"))
    <2>1. VC!Replies(r, Throw("Unknown"))
      BY <1>1, <1>2, AnswerReplies DEF Load
    <2>2. QED
      BY <1>1, <2>1, SharedCalls DEF VC!LoseTrack
  <1>3. CASE Object(r) = NoRow /\ Answer(r, Throw("KeyNotFound"))
    <2>1. VC!Replies(r, Throw("KeyNotFound"))
      BY <1>1, <1>3, AnswerReplies DEF Load
    <2>2. settled[call[r].number] = NoRow
      BY <1>1, <1>3 DEF IInv, FreeIsSettled, Object
    <2>3. QED
      BY <1>1, <2>1, <2>2, SharedCalls DEF VC!RefuseMissing
  <1>4. CASE Goto(r, "lock")
    <2>1. answers' = answers
      BY <1>1, <1>4, NoAnswer DEF Load, Goto
    <2>2. QED
      BY <2>1 DEF Load, VC!vars, answers
  <1>5. QED
    BY <1>2, <1>3, <1>4 DEF Load

\* Entering the lock and writing inside it are invisible.
LEMMA InsideRefines ==
    ASSUME IInv, NEW r \in Requests,
           Lock(r) \/ Bump(r) \/ (Mutate(r) /\ Apply(r))
    PROVE  UNCHANGED VC!vars
  <1>1. Frame(r) /\ pc[r] # "done" /\ UNCHANGED reply
    BY OwnVariables DEF IInv, Step, Lock, Bump, Mutate, Apply, Goto
  <1>2. answers' = answers
    BY <1>1, NoAnswer
  <1>3. QED
    BY <1>2 DEF Lock, Bump, Mutate, VC!vars, answers

\* What Mutate refuses it judges on the case its callers know.
LEMMA MutateRefines ==
    ASSUME IInv, NEW r \in Requests, Mutate(r)
    PROVE  \/ VC!RefuseConflict(r) \/ VC!RefuseTransition(r) \/ VC!RefuseArgument(r)
           \/ UNCHANGED VC!vars
  <1>1. /\ VC!Waiting(r) /\ Frame(r) /\ call[r].kind \in Mutations
        /\ call[r] \in Call /\ effect[r] = NoRow /\ UNCHANGED <<settled, call, effect>>
    BY Waits, MadeCall, OwnVariables DEF Mutate, IInv, Local, Progress, Written, Step, Mutations
  <1>2. /\ Object(r) = settled[call[r].number] /\ Object(r) \in Case /\ Object(r) # NoRow
        /\ call[r].expected \in Nat /\ Object(r).version \in Nat
    BY <1>1, InsideLock, CallFields, NoRowAssumption
       DEF Mutate, Inside, IInv, Local, Guarded, Object, Case
  <1>3. CASE Object(r).version # call[r].expected /\ Answer(r, CaseConcurrency(Object(r).version))
    <2>1. VC!Replies(r, CaseConcurrency(Object(r).version))
      BY <1>1, <1>3, AnswerReplies, ThrowEnds
    <2>2. Object(r).version \in 1..settled[call[r].number].version
      BY <1>2 DEF Case
    <2>3. QED
      BY <1>1, <1>2, <1>3, <2>1, <2>2, SharedCalls DEF VC!RefuseConflict
  <1>4. CASE /\ Object(r).version = call[r].expected
             /\ ForbiddenTransition(Object(r), call[r])
             /\ Answer(r, Throw("InvalidOperation"))
    <2>1. VC!Replies(r, Throw("InvalidOperation"))
      BY <1>1, <1>4, AnswerReplies, ThrowEnds DEF Refusals
    <2>2. call[r].kind # "get"
      BY <1>1 DEF Mutations
    <2>3. QED
      BY <1>1, <1>2, <1>4, <2>1, <2>2, SharedCalls DEF VC!RefuseTransition
  <1>5. CASE InvalidArgument(call[r]) /\ Answer(r, Throw("Argument"))
    <2>1. VC!Replies(r, Throw("Argument"))
      BY <1>1, <1>5, AnswerReplies, ThrowEnds DEF Refusals
    <2>2. QED
      BY <1>1, <1>5, <2>1, SharedCalls DEF VC!RefuseArgument, InvalidArgument
  <1>6. CASE Apply(r)
    BY <1>6, InsideRefines
  <1>7. QED
    BY <1>3, <1>4, <1>5, <1>6 DEF Mutate, Refuse

\* Leaving the lock is where a mutation takes effect and a read is answered.
LEMMA CaptureRefines ==
    ASSUME IInv, NEW r \in Requests, Capture(r)
    PROVE  VC!TakeEffect(r) \/ VC!Read(r) \/ VC!Succeed(r)
  <1>1. /\ VC!Waiting(r) /\ Promised(r) = Pending /\ Frame(r) /\ TypeOK
        /\ call[r] \in Call /\ call[r].number \in Numbers /\ Written(r) /\ pc[r] = "capture"
        /\ UNCHANGED call
    BY Waits, MadeCall, OwnVariables DEF Capture, IInv, Local, Step
  <1>2. CASE call[r].kind \notin Mutations
    <2>1. Object(r) = settled[call[r].number] /\ Object(r) \in Case
      BY <1>1, <1>2, AtCapture
    <2>2. settled' = settled
      BY <1>1, <2>1 DEF Capture, TypeOK
    <2>3. Answer(r, Ok(Object(r))) /\ UNCHANGED effect
      BY <1>2 DEF Capture
    <2>4. CASE call[r].kind = "get"
      <3>1. VC!Replies(r, Ok(settled[call[r].number]))
        BY <1>1, <2>1, <2>2, <2>3, <2>4, AnswerReplies
      <3>2. QED
        BY <1>1, <2>1, <2>4, <3>1, SharedCalls, NoRowAssumption DEF VC!Read
    <2>5. CASE call[r].kind = "create"
      <3>1. VC!Replies(r, Ok(effect[r])) /\ effect[r] # NoRow
        BY <1>1, <2>2, <2>3, <2>5, AnswerReplies, ThrowEnds DEF Written
      <3>2. QED
        BY <1>1, <3>1, SharedCalls DEF VC!Succeed
    <2>6. QED
      BY <1>1, <1>2, <2>4, <2>5, CallFields
  <1>3. CASE call[r].kind \in Mutations
    <2>1. /\ settled[call[r].number] \in Case
          /\ settled[call[r].number].version = call[r].expected
          /\ ~Refused(settled[call[r].number], call[r])
          /\ Object(r) = Mutated(settled[call[r].number], call[r])
      BY <1>1, <1>3, AtCapture
    <2>2. /\ effect' = [effect EXCEPT ![r] = Object(r)] /\ UNCHANGED reply
          /\ settled' = [settled EXCEPT ![call[r].number] = Object(r)]
      BY <1>3 DEF Capture, Goto, Mutations
    <2>3. answers' = answers
      BY <1>1, <2>2, NoAnswer
    <2>4. VC!Change(r)
      BY <1>3, <2>1, <2>2, SharedCalls, NoRowAssumption DEF VC!Change, VC!Store
    <2>5. effect[r] = NoRow
      BY <1>1, <1>3 DEF Written, Mutations
    <2>6. answers[r].outcome = "Pending"
      BY <1>1 DEF answers, Pending, Reply
    <2>7. QED
      BY <1>1, <2>3, <2>4, <2>5, <2>6, NoCallAssumption DEF VC!TakeEffect, answers
  <1>4. QED
    BY <1>2, <1>3

\* SaveChanges answers a mutation with its effect, or loses track of it.
LEMMA SaveRefines ==
    ASSUME IInv, NEW r \in Requests, Save(r)
    PROVE  VC!LoseTrack(r) \/ VC!Succeed(r) \/ UNCHANGED VC!vars
  <1>1. /\ VC!Waiting(r) /\ Frame(r) /\ Progress(r) /\ Written(r) /\ pc[r] = "save"
        /\ call[r] \in Call /\ UNCHANGED <<settled, call, effect>>
    BY Waits, MadeCall, OwnVariables DEF Save, IInv, Local, Step
  <1>2. CASE Answer(r, Throw("Unknown"))
    <2>1. VC!Replies(r, Throw("Unknown"))
      BY <1>1, <1>2, AnswerReplies, ThrowEnds
    <2>2. QED
      BY <1>1, <2>1, SharedCalls DEF VC!LoseTrack
  <1>3. CASE call[r].kind = "create" /\ Goto(r, "lock")
    <2>1. answers' = answers
      BY <1>1, <1>3, NoAnswer DEF Goto
    <2>2. QED
      BY <1>1, <2>1 DEF VC!vars, answers
  <1>4. CASE call[r].kind # "create" /\ Answer(r, Ok(captured[r]))
    <2>1. captured[r] = effect[r] /\ effect[r] # NoRow
      BY <1>1, <1>4, CallFields DEF Progress, Written
    <2>2. VC!Replies(r, Ok(effect[r]))
      BY <1>1, <1>4, <2>1, AnswerReplies
    <2>3. QED
      BY <1>1, <2>1, <2>2, SharedCalls DEF VC!Succeed
  <1>5. QED
    BY <1>2, <1>3, <1>4 DEF Save

\* Every step is a step of VersionedCases or a stutter.
LEMMA StepRefines == IInv /\ [Next]_vars => [VC!Next]_VC!vars
  <1> SUFFICES ASSUME IInv, [Next]_vars PROVE [VC!Next]_VC!vars
    OBVIOUS
  <1>1. ASSUME NEW r \in Requests, Begin(r) \/ Step(r)
        PROVE  [VC!Next]_VC!vars
    BY <1>1, BeginRefines, AddRefines, LoadRefines, InsideRefines, MutateRefines,
       CaptureRefines, SaveRefines DEF Step, VC!Next
  <1>2. CASE UNCHANGED vars
    BY <1>2 DEF vars, VC!vars, Promised, Successful
  <1>3. QED
    BY <1>1, <1>2 DEF Next

\* The in-memory service keeps the promise of VersionedCases.
THEOREM Refinement == Spec => ImplementsVersionedCases
  BY InitRefines, StepRefines, Invariance, PTL DEF Spec, VC!Spec, ImplementsVersionedCases

-----------------------------------------------------------------------------
(***************************************************************************)
(* What holds of the listings for any number of cases and of threads that   *)
(* create and change them meanwhile.  The invariant below holds together    *)
(* with that of InMemoryCaseService.                                        *)
(***************************************************************************)

Row == [number : Numbers, case : Case]

ListingTypes ==
    /\ stage \in Stages
    /\ openOnly \in BOOLEAN
    /\ unread \subseteq Numbers
    /\ rows \in Seq(Row)
    /\ begun \subseteq Numbers
    /\ lived \in [Numbers -> SUBSET (Case \cup {NoRow})]

\* What a case has been since the listing began includes what it is; it was stored
\* when the listing began if it has never been missing since.
LivedTells ==
    stage # "idle" =>
        /\ stage = "reading" => \A n \in Numbers : settled[n] \in lived[n]
        /\ \A n \in Numbers : n \in begun <=> NoRow \notin lived[n]

\* While it reads, a listing has one row of each object it has taken a snapshot of.
OneRowEach ==
    /\ stage = "idle" => rows = <<>> /\ unread = {}
    /\ stage = "reading" =>
          /\ unread \subseteq begun
          /\ \A i, j \in 1..Len(rows) : rows[i].number = rows[j].number => i = j
          /\ \A n \in Numbers : n \in begun \ unread <=> RowsOf(n) # {}

ListingInv ==
    /\ ListingTypes
    /\ LivedTells
    /\ OneRowEach
    /\ ListingIsCurrent
    /\ ListingIsComplete
    /\ OpenListingInOrder

LInv == IInv /\ ListingInv

-----------------------------------------------------------------------------
\* Filter and sort.

\* Rows are compared by two integers.
LEMMA RowNumbers ==
    ASSUME rows \in Seq(Row), NEW i \in 1..Len(rows)
    PROVE  /\ rows[i] \in Row
           /\ rows[i].number \in Numbers /\ rows[i].number \in Int
           /\ rows[i].case \in Case /\ rows[i].case.severity \in Int
  <1>1. rows[i] \in Row
    OBVIOUS
  <1>2. rows[i].number \in Numbers /\ rows[i].case \in Case
    BY <1>1 DEF Row
  <1>3. rows[i].case.severity \in Int
    BY <1>2 DEF Case
  <1>4. QED
    BY <1>1, <1>2, <1>3, NumbersAssumption

LEMMA KeptIsFinite ==
    ASSUME rows \in Seq(Row)
    PROVE  /\ IsFiniteSet(Kept)
           /\ Cardinality(Kept) \in Nat
           /\ \A i \in Kept : i \in 1..Len(rows) /\ i \in Nat
  <1>1. Len(rows) \in Nat
    OBVIOUS
  <1>2. IsFiniteSet(1..Len(rows))
    BY <1>1, FS_Interval
  <1>3. Kept \subseteq 1..Len(rows)
    BY DEF Kept
  <1>4. IsFiniteSet(Kept)
    BY <1>2, <1>3, FS_Subset
  <1>5. QED
    BY <1>1, <1>3, <1>4, FS_CardinalityType

\* What is ahead of a row is ahead of what comes after the row.
LEMMA AheadIsTransitive ==
    ASSUME rows \in Seq(Row), NEW i \in Kept, NEW j \in Ahead(i)
    PROVE  Ahead(j) \subseteq Ahead(i) /\ j \in Kept /\ i \notin Ahead(j) /\ j \notin Ahead(j)
  <1>1. j \in Kept
    BY DEF Ahead
  <1>2. /\ rows[i].number \in Int /\ rows[i].case.severity \in Int
        /\ rows[j].number \in Int /\ rows[j].case.severity \in Int
        /\ i \in Nat /\ j \in Nat
    BY <1>1, KeptIsFinite, RowNumbers
  <1>3. i \notin Ahead(j) /\ j \notin Ahead(j)
    BY <1>2 DEF Ahead, ComesBefore
  <1>4. ASSUME NEW k \in Ahead(j) PROVE k \in Ahead(i)
    <2>1. k \in Kept
      BY DEF Ahead
    <2>2. rows[k].number \in Int /\ rows[k].case.severity \in Int /\ k \in Nat
      BY <2>1, KeptIsFinite, RowNumbers
    <2>3. QED
      BY <1>2, <2>1, <2>2 DEF Ahead, ComesBefore
  <1>5. QED
    BY <1>1, <1>3, <1>4

\* Of two rows one is ahead of the other.
LEMMA AheadIsTotal ==
    ASSUME rows \in Seq(Row), NEW i \in Kept, NEW j \in Kept, i # j
    PROVE  i \in Ahead(j) \/ j \in Ahead(i)
  <1>1. /\ rows[i].number \in Int /\ rows[i].case.severity \in Int
        /\ rows[j].number \in Int /\ rows[j].case.severity \in Int
        /\ i \in Nat /\ j \in Nat
    BY KeptIsFinite, RowNumbers
  <1>2. QED
    BY <1>1 DEF Ahead, ComesBefore

\* The further back a row is, the more rows are ahead of it.
LEMMA FurtherBack ==
    ASSUME rows \in Seq(Row), NEW i \in Kept
    PROVE  /\ Cardinality(Ahead(i)) \in Nat
           /\ Cardinality(Ahead(i)) < Cardinality(Kept)
           /\ \A j \in Ahead(i) : Cardinality(Ahead(j)) < Cardinality(Ahead(i))
  <1>1. IsFiniteSet(Kept) /\ i \in Nat
    BY KeptIsFinite
  <1>2. Ahead(i) \subseteq Kept /\ i \notin Ahead(i)
    BY <1>1, KeptIsFinite, RowNumbers DEF Ahead, ComesBefore
  <1>3. IsFiniteSet(Ahead(i)) /\ Cardinality(Ahead(i)) \in Nat
    BY <1>1, <1>2, FS_Subset, FS_CardinalityType
  <1>4. Cardinality(Ahead(i)) < Cardinality(Kept)
    <2>1. Cardinality(Ahead(i)) <= Cardinality(Kept) /\ Cardinality(Ahead(i)) # Cardinality(Kept)
      BY <1>1, <1>2, FS_Subset
    <2>2. QED
      BY <1>3, <2>1, KeptIsFinite
  <1>5. ASSUME NEW j \in Ahead(i)
        PROVE  Cardinality(Ahead(j)) < Cardinality(Ahead(i))
    <2>1. Ahead(j) \subseteq Ahead(i) /\ j \notin Ahead(j)
      BY AheadIsTransitive
    <2>2. /\ Cardinality(Ahead(j)) <= Cardinality(Ahead(i))
          /\ Cardinality(Ahead(j)) # Cardinality(Ahead(i))
          /\ IsFiniteSet(Ahead(j))
      BY <1>3, <2>1, FS_Subset
    <2>3. Cardinality(Ahead(j)) \in Nat
      BY <2>2, FS_CardinalityType
    <2>4. QED
      BY <1>3, <2>2, <2>3
  <1>6. QED
    BY <1>3, <1>4, <1>5

\* A row's place in the sorted list.
Place(k) == CHOOSE i \in Kept : Cardinality(Ahead(i)) = k - 1

(***************************************************************************)
(* Sorted has every row that is kept at exactly one place, and no row       *)
(* stands behind one that is not ahead of it.                               *)
(***************************************************************************)
LEMMA SortedPlaces ==
    ASSUME rows \in Seq(Row)
    PROVE  /\ Cardinality(Kept) \in Nat
           /\ \A k \in 1..Cardinality(Kept) :
                 Place(k) \in Kept /\ Cardinality(Ahead(Place(k))) = k - 1
           /\ \A i \in Kept : \E k \in 1..Cardinality(Kept) : Place(k) = i
           /\ \A k, l \in 1..Cardinality(Kept) : k < l => Place(k) \in Ahead(Place(l))
  <1> DEFINE n == Cardinality(Kept)
             rank == [i \in Kept |-> Cardinality(Ahead(i)) + 1]
  <1>1. n \in Nat /\ IsFiniteSet(Kept)
    BY KeptIsFinite
  <1>2. \A i \in Kept : Cardinality(Ahead(i)) \in Nat /\ Cardinality(Ahead(i)) < n
    BY FurtherBack
  <1>3. rank \in [Kept -> 1..n]
    <2>1. \A i \in Kept : Cardinality(Ahead(i)) + 1 \in 1..n
      BY <1>1, <1>2
    <2>2. QED
      BY <2>1
  <1>4. \A i, j \in Kept : rank[i] = rank[j] => i = j
    <2> SUFFICES ASSUME NEW i \in Kept, NEW j \in Kept, i # j
                 PROVE  rank[i] # rank[j]
      OBVIOUS
    <2>1. \/ Cardinality(Ahead(i)) < Cardinality(Ahead(j))
          \/ Cardinality(Ahead(j)) < Cardinality(Ahead(i))
      BY AheadIsTotal, FurtherBack
    <2>2. QED
      BY <1>2, <2>1
  <1>5. rank \in Injection(Kept, 1..n)
    BY <1>3, <1>4 DEF Injection, IsInjective
  <1>6. rank \in Surjection(Kept, 1..n)
    <2>1. IsFiniteSet(1..n) /\ Cardinality(1..n) = n
      BY <1>1, FS_Interval
    <2>2. QED
      BY <1>5, <2>1, FS_Injection
  <1>7. \A k \in 1..n : \E i \in Kept : Cardinality(Ahead(i)) = k - 1
    <2> SUFFICES ASSUME NEW k \in 1..n
                 PROVE  \E i \in Kept : Cardinality(Ahead(i)) = k - 1
      OBVIOUS
    <2>1. PICK i \in Kept : rank[i] = k
      BY <1>6 DEF Surjection
    <2>2. QED
      BY <1>1, <1>2, <2>1
  <1>8. \A k \in 1..n : Place(k) \in Kept /\ Cardinality(Ahead(Place(k))) = k - 1
    BY <1>7 DEF Place
  <1>9. \A i \in Kept : \E k \in 1..n : Place(k) = i
    <2> SUFFICES ASSUME NEW i \in Kept PROVE \E k \in 1..n : Place(k) = i
      OBVIOUS
    <2>1. rank[i] \in 1..n /\ rank[i] - 1 = Cardinality(Ahead(i))
      BY <1>2, <1>3
    <2>2. Place(rank[i]) \in Kept /\ Cardinality(Ahead(Place(rank[i]))) = rank[i] - 1
      BY <1>8, <2>1
    <2>3. rank[Place(rank[i])] = rank[i]
      BY <1>2, <2>1, <2>2
    <2>4. QED
      BY <1>4, <2>1, <2>2, <2>3
  <1>10. ASSUME NEW k \in 1..n, NEW l \in 1..n, k < l
         PROVE  Place(k) \in Ahead(Place(l))
    <2>1. Place(k) \in Kept /\ Place(l) \in Kept
      BY <1>8
    <2>2. Cardinality(Ahead(Place(k))) < Cardinality(Ahead(Place(l)))
      BY <1>1, <1>8, <1>10
    <2>3. Place(l) \notin Ahead(Place(k))
      BY <1>2, <2>1, <2>2, FurtherBack
    <2>4. Place(k) # Place(l)
      BY <1>2, <2>1, <2>2
    <2>5. QED
      BY <2>1, <2>3, <2>4, AheadIsTotal
  <1>11. QED
    BY <1>1, <1>8, <1>9, <1>10

-----------------------------------------------------------------------------
\* The steps of a listing.

LEMMA InitLInv == ListingInit => LInv
  <1> SUFFICES ASSUME ListingInit PROVE LInv
    OBVIOUS
  <1>1. IInv
    BY InitIInv DEF ListingInit
  <1>2. ListingTypes
    BY DEF ListingInit, ListingTypes, Stages
  <1>3. LivedTells /\ OneRowEach
    BY DEF ListingInit, LivedTells, OneRowEach
  <1>4. ListingIsCurrent /\ ListingIsComplete /\ OpenListingInOrder
    BY DEF ListingInit, ListingIsCurrent, ListingIsComplete, OpenListingInOrder
  <1>5. QED
    BY <1>1, <1>2, <1>3, <1>4 DEF LInv, ListingInv

\* An object whose lock is free is the case its callers know.
LEMMA FreeObject ==
    ASSUME IInv, NEW n \in Numbers, holders[n] = {}
    PROVE  cases[n] = settled[n]
  BY DEF IInv, FreeIsSettled

\* The objects that are stored are the cases that are known.
LEMMA StoredIsSettled ==
    ASSUME IInv
    PROVE  /\ Stored = {n \in Numbers : settled[n] # NoRow}
           /\ settled \in [Numbers -> Case \cup {NoRow}]
  BY DEF IInv, FreeIsSettled, Stored, TypeOK

LEMMA GetAllKeeps ==
    ASSUME LInv, GetAll
    PROVE  ListingInv'
  <1>1. stage = "idle" /\ stage' = "reading" /\ rows = <<>> /\ rows' = <<>>
    BY DEF LInv, ListingInv, OneRowEach, GetAll
  <1>2. UNCHANGED settled /\ openOnly' = openOnly /\ unread' = Stored /\ begun' = Stored
    BY DEF GetAll, vars
  <1>3. lived' = [n \in Numbers |-> {settled[n]}]
    BY DEF GetAll
  <1>4. /\ Stored = {n \in Numbers : settled[n] # NoRow}
        /\ settled \in [Numbers -> Case \cup {NoRow}]
    BY StoredIsSettled DEF LInv, ListingInv
  <1>5. ListingTypes'
    BY <1>1, <1>2, <1>3, <1>4 DEF LInv, ListingInv, ListingTypes, Stages
  <1>6. LivedTells'
    BY <1>1, <1>2, <1>3, <1>4 DEF LivedTells
  <1>7. OneRowEach'
    BY <1>1, <1>2 DEF OneRowEach, RowsOf
  <1>8. ListingIsCurrent' /\ ListingIsComplete' /\ OpenListingInOrder'
    BY <1>1 DEF ListingIsCurrent, ListingIsComplete, OpenListingInOrder
  <1>9. QED
    BY <1>5, <1>6, <1>7, <1>8 DEF ListingInv

LEMMA SnapshotKeeps ==
    ASSUME LInv, NEW n \in Numbers, Snapshot(n)
    PROVE  ListingInv'
  <1> DEFINE row == [number |-> n, case |-> cases[n]]
  <1>1. /\ stage = "reading" /\ stage' = "reading" /\ n \in unread
        /\ unread' = unread \ {n} /\ rows' = Append(rows, row)
        /\ begun' = begun /\ lived' = lived /\ openOnly' = openOnly /\ settled' = settled
    BY DEF Snapshot, vars
  <1>2. cases[n] = settled[n]
    BY FreeObject DEF Snapshot, LInv, ListingInv
  <1>3. n \in begun /\ settled[n] \in lived[n] /\ NoRow \notin lived[n]
    BY <1>1 DEF LInv, ListingInv, LivedTells, OneRowEach
  <1>4. cases[n] \in Case /\ row \in Row
    <2>1. settled[n] \in Case \cup {NoRow}
      BY StoredIsSettled DEF LInv, ListingInv
    <2>2. cases[n] \in Case
      BY <1>2, <1>3, <2>1
    <2>3. QED
      BY <2>2 DEF Row
  <1>5. rows \in Seq(Row) /\ Len(rows) \in Nat
    BY DEF LInv, ListingInv, ListingTypes
  <1>6. /\ rows' \in Seq(Row)
        /\ Len(rows') = Len(rows) + 1
        /\ \A i \in 1..Len(rows) : rows'[i] = rows[i]
        /\ rows'[Len(rows) + 1] = row
    BY <1>1, <1>4, <1>5
  <1>7. \A i \in 1..Len(rows) : rows[i].number # n
    <2> SUFFICES ASSUME NEW i \in 1..Len(rows), rows[i].number = n PROVE FALSE
      OBVIOUS
    <2>1. i \in RowsOf(n)
      BY DEF RowsOf
    <2>2. QED
      BY <1>1, <2>1 DEF LInv, ListingInv, OneRowEach
  <1>8. ListingTypes'
    BY <1>1, <1>6 DEF LInv, ListingInv, ListingTypes
  <1>9. LivedTells'
    BY <1>1 DEF LInv, ListingInv, LivedTells
  <1>10. OneRowEach'
    <2>1. unread' \subseteq begun'
      BY <1>1 DEF LInv, ListingInv, OneRowEach
    <2>2. \A i, j \in 1..Len(rows') : rows'[i].number = rows'[j].number => i = j
      <3>1. \A i \in 1..Len(rows') : i \in 1..Len(rows) \/ i = Len(rows) + 1
        BY <1>5, <1>6
      <3>2. \A i, j \in 1..Len(rows) : rows[i].number = rows[j].number => i = j
        BY <1>1 DEF LInv, ListingInv, OneRowEach
      <3>3. QED
        BY <1>6, <1>7, <3>1, <3>2
    <2>3. \A m \in Numbers : m \in begun' \ unread' <=> RowsOf(m)' # {}
      <3> SUFFICES ASSUME NEW m \in Numbers
                   PROVE  m \in begun' \ unread' <=> RowsOf(m)' # {}
        OBVIOUS
      <3>1. m \in begun \ unread <=> RowsOf(m) # {}
        BY <1>1 DEF LInv, ListingInv, OneRowEach
      <3>2. CASE m = n
        <4>1. Len(rows) + 1 \in RowsOf(m)'
          BY <1>5, <1>6, <3>2 DEF RowsOf
        <4>2. QED
          BY <1>1, <1>3, <3>2, <4>1
      <3>3. CASE m # n
        <4>1. RowsOf(m)' = RowsOf(m)
          BY <1>5, <1>6, <3>3 DEF RowsOf
        <4>2. QED
          BY <1>1, <3>1, <3>3, <4>1
      <3>4. QED
        BY <3>2, <3>3
    <2>4. QED
      BY <1>1, <2>1, <2>2, <2>3 DEF OneRowEach
  <1>11. ListingIsCurrent'
    <2> SUFFICES ASSUME NEW i \in 1..Len(rows')
                 PROVE  rows'[i].case \in lived'[rows'[i].number] \ {NoRow}
      BY DEF ListingIsCurrent
    <2>1. CASE i \in 1..Len(rows)
      BY <1>1, <1>6, <2>1 DEF LInv, ListingInv, ListingIsCurrent
    <2>2. CASE i = Len(rows) + 1
      BY <1>1, <1>2, <1>3, <1>6, <2>2
    <2>3. QED
      BY <1>5, <1>6, <2>1, <2>2
  <1>12. ListingIsComplete' /\ OpenListingInOrder'
    BY <1>1 DEF ListingIsComplete, OpenListingInOrder
  <1>13. QED
    BY <1>8, <1>9, <1>10, <1>11, <1>12 DEF ListingInv

\* The result has the rows that are listed, each at one place.
LEMMA SortedRows ==
    ASSUME rows \in Seq(Row)
    PROVE  /\ Sorted \in Seq(Row)
           /\ Len(Sorted) = Cardinality(Kept)
           /\ \A k \in 1..Len(Sorted) :
                 Place(k) \in Kept /\ Place(k) \in 1..Len(rows) /\ Sorted[k] = rows[Place(k)]
           /\ \A i \in Kept : \E k \in 1..Len(Sorted) : Sorted[k] = rows[i]
           /\ \A k, l \in 1..Len(Sorted) : k < l => Place(k) \in Ahead(Place(l))
           /\ \A k, l \in 1..Len(Sorted) : Place(k) = Place(l) => k = l
  <1> DEFINE n == Cardinality(Kept)
  <1>1. n \in Nat
    BY KeptIsFinite
  <1>2. \A k \in 1..n : Place(k) \in Kept /\ Cardinality(Ahead(Place(k))) = k - 1
    BY SortedPlaces
  <1>3. \A i \in Kept : i \in 1..Len(rows) /\ rows[i] \in Row
    BY KeptIsFinite, RowNumbers
  <1>4. Sorted = [k \in 1..n |-> rows[Place(k)]]
    BY DEF Sorted, Place
  <1>5. Sorted \in [1..n -> Row]
    BY <1>2, <1>3, <1>4
  <1>6. Sorted \in Seq(Row) /\ Len(Sorted) = n
    BY <1>1, <1>5
  <1>7. \A k \in 1..n : Sorted[k] = rows[Place(k)]
    BY <1>4
  <1>8. \A i \in Kept : \E k \in 1..n : Sorted[k] = rows[i]
    BY <1>7, SortedPlaces
  <1>9. \A k, l \in 1..n : Place(k) = Place(l) => k = l
    BY <1>1, <1>2
  <1>10. \A k, l \in 1..n : k < l => Place(k) \in Ahead(Place(l))
    BY SortedPlaces
  <1>11. QED
    BY <1>2, <1>3, <1>6, <1>7, <1>8, <1>9, <1>10

\* What a listing that is not filtered and sorted returns, against what it has read.
LEMMA ReturnAllKeeps ==
    ASSUME LInv, Return, ~openOnly
    PROVE  ListingInv'
  <1>1. /\ stage = "reading" /\ stage' = "returned" /\ unread = {} /\ unread' = {}
        /\ rows' = rows /\ begun' = begun /\ lived' = lived /\ openOnly' = openOnly
        /\ settled' = settled
    BY DEF Return, vars
  <1>2. ListingTypes' /\ LivedTells' /\ OneRowEach'
    BY <1>1 DEF LInv, ListingInv, ListingTypes, Stages, LivedTells, OneRowEach
  <1>3. ListingIsCurrent'
    BY <1>1 DEF LInv, ListingInv, ListingIsCurrent
  <1>4. OpenListingInOrder'
    BY <1>1 DEF OpenListingInOrder
  <1>5. ListingIsComplete'
    <2> SUFFICES ASSUME NEW n \in Numbers
                 PROVE  /\ \A i, j \in RowsOf(n) : i = j
                        /\ RowsOf(n) # {} <=> n \in begun
      BY <1>1 DEF ListingIsComplete, RowsOf
    <2>1. n \in begun <=> RowsOf(n) # {}
      BY <1>1 DEF LInv, ListingInv, OneRowEach
    <2>2. \A i, j \in RowsOf(n) : i = j
      BY <1>1 DEF LInv, ListingInv, OneRowEach, RowsOf
    <2>3. QED
      BY <2>1, <2>2
  <1>6. QED
    BY <1>2, <1>3, <1>4, <1>5 DEF ListingInv

LEMMA ReturnOpenKeeps ==
    ASSUME LInv, Return, openOnly
    PROVE  ListingInv'
  <1>1. /\ stage = "reading" /\ stage' = "returned" /\ unread = {} /\ unread' = {}
        /\ rows' = Sorted /\ begun' = begun /\ lived' = lived /\ openOnly' = openOnly
        /\ settled' = settled
    BY DEF Return, vars
  <1>2. rows \in Seq(Row)
    BY DEF LInv, ListingInv, ListingTypes
  <1>3. /\ rows' \in Seq(Row) /\ Len(rows') \in Nat
        /\ \A k \in 1..Len(rows') :
              Place(k) \in Kept /\ Place(k) \in 1..Len(rows) /\ rows'[k] = rows[Place(k)]
        /\ \A i \in Kept : \E k \in 1..Len(rows') : rows'[k] = rows[i]
        /\ \A k, l \in 1..Len(rows') : k < l => Place(k) \in Ahead(Place(l))
        /\ \A k, l \in 1..Len(rows') : Place(k) = Place(l) => k = l
    BY <1>1, <1>2, SortedRows
  <1>4. ListingTypes' /\ LivedTells' /\ OneRowEach'
    BY <1>1, <1>3 DEF LInv, ListingInv, ListingTypes, Stages, LivedTells, OneRowEach
  <1>5. ListingIsCurrent'
    <2>1. \A i \in 1..Len(rows) : rows[i].case \in lived[rows[i].number] \ {NoRow}
      BY DEF LInv, ListingInv, ListingIsCurrent
    <2>2. QED
      BY <1>1, <1>3, <2>1 DEF ListingIsCurrent
  <1>6. \A i, j \in 1..Len(rows) : rows[i].number = rows[j].number => i = j
    BY <1>1 DEF LInv, ListingInv, OneRowEach
  <1>7. OpenListingInOrder'
    <2> SUFFICES ASSUME NEW k \in 1..Len(rows'), NEW l \in 1..Len(rows'), k < l
                 PROVE  /\ rows'[k].case.severity >= rows'[l].case.severity
                        /\ rows'[k].case.severity = rows'[l].case.severity
                              => rows'[k].number < rows'[l].number
      BY DEF OpenListingInOrder
    <2> DEFINE i == Place(k)
               j == Place(l)
    <2>1. /\ i \in Ahead(j) /\ i \in 1..Len(rows) /\ j \in 1..Len(rows)
          /\ rows'[k] = rows[i] /\ rows'[l] = rows[j] /\ i # j
      BY <1>3
    <2>2. /\ rows[i].number \in Int /\ rows[i].case.severity \in Int
          /\ rows[j].number \in Int /\ rows[j].case.severity \in Int
      BY <1>2, <2>1, RowNumbers
    <2>3. rows[i].number # rows[j].number
      BY <1>6, <2>1
    <2>4. ComesBefore(rows[i], rows[j])
      BY <2>1, <2>2, <2>3 DEF Ahead, ComesBefore
    <2>5. QED
      BY <2>1, <2>2, <2>4 DEF ComesBefore
  <1>8. ListingIsComplete'
    <2> SUFFICES ASSUME NEW n \in Numbers
                 PROVE  /\ \A k, l \in RowsOf(n)' : k = l
                        /\ RowsOf(n)' # {} => n \in begun
                        /\ n \in begun /\ (\A case \in lived[n] : case.isOpen) => RowsOf(n)' # {}
                        /\ (\A case \in lived[n] : case # NoRow /\ ~case.isOpen) => RowsOf(n)' = {}
      BY <1>1 DEF ListingIsComplete
    <2>1. \A k \in RowsOf(n)' : /\ k \in 1..Len(rows') /\ Place(k) \in 1..Len(rows)
                               /\ rows[Place(k)].number = n /\ rows[Place(k)].case.isOpen
                               /\ rows[Place(k)].case \in lived[n]
      <3> SUFFICES ASSUME NEW k \in RowsOf(n)'
                   PROVE  /\ k \in 1..Len(rows') /\ Place(k) \in 1..Len(rows)
                          /\ rows[Place(k)].number = n /\ rows[Place(k)].case.isOpen
                          /\ rows[Place(k)].case \in lived[n]
        OBVIOUS
      <3>1. k \in 1..Len(rows') /\ rows'[k].number = n
        BY DEF RowsOf
      <3>2. /\ Place(k) \in 1..Len(rows) /\ Place(k) \in Kept /\ rows[Place(k)].number = n
        BY <1>3, <3>1
      <3>3. rows[Place(k)].case.isOpen
        BY <3>2 DEF Kept, Listed
      <3>4. QED
        BY <3>1, <3>2, <3>3 DEF LInv, ListingInv, ListingIsCurrent
    <2>2. ASSUME NEW k \in RowsOf(n)', NEW l \in RowsOf(n)'
          PROVE  k = l
      <3>1. /\ k \in 1..Len(rows') /\ l \in 1..Len(rows')
            /\ Place(k) \in 1..Len(rows) /\ Place(l) \in 1..Len(rows)
            /\ rows[Place(k)].number = rows[Place(l)].number
        BY <2>1
      <3>2. Place(k) = Place(l)
        BY <1>6, <3>1
      <3>3. QED
        BY <1>3, <3>1, <3>2
    <2>3. RowsOf(n)' # {} => n \in begun
      <3>1. RowsOf(n)' # {} => RowsOf(n) # {}
        BY <2>1 DEF RowsOf
      <3>2. QED
        BY <1>1, <3>1 DEF LInv, ListingInv, OneRowEach
    <2>4. ASSUME n \in begun, \A case \in lived[n] : case.isOpen
          PROVE  RowsOf(n)' # {}
      <3>1. PICK i \in RowsOf(n) : TRUE
        BY <1>1, <2>4 DEF LInv, ListingInv, OneRowEach
      <3>2. i \in 1..Len(rows) /\ rows[i].number = n /\ rows[i].case \in lived[n]
        BY <3>1 DEF RowsOf, LInv, ListingInv, ListingIsCurrent
      <3>3. i \in Kept
        BY <2>4, <3>2 DEF Kept, Listed
      <3>4. PICK k \in 1..Len(rows') : rows'[k] = rows[i]
        BY <1>3, <3>3
      <3>5. k \in RowsOf(n)'
        BY <3>2, <3>4 DEF RowsOf
      <3>6. QED
        BY <3>5
    <2>5. ASSUME \A case \in lived[n] : case # NoRow /\ ~case.isOpen
          PROVE  RowsOf(n)' = {}
      BY <2>1, <2>5
    <2>6. QED
      BY <2>2, <2>3, <2>4, <2>5
  <1>9. QED
    BY <1>4, <1>5, <1>7, <1>8 DEF ListingInv

LEMMA OthersKeepListing ==
    ASSUME LInv, Next \/ UNCHANGED vars,
           UNCHANGED <<stage, openOnly, unread, rows, begun>>,
           \/ UNCHANGED <<vars, lived>>
           \/ lived' = IF stage = "reading"
                       THEN [n \in Numbers |-> lived[n] \cup {settled'[n]}]
                       ELSE lived
    PROVE  ListingInv'
  <1>1. IInv /\ ListingTypes
    BY DEF LInv, ListingInv
  <1>2. \A n \in Numbers : Settles(n)
    BY <1>1, SettledMoves
  <1>3. IInv'
    BY <1>1, StepIInv
  <1>4. settled \in [Numbers -> Case \cup {NoRow}] /\ settled' \in [Numbers -> Case \cup {NoRow}]
    BY <1>1, <1>3 DEF IInv, TypeOK
  <1>5. \A n \in Numbers : settled[n] # NoRow => settled'[n] # NoRow
    BY <1>2, <1>4, NoRowAssumption DEF Settles
  <1>6. /\ stage = "reading" => lived' \in [Numbers -> SUBSET (Case \cup {NoRow})]
        /\ stage # "reading" => lived' = lived
        /\ \A n \in Numbers : lived[n] \subseteq lived'[n]
        /\ stage = "reading" =>
              \A n \in Numbers : settled'[n] \in lived'[n] /\ lived'[n] \subseteq lived[n] \cup {settled'[n]}
    <2>1. CASE UNCHANGED <<vars, lived>>
      <3>1. UNCHANGED settled
        BY <2>1 DEF vars
      <3>2. QED
        BY <1>1, <2>1, <3>1 DEF ListingTypes, LInv, ListingInv, LivedTells
    <2>2. CASE lived' = IF stage = "reading"
                        THEN [n \in Numbers |-> lived[n] \cup {settled'[n]}]
                        ELSE lived
      BY <1>1, <1>4, <2>2 DEF ListingTypes
    <2>3. QED
      BY <2>1, <2>2
  <1>7. ListingTypes'
    BY <1>1, <1>6 DEF ListingTypes
  <1>8. LivedTells'
    <2>1. \A n \in Numbers : stage = "reading" /\ n \in begun => settled'[n] # NoRow
      BY <1>5 DEF LInv, ListingInv, LivedTells
    <2>2. \A n \in Numbers : stage = "reading" => (NoRow \in lived[n] <=> NoRow \in lived'[n])
      BY <1>6, <2>1 DEF LInv, ListingInv, LivedTells
    <2>3. QED
      BY <1>6, <2>2 DEF LInv, ListingInv, LivedTells
  <1>9. OneRowEach'
    BY DEF LInv, ListingInv, OneRowEach, RowsOf
  <1>10. ListingIsCurrent'
    <2>1. \A i \in 1..Len(rows) : rows[i].number \in Numbers
      BY <1>1, RowNumbers DEF ListingTypes
    <2>2. QED
      BY <1>6, <2>1 DEF LInv, ListingInv, ListingIsCurrent
  <1>11. ListingIsComplete'
    <2>1. stage = "returned" => lived' = lived
      BY <1>6
    <2>2. QED
      BY <2>1 DEF LInv, ListingInv, ListingIsComplete, RowsOf
  <1>12. OpenListingInOrder'
    BY DEF LInv, ListingInv, OpenListingInOrder
  <1>13. QED
    BY <1>7, <1>8, <1>9, <1>10, <1>11, <1>12 DEF ListingInv

LEMMA StepLInv == LInv /\ [ListingNext]_<<vars, listing>> => LInv'
  <1> SUFFICES ASSUME LInv, [ListingNext]_<<vars, listing>> PROVE LInv'
    OBVIOUS
  <1>1. IInv'
    <2>1. [Next]_vars
      BY DEF ListingNext, GetAll, Snapshot, Return, Others
    <2>2. QED
      BY <2>1, StepIInv DEF LInv, ListingInv
  <1>2. ListingInv'
    <2>1. CASE GetAll
      BY <2>1, GetAllKeeps
    <2>2. CASE \E n \in Numbers : Snapshot(n)
      BY <2>2, SnapshotKeeps
    <2>3. CASE Return
      BY <2>3, ReturnAllKeeps, ReturnOpenKeeps
    <2>4. CASE Others
      BY <2>4, OthersKeepListing DEF Others
    <2>5. CASE UNCHANGED <<vars, listing>>
      BY <2>5, OthersKeepListing DEF listing
    <2>6. QED
      BY <2>1, <2>2, <2>3, <2>4, <2>5 DEF ListingNext
  <1>3. QED
    BY <1>1, <1>2 DEF LInv, ListingInv

LEMMA ListingInvariance == ListingSpec => []LInv
  BY InitLInv, StepLInv, PTL DEF ListingSpec

-----------------------------------------------------------------------------
\* The theorems.

\* Every row is its case as it was at one moment between the call and the return: no
\* thread that writes the object field by field is ever read in between.
THEOREM ListingsAreCurrent == ListingSpec => []ListingIsCurrent
  <1>1. LInv => ListingIsCurrent
    BY DEF LInv, ListingInv
  <1>2. QED
    BY <1>1, ListingInvariance, PTL

\* No case that was stored when the listing began is missing or listed twice.
THEOREM ListingsAreComplete == ListingSpec => []ListingIsComplete
  <1>1. LInv => ListingIsComplete
    BY DEF LInv, ListingInv
  <1>2. QED
    BY <1>1, ListingInvariance, PTL

\* Open cases come highest severity first, then by number, whenever their rows were read.
THEOREM OpenListingsAreInOrder == ListingSpec => []OpenListingInOrder
  <1>1. LInv => OpenListingInOrder
    BY DEF LInv, ListingInv
  <1>2. QED
    BY <1>1, ListingInvariance, PTL
=============================================================================
