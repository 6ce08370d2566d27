----------------------------- MODULE PortalProofs -----------------------------
(***************************************************************************)
(* What holds of Portal for any number of tabs, calls, case numbers,        *)
(* severities and versions.                                                 *)
(***************************************************************************)
EXTENDS Portal, CaseCallsProofs

-----------------------------------------------------------------------------
\* The inductive invariant.

\* An earlier version of a stored case, or the case as it is.
Precedes(x, case) ==
    /\ case # NoRow
    /\ x.version <= case.version
    /\ x.version = case.version => x = case

\* The forms of a details page are about a case the store has had, and their
\* tag is not ahead of it.  Only forms are posted.
PageTells(t) ==
    /\ page[t].form = "details" =>
          /\ page[t].shown # NoRow
          /\ Precedes(page[t].shown, cases[page[t].number])
          /\ page[t].tag <= page[t].shown.version
    /\ post[t].stage \in {"posting", "reloading"} => page[t].form \in {"create", "details"}
    /\ post[t].stage = "posting" =>
          /\ post[t].request \in Requests
          /\ call[post[t].request] # NoCall
          /\ call[post[t].request].number = page[t].number
          /\ page[t].form = "create" => call[post[t].request].kind = "create"

\* What is known of a call: the case its user saw, its effect and its answer.
CallTells(r) ==
    /\ call[r] = NoCall => effect[r] = NoRow /\ answer[r] = Pending
    /\ call[r] # NoCall => call[r].kind # "get"
    /\ call[r] # NoCall /\ call[r].kind \in Mutations =>
          /\ seen[r] # NoRow
          /\ Precedes(seen[r], cases[call[r].number])
          /\ call[r].expected <= seen[r].version
    /\ effect[r] # NoRow /\ call[r].kind \in Mutations =>
          /\ effect[r] = Mutated(seen[r], call[r])
          /\ IsChange(effect[r], call[r]) => cases[call[r].number].version > call[r].expected
    /\ answer[r].outcome = "Ok" => effect[r] # NoRow /\ answer[r].snapshot = effect[r]

\* A message that a form of this browser has earned.
Earned(message) ==
    message.text # "none" =>
        \E r \in Requests :
            /\ effect[r] # NoRow
            /\ call[r].number = message.number
            /\ message.text = "created" => call[r].kind = "create"
            /\ message.text = "updated" => effect[r].version = message.version

IInv ==
    /\ TypeOK
    /\ \A t \in Tabs : PageTells(t)
    /\ \A r \in Requests : CallTells(r)
    /\ TagIsSpentOnce
    /\ SuccessMessageIsTrue

\* The store shares the rules of a case and the calls.
LEMMA SharedRules ==
    /\ Store!Mutations = Mutations
    /\ Store!Pending = Pending
    /\ \A x : Store!Throw(x) = Throw(x)
    /\ \A c : Store!Ok(c) = Ok(c)
    /\ \A v : Store!CaseConcurrency(v) = CaseConcurrency(v)
    /\ \A s : Store!NewCase(s) = NewCase(s)
    /\ \A s : Store!ValidSeverity(s) = ValidSeverity(s)
    /\ \A c, k : Store!Refused(c, k) = Refused(c, k)
    /\ \A c, k : Store!Mutated(c, k) = Mutated(c, k)
  BY DEF Store!Mutations, Mutations,
         Store!Pending, Pending, Store!Throw, Throw, Store!Ok, Ok,
         Store!CaseConcurrency, CaseConcurrency, Store!Reply, Reply,
         Store!NewCase, NewCase, Store!ValidSeverity, ValidSeverity,
         Store!ForbiddenTransition, ForbiddenTransition, Store!Refused, Refused,
         Store!InvalidArgument, InvalidArgument, Store!Mutated, Mutated, Store!Applied, Applied,
         Store!StateChanged, StateChanged

\* Every reply is a reply, and only a success has the outcome Ok.
LEMMA RepliesTyped ==
    /\ Pending \in ReplyType /\ Pending.outcome = "Pending"
    /\ \A e \in {"Unknown"} \cup Refusals : Throw(e) \in ReplyType /\ Throw(e).outcome # "Ok"
    /\ \A c \in Case : Ok(c) \in ReplyType /\ Ok(c).outcome = "Ok" /\ Ok(c).snapshot = c
    /\ \A v \in Nat : CaseConcurrency(v) \in ReplyType /\ CaseConcurrency(v).outcome # "Ok"
  BY DEF ReplyType, Pending, Throw, Ok, CaseConcurrency, Reply, Outcomes, Refusals

\* No message is a message that says nothing.
LEMMA NoMessageTyped == NoMessage \in Messages /\ NoMessage.text = "none"
  <1>1. (CHOOSE number \in Numbers : TRUE) \in Numbers
    BY NumbersAssumption
  <1>2. QED
    BY <1>1 DEF NoMessage, Message, Messages

\* Success messages, one by one.
LEMMA MessagesEarned ==
    SuccessMessageIsTrue <=> Earned(tempData) /\ \A t \in Tabs : Earned(post[t].cookie)
  BY DEF SuccessMessageIsTrue, Earned

\* No page has a form and no call is made at the start.
LEMMA InitIInv == Init => IInv
  <1> SUFFICES ASSUME Init PROVE IInv
    OBVIOUS
  <1>1. \A number \in Numbers : Blank(number) \in
            [form : {"none"}, number : Numbers, shown : {NoRow}, tag : {0}]
    BY DEF Blank, Page
  <1>2. Idle \in [stage : {"idle"}, request : {NoCall}, cookie : {NoMessage}]
    BY DEF Idle, Post
  <1>3. TypeOK
    <2>1. answer \in [Requests -> ReplyType] /\ tempData \in Messages
      BY RepliesTyped, NoMessageTyped DEF Init
    <2>2. page \in [Tabs -> PageType]
      BY <1>1 DEF Init, PageType
    <2>3. post \in [Tabs -> PostType]
      BY <1>2, <2>1 DEF Init, PostType, Stages
    <2>4. QED
      BY <2>1, <2>2, <2>3, InitialRowsAssumption DEF Init, TypeOK
  <1>4. \A t \in Tabs : PageTells(t)
    <2>1. \A t \in Tabs : page[t].form = "none" /\ post[t].stage = "idle"
      BY <1>1, <1>2 DEF Init
    <2>2. QED
      BY <2>1 DEF PageTells
  <1>5. \A r \in Requests : CallTells(r)
    BY RepliesTyped DEF Init, CallTells
  <1>6. TagIsSpentOnce
    BY DEF Init, TagIsSpentOnce
  <1>7. SuccessMessageIsTrue
    <2>1. tempData = NoMessage /\ \A t \in Tabs : post[t].cookie = NoMessage
      BY <1>2 DEF Init
    <2>2. QED
      BY <2>1, NoMessageTyped, MessagesEarned DEF Earned
  <1>8. QED
    BY <1>3, <1>4, <1>5, <1>6, <1>7 DEF IInv

-----------------------------------------------------------------------------
\* What the API does.

Moves(n) ==
    \/ cases'[n] = cases[n]
    \/ cases[n] = NoRow /\ cases'[n] \in Case
    \/ /\ cases[n] \in Case /\ cases'[n] \in Case
       /\ cases'[n].version = cases[n].version + 1

\* A call that was made is a form's.
LEMMA MadeCall ==
    ASSUME TypeOK, NEW r \in Requests, call[r] # NoCall
    PROVE  /\ call[r] \in FormCall /\ call[r].number \in Numbers
           /\ call[r].severity \in Int /\ call[r].expected \in Nat
  BY DEF TypeOK, FormCall

\* A call takes effect: what it writes, and over what.
TakesEffect(r, c) ==
    /\ effect[r] = NoRow
    /\ c \in Case
    /\ cases' = [cases EXCEPT ![call[r].number] = c]
    /\ effect' = [effect EXCEPT ![r] = c]
    /\ UNCHANGED answer
    /\ \/ call[r].kind = "create" /\ cases[call[r].number] = NoRow
       \/ /\ call[r].kind \in Mutations
          /\ cases[call[r].number] \in Case
          /\ cases[call[r].number].version = call[r].expected
          /\ c = Mutated(cases[call[r].number], call[r])
          /\ \/ c = cases[call[r].number]
             \/ c.version = cases[call[r].number].version + 1

\* A call is answered, with its effect if it succeeded.
IsAnswered(r, x) ==
    /\ x \in ReplyType
    /\ x.outcome = "Ok" => effect[r] # NoRow /\ x.snapshot = effect[r]
    /\ answer' = [answer EXCEPT ![r] = x]
    /\ UNCHANGED <<cases, effect>>

LEMMA ServeEffect ==
    ASSUME TypeOK, NEW r \in Requests, Serve(r)
    PROVE  /\ call[r] # NoCall /\ call[r].number \in Numbers
           /\ UNCHANGED <<call, page, post, tempData, seen>>
           /\ \/ \E c : TakesEffect(r, c)
              \/ \E x : IsAnswered(r, x)
  <1>1. call[r] # NoCall /\ UNCHANGED <<call, page, post, tempData, seen>>
    BY DEF Serve, Store!TakeEffect, Store!Succeed, Store!RefuseConflict, Store!RefuseTransition,
           Store!RefuseArgument, Store!RefuseMissing, Store!LoseTrack, Store!Waiting, Store!Replies
  <1>2. /\ call[r].number \in Numbers /\ call[r].severity \in Int
        /\ cases[call[r].number] \in Case \cup {NoRow}
    BY <1>1, MadeCall DEF TypeOK
  <1>3. CASE Store!TakeEffect(r)
    <2>1. effect[r] = NoRow /\ UNCHANGED answer
      BY <1>3 DEF Store!TakeEffect
    <2>2. CASE Store!Create(r)
      <3>1. NewCase(call[r].severity) \in Case
        BY <1>2, <2>2, SharedRules, NewCaseIsCase DEF Store!Create
      <3>2. TakesEffect(r, NewCase(call[r].severity))
        BY <2>1, <2>2, <3>1, SharedRules DEF TakesEffect, Store!Create, Store!Store
      <3>3. QED
        BY <1>1, <1>2, <3>2
    <2>3. CASE Store!Change(r)
      <3>1. /\ cases[call[r].number] \in Case /\ call[r].kind \in Mutations
            /\ ~Refused(cases[call[r].number], call[r])
        BY <1>2, <2>3, SharedRules DEF Store!Change
      <3>2. TakesEffect(r, Mutated(cases[call[r].number], call[r]))
        BY <1>2, <2>1, <2>3, <3>1, SharedRules, MutationOfCase
           DEF TakesEffect, Store!Change, Store!Store
      <3>3. QED
        BY <1>1, <1>2, <3>2
    <2>4. QED
      BY <1>3, <2>2, <2>3 DEF Store!TakeEffect
  <1>4. CASE Store!Succeed(r)
    <2>1. effect[r] \in Case
      BY <1>4 DEF Store!Succeed, TypeOK
    <2>2. IsAnswered(r, Ok(effect[r]))
      BY <1>4, <2>1, SharedRules, RepliesTyped DEF Store!Succeed, Store!Replies, IsAnswered
    <2>3. QED
      BY <1>1, <1>2, <2>2
  <1>5. CASE Store!RefuseConflict(r)
    <2>1. PICK v \in 1..cases[call[r].number].version : Store!Replies(r, CaseConcurrency(v))
      BY <1>5, SharedRules DEF Store!RefuseConflict
    <2>2. cases[call[r].number] \in Case
      BY <1>2, <1>5 DEF Store!RefuseConflict
    <2>3. v \in Nat
      BY <2>2 DEF Case
    <2>4. IsAnswered(r, CaseConcurrency(v))
      BY <2>1, <2>3, RepliesTyped DEF Store!Replies, IsAnswered
    <2>5. QED
      BY <1>1, <1>2, <2>4
  <1>6. CASE \/ Store!RefuseTransition(r) \/ Store!RefuseArgument(r)
             \/ Store!RefuseMissing(r) \/ Store!LoseTrack(r)
    <2>1. \E e \in {"Unknown"} \cup Refusals : Store!Replies(r, Throw(e))
      BY <1>6, SharedRules
         DEF Store!RefuseTransition, Store!RefuseArgument, Store!RefuseMissing, Store!LoseTrack,
             Refusals
    <2>2. \E e \in {"Unknown"} \cup Refusals : IsAnswered(r, Throw(e))
      BY <2>1, RepliesTyped DEF Store!Replies, IsAnswered
    <2>3. QED
      BY <1>1, <1>2, <2>2
  <1>7. QED
    BY <1>3, <1>4, <1>5, <1>6 DEF Serve

\* Another client adds a case or moves one on.
LEMMA OtherClientMoves ==
    ASSUME TypeOK, OtherClient
    PROVE  /\ cases' \in [Numbers -> Case \cup {NoRow}]
           /\ \A n \in Numbers : Moves(n)
  <1>1. PICK c \in Call :
            \/ /\ c.kind = "create"
               /\ ValidSeverity(c.severity)
               /\ cases[c.number] = NoRow
               /\ cases' = [cases EXCEPT ![c.number] = NewCase(c.severity)]
            \/ /\ c.kind \in Mutations
               /\ cases[c.number] # NoRow
               /\ cases[c.number].version = c.expected
               /\ ~Refused(cases[c.number], c)
               /\ cases' = [cases EXCEPT ![c.number] = Mutated(cases[c.number], c)]
    BY DEF OtherClient
  <1>2. c.number \in Numbers /\ c.severity \in Int
    BY CallFields
  <1>3. CASE cases[c.number] = NoRow /\ ValidSeverity(c.severity)
             /\ cases' = [cases EXCEPT ![c.number] = NewCase(c.severity)]
    BY <1>2, <1>3, NewCaseIsCase DEF TypeOK, Moves
  <1>4. CASE /\ c.kind \in Mutations
             /\ cases[c.number] # NoRow
             /\ ~Refused(cases[c.number], c)
             /\ cases' = [cases EXCEPT ![c.number] = Mutated(cases[c.number], c)]
    <2>1. cases[c.number] \in Case
      BY <1>2, <1>4 DEF TypeOK
    <2>2. /\ Mutated(cases[c.number], c) \in Case
          /\ \/ Mutated(cases[c.number], c).version = cases[c.number].version + 1
             \/ Mutated(cases[c.number], c) = cases[c.number]
      BY <1>2, <1>4, <2>1, MutationOfCase
    <2>3. QED
      BY <1>2, <1>4, <2>1, <2>2 DEF TypeOK, Moves
  <1>5. QED
    BY <1>1, <1>3, <1>4

-----------------------------------------------------------------------------
\* Type correctness.

\* Every page, post and message is one.
LEMMA PagesTyped ==
    /\ \A number \in Numbers : Blank(number) \in PageType
    /\ \A number \in Numbers : Page("create", number, NoRow, 0) \in PageType
    /\ \A number \in Numbers, c \in Case, tag \in Nat : Page("details", number, c, tag) \in PageType
  BY DEF Blank, Page, PageType

LEMMA PostsTyped ==
    /\ Idle \in PostType
    /\ \A r \in Requests \cup {NoCall}, m \in Messages :
          Post("posting", r, m) \in PostType /\ Post("reloading", r, m) \in PostType
    /\ \A p \in PostType :
          [p EXCEPT !.stage = "redirecting"] \in PostType /\ [p EXCEPT !.stage = "reloading"] \in PostType
  BY NoMessageTyped DEF Idle, Post, PostType, Stages

\* What a rendered page may be.
LEMMA RenderEffect ==
    ASSUME TypeOK, NEW t \in Tabs, NEW number \in Numbers, NEW tag \in Nat,
           Render(t, number, tag)
    PROVE  /\ tempData' \in {tempData, NoMessage}
           /\ \/ /\ cases[number] \in Case
                 /\ page' = [page EXCEPT ![t] = Page("details", number, cases[number], tag)]
              \/ page' = [page EXCEPT ![t] = Blank(number)]
  BY DEF Render, Shows, TypeOK

\* What a form asks of the API.
LEMMA FormMakesCall ==
    ASSUME TypeOK, NEW t \in Tabs, page[t].form \in {"create", "details"},
           NEW form \in Forms(page[t])
    PROVE  /\ CallOf(page[t], form) \in FormCall
           /\ CallOf(page[t], form).number = page[t].number
           /\ CallOf(page[t], form).expected = page[t].tag
           /\ page[t].form = "create" <=> CallOf(page[t], form).kind = "create"
  <1>1. page[t] \in PageType
    BY DEF TypeOK
  <1>2. /\ form.severity \in Int
        /\ page[t].form = "create" => form.kind = "create"
        /\ page[t].form # "create" => form.kind \in Mutations
    <2>1. CASE page[t].form = "create"
      BY <2>1, SeveritiesAssumption DEF Forms
    <2>2. CASE page[t].form # "create"
      <3>1. form.severity \in {0} \cup Severities
        BY <2>2 DEF Forms
      <3>2. form.severity \in Int
        <4>1. {0} \cup Severities \subseteq Int
          BY SeveritiesAssumption
        <4>2. QED
          BY <3>1, <4>1
      <3>3. form.kind \in {"close", "reopen", "escalate", "severity"}
        <4>1. (IF page[t].shown.isOpen THEN "close" ELSE "reopen") \in {"close", "reopen"}
          OBVIOUS
        <4>2. form.kind \in {IF page[t].shown.isOpen THEN "close" ELSE "reopen", "escalate", "severity"}
          BY <2>2 DEF Forms
        <4>3. QED
          BY <4>1, <4>2
      <3>4. QED
        BY <2>2, <3>2, <3>3 DEF Mutations
    <2>3. QED
      BY <2>1, <2>2
  <1>3. QED
    BY <1>1, <1>2 DEF CallOf, FormCall, PageType, Mutations

LEMMA TypeStep ==
    ASSUME IInv, [Next]_vars
    PROVE  TypeOK'
  <1>0. TypeOK
    BY DEF IInv
  <1>1. CASE UNCHANGED vars
    <2>1. UNCHANGED store /\ UNCHANGED <<page, post, tempData, seen>>
      BY <1>1 DEF vars
    <2>2. QED
      BY <1>0, <2>1 DEF TypeOK, store
  <1>2. ASSUME NEW t \in Tabs, Open(t) \/ FollowRedirect(t) PROVE TypeOK'
    <2>1. PICK number \in Numbers : Get(t, number)
      BY <1>0, <1>2 DEF Open, FollowRedirect, TypeOK, PageType
    <2>2. (IF cases[number] = NoRow THEN 0 ELSE cases[number].version) \in Nat
      BY <1>0 DEF TypeOK, Case
    <2>3. page' \in [Tabs -> PageType] /\ tempData' \in Messages
      BY <1>0, <2>1, <2>2, RenderEffect, PagesTyped, NoMessageTyped DEF TypeOK, Get
    <2>4. post' \in [Tabs -> PostType]
      BY <1>0, <2>1, PostsTyped DEF TypeOK, Get, Waits
    <2>5. QED
      BY <1>0, <2>1, <2>3, <2>4 DEF TypeOK, Get, store
  <1>3. ASSUME NEW t \in Tabs, OpenCreate(t) PROVE TypeOK'
    <2>1. page' \in [Tabs -> PageType] /\ tempData' \in Messages
      BY <1>0, <1>3, PagesTyped, NoMessageTyped DEF TypeOK, OpenCreate, Shows
    <2>2. QED
      BY <1>0, <1>3, <2>1 DEF TypeOK, OpenCreate, store
  <1>4. ASSUME NEW t \in Tabs, Submit(t) PROVE TypeOK'
    <2>0. /\ page[t] \in PageType /\ page[t].number \in Numbers /\ page[t].shown \in Case \cup {NoRow}
          /\ UNCHANGED <<cases, effect, answer>>
      BY <1>0, <1>4 DEF TypeOK, PageType, Submit
    <2>1. CASE /\ Shows(t, Blank(page[t].number)) /\ Waits(t, Idle)
               /\ tempData' = NoMessage /\ UNCHANGED <<call, seen>>
      BY <1>0, <2>0, <2>1, PagesTyped, PostsTyped, NoMessageTyped DEF TypeOK, Shows, Waits
    <2>2. CASE /\ Waits(t, Post("reloading", NoCall, tempData))
               /\ UNCHANGED <<call, page, tempData, seen>>
      BY <1>0, <2>0, <2>2, PostsTyped DEF TypeOK, Waits
    <2>3. ASSUME NEW form \in Forms(page[t]), NEW r \in Requests,
                 call' = [call EXCEPT ![r] = CallOf(page[t], form)],
                 seen' = [seen EXCEPT ![r] = page[t].shown],
                 Waits(t, Post("posting", r, tempData)),
                 UNCHANGED <<page, tempData>>
          PROVE  TypeOK'
      <3>1. call' \in [Requests -> FormCall \cup {NoCall}]
        BY <1>0, <1>4, <2>3, FormMakesCall DEF TypeOK, Submit
      <3>2. seen' \in [Requests -> Case \cup {NoRow}]
        BY <1>0, <2>0, <2>3 DEF TypeOK
      <3>3. post' \in [Tabs -> PostType]
        BY <1>0, <2>3, PostsTyped DEF TypeOK, Waits
      <3>4. QED
        BY <1>0, <2>0, <2>3, <3>1, <3>2, <3>3 DEF TypeOK
    <2>4. QED
      BY <1>4, <2>1, <2>2, <2>3 DEF Submit, Fresh
  <1>5. ASSUME NEW t \in Tabs, Finish(t) PROVE TypeOK'
    <2>1. /\ page[t] \in PageType /\ post[t] \in PostType /\ UNCHANGED <<store, page, seen>>
          /\ post[t].request \in Requests
      BY <1>0, <1>5 DEF TypeOK, Finish, IInv, PageTells
    <2>2. post' \in [Tabs -> PostType]
      BY <1>0, <1>5, <2>1, PostsTyped DEF TypeOK, Finish, Waits
    <2>3. tempData' \in Messages
      <3>1. answer[post[t].request].outcome = "Ok" =>
                answer[post[t].request].snapshot.version \in Nat
        BY <1>0, <2>1 DEF IInv, CallTells, TypeOK, Case
      <3>2. QED
        BY <1>0, <1>5, <2>1, <3>1 DEF Finish, Message, Messages, TypeOK, PageType, PostType
    <2>4. QED
      BY <1>0, <2>1, <2>2, <2>3 DEF TypeOK, store
  <1>6. ASSUME NEW t \in Tabs, TimeOut(t) PROVE TypeOK'
    <2>1. post' \in [Tabs -> PostType]
      BY <1>0, <1>6, PostsTyped DEF TypeOK, TimeOut, Waits
    <2>2. QED
      BY <1>0, <1>6, <2>1 DEF TypeOK, TimeOut, store
  <1>7. ASSUME NEW t \in Tabs, Reload(t) PROVE TypeOK'
    <2>1. page[t].number \in Numbers /\ page[t].tag \in Nat
      BY <1>0 DEF TypeOK, PageType
    <2>2. page' \in [Tabs -> PageType] /\ tempData' \in Messages
      BY <1>0, <1>7, <2>1, RenderEffect, PagesTyped, NoMessageTyped DEF TypeOK, Reload
    <2>3. post' \in [Tabs -> PostType]
      BY <1>0, <1>7, PostsTyped DEF TypeOK, Reload, Waits
    <2>4. QED
      BY <1>0, <1>7, <2>2, <2>3 DEF TypeOK, Reload, store
  <1>8. ASSUME NEW r \in Requests, Serve(r) PROVE TypeOK'
    <2>1. /\ UNCHANGED <<call, page, post, tempData, seen>>
          /\ (\E c : TakesEffect(r, c)) \/ (\E x : IsAnswered(r, x))
      BY <1>0, <1>8, ServeEffect
    <2>2. QED
      BY <1>0, <2>1 DEF TypeOK, TakesEffect, IsAnswered
  <1>9. ASSUME OtherClient PROVE TypeOK'
    BY <1>0, <1>9, OtherClientMoves DEF TypeOK, OtherClient
  <1>10. QED
    BY <1>1, <1>2, <1>3, <1>4, <1>5, <1>6, <1>7, <1>8, <1>9 DEF Next, Handle

-----------------------------------------------------------------------------
\* What a step does to the store, whoever takes it.

\* What has been written stays written, and stays of the call that wrote it.
Lasting ==
    \A r \in Requests :
        effect[r] # NoRow => effect'[r] = effect[r] /\ call'[r] = call[r]

\* No step takes a case away, and a case that changes moves to the next version.
LEMMA StoreMoves ==
    ASSUME IInv, [Next]_vars
    PROVE  Lasting /\ \A n \in Numbers : Moves(n)
  <1>0. TypeOK
    BY DEF IInv
  <1>1. CASE UNCHANGED store
    BY <1>1 DEF store, Lasting, Moves
  <1>2. ASSUME NEW t \in Tabs, Submit(t) PROVE Lasting /\ \A n \in Numbers : Moves(n)
    <2>1. UNCHANGED <<cases, effect>>
      BY <1>2 DEF Submit
    <2>2. UNCHANGED call \/ \E r \in Fresh : \E c : call' = [call EXCEPT ![r] = c]
      BY <1>2 DEF Submit
    <2>3. \A r \in Requests : effect[r] # NoRow => r \notin Fresh
      BY DEF Fresh, IInv, CallTells
    <2>4. QED
      BY <1>0, <2>1, <2>2, <2>3 DEF Lasting, Moves, TypeOK
  <1>3. ASSUME NEW r \in Requests, Serve(r) PROVE Lasting /\ \A n \in Numbers : Moves(n)
    <2>1. /\ UNCHANGED call /\ call[r].number \in Numbers
          /\ (\E c : TakesEffect(r, c)) \/ (\E x : IsAnswered(r, x))
      BY <1>0, <1>3, ServeEffect
    <2>2. QED
      BY <1>0, <2>1 DEF TakesEffect, IsAnswered, Lasting, Moves, TypeOK
  <1>4. CASE OtherClient
    BY <1>0, <1>4, OtherClientMoves DEF OtherClient, Lasting
  <1>5. ASSUME NEW t \in Tabs, Open(t) \/ OpenCreate(t) \/ Handle(t) PROVE UNCHANGED store
    BY <1>5 DEF Open, OpenCreate, Handle, FollowRedirect, Get, Finish, TimeOut, Reload
  <1>6. UNCHANGED vars => UNCHANGED store
    BY DEF vars
  <1>7. QED
    BY <1>1, <1>2, <1>3, <1>4, <1>5, <1>6 DEF Next

\* What precedes a case still precedes it after a step.
LEMMA PrecedesStep ==
    ASSUME IInv, [Next]_vars, NEW n \in Numbers, NEW x \in Case, Precedes(x, cases[n])
    PROVE  Precedes(x, cases'[n])
  <1>1. cases[n] \in Case /\ x.version \in Nat /\ cases[n].version \in Nat
    BY DEF IInv, TypeOK, Precedes, Case
  <1>2. Moves(n)
    BY StoreMoves
  <1>3. QED
    BY <1>1, <1>2, NoRowAssumption DEF Precedes, Moves

-----------------------------------------------------------------------------
\* The pages.

\* A page nobody touches keeps telling the truth about a store that moves on.
LEMMA PageStays ==
    ASSUME IInv, [Next]_vars, NEW t \in Tabs, page'[t] = page[t],
           \A r \in Requests : call[r] # NoCall => call'[r] = call[r],
           \/ post'[t] = post[t]
           \/ post'[t].stage \notin {"posting", "reloading"}
           \/ post'[t].stage = "reloading" /\ page[t].form \in {"create", "details"}
    PROVE  PageTells(t)'
  <1>1. PageTells(t) /\ page[t].number \in Numbers /\ page[t].shown \in Case \cup {NoRow}
    BY DEF IInv, TypeOK, PageType
  <1>2. page[t].form = "details" => Precedes(page[t].shown, cases'[page[t].number])
    BY <1>1, PrecedesStep DEF PageTells
  <1>3. QED
    BY <1>1, <1>2 DEF PageTells

\* A page that was just rendered shows the case as it is.
LEMMA PageRendered ==
    ASSUME TypeOK, NEW t \in Tabs, NEW number \in Numbers, NEW tag \in Nat,
           Render(t, number, tag), Waits(t, Idle), UNCHANGED cases,
           cases[number] # NoRow => tag <= cases[number].version
    PROVE  PageTells(t)'
  <1>1. post'[t].stage = "idle"
    BY DEF Waits, TypeOK, Idle, Post
  <1>2. CASE cases[number] \in Case /\ page' = [page EXCEPT ![t] = Page("details", number, cases[number], tag)]
    <2>1. page'[t] = Page("details", number, cases[number], tag)
      BY <1>2 DEF TypeOK
    <2>2. /\ page'[t].shown = cases[number] /\ page'[t].number = number /\ page'[t].tag = tag
          /\ cases[number] # NoRow /\ cases[number].version \in Nat
      BY <1>2, <2>1, NoRowAssumption DEF Page, Case
    <2>3. QED
      BY <1>1, <2>2 DEF PageTells, Precedes
  <1>3. CASE page' = [page EXCEPT ![t] = Blank(number)]
    <2>1. page'[t].form = "none"
      BY <1>3 DEF TypeOK, Blank, Page
    <2>2. QED
      BY <1>1, <2>1 DEF PageTells
  <1>4. QED
    BY <1>2, <1>3, RenderEffect

LEMMA PagesStep ==
    ASSUME IInv, [Next]_vars
    PROVE  \A u \in Tabs : PageTells(u)'
  <1>0. TypeOK
    BY DEF IInv
  <1>1. CASE UNCHANGED <<page, post, call>>
    BY <1>1, PageStays
  <1>2. ASSUME NEW t \in Tabs, Open(t) \/ FollowRedirect(t), NEW u \in Tabs PROVE PageTells(u)'
    <2>1. PICK number \in Numbers : Get(t, number)
      BY <1>0, <1>2 DEF Open, FollowRedirect, TypeOK, PageType
    <2>2. UNCHANGED <<cases, call>> /\ Waits(t, Idle)
      BY <2>1 DEF Get, store
    <2>3. CASE u = t
      <3>1. (IF cases[number] = NoRow THEN 0 ELSE cases[number].version) \in Nat
        BY <1>0 DEF TypeOK, Case
      <3>2. cases[number] # NoRow =>
                (IF cases[number] = NoRow THEN 0 ELSE cases[number].version) <= cases[number].version
        BY <3>1
      <3>3. QED
        BY <1>0, <2>1, <2>2, <2>3, <3>1, <3>2, PageRendered DEF Get
    <2>4. CASE u # t
      <3>1. page'[u] = page[u] /\ post'[u] = post[u]
        BY <1>0, <2>1, <2>4 DEF Get, Render, Shows, Waits, TypeOK
      <3>2. QED
        BY <2>2, <3>1, PageStays
    <2>5. QED
      BY <2>3, <2>4
  <1>3. ASSUME NEW t \in Tabs, OpenCreate(t), NEW u \in Tabs PROVE PageTells(u)'
    <2>1. /\ UNCHANGED <<cases, call, post>> /\ post[t].stage = "idle"
          /\ \E number \in Numbers : page' = [page EXCEPT ![t] = Page("create", number, NoRow, 0)]
      BY <1>3 DEF OpenCreate, Shows, store
    <2>2. CASE u = t
      <3>1. page'[u].form = "create"
        BY <1>0, <2>1, <2>2 DEF TypeOK, Page
      <3>2. QED
        BY <2>1, <2>2, <3>1 DEF PageTells
    <2>3. CASE u # t
      BY <1>0, <2>1, <2>3, PageStays DEF TypeOK
    <2>4. QED
      BY <2>2, <2>3
  <1>4. ASSUME NEW t \in Tabs, Submit(t), NEW u \in Tabs PROVE PageTells(u)'
    <2>0. page[t].form \in {"create", "details"} /\ UNCHANGED cases
      BY <1>4 DEF Submit
    <2>1. CASE u # t
      <3>1. page'[u] = page[u] /\ post'[u] = post[u]
        BY <1>0, <1>4, <2>1 DEF Submit, Shows, Waits, TypeOK
      <3>2. \A r \in Requests : call[r] # NoCall => call'[r] = call[r]
        BY <1>0, <1>4 DEF Submit, Fresh, TypeOK
      <3>3. QED
        BY <3>1, <3>2, PageStays
    <2>2. CASE u = t /\ Shows(t, Blank(page[t].number)) /\ Waits(t, Idle)
      <3>1. page'[t].form = "none" /\ post'[t].stage = "idle"
        BY <1>0, <2>2 DEF Shows, Waits, TypeOK, Blank, Page, Idle, Post
      <3>2. QED
        BY <2>2, <3>1 DEF PageTells
    <2>3. CASE u = t /\ Waits(t, Post("reloading", NoCall, tempData)) /\ UNCHANGED <<call, page>>
      <3>1. post'[t].stage = "reloading"
        BY <1>0, <2>3 DEF Waits, TypeOK, Post
      <3>2. QED
        BY <2>0, <2>3, <3>1, PageStays
    <2>4. ASSUME u = t, NEW form \in Forms(page[t]), NEW r \in Fresh,
                 call' = [call EXCEPT ![r] = CallOf(page[t], form)],
                 Waits(t, Post("posting", r, tempData)), UNCHANGED page
          PROVE  PageTells(u)'
      <3>1. /\ post'[t].stage = "posting" /\ post'[t].request = r /\ r \in Requests
            /\ call'[r] = CallOf(page[t], form)
        BY <1>0, <2>4 DEF Waits, TypeOK, Post, Fresh
      <3>2. /\ call'[r] # NoCall /\ call'[r].number = page[t].number
            /\ page[t].form = "create" => call'[r].kind = "create"
        BY <1>0, <2>0, <2>4, <3>1, FormMakesCall, NoFormCallAssumption
      <3>3. QED
        BY <2>0, <2>4, <3>1, <3>2 DEF PageTells, IInv
    <2>5. QED
      BY <1>4, <2>1, <2>2, <2>3, <2>4 DEF Submit
  <1>5. ASSUME NEW t \in Tabs, Finish(t) \/ TimeOut(t), NEW u \in Tabs PROVE PageTells(u)'
    <2>1. /\ UNCHANGED <<cases, call, page>> /\ post[t].stage = "posting"
          /\ \E stage \in {"redirecting", "reloading"} :
                post' = [post EXCEPT ![t] = [post[t] EXCEPT !.stage = stage]]
      BY <1>5 DEF Finish, TimeOut, Waits, store
    <2>2. CASE u = t
      <3>1. post'[t].stage \in {"redirecting", "reloading"}
        BY <1>0, <2>1 DEF TypeOK, PostType
      <3>2. page[t].form \in {"create", "details"}
        BY <2>1 DEF IInv, PageTells
      <3>3. QED
        BY <2>1, <2>2, <3>1, <3>2, PageStays
    <2>3. CASE u # t
      BY <1>0, <2>1, <2>3, PageStays DEF TypeOK
    <2>4. QED
      BY <2>2, <2>3
  <1>6. ASSUME NEW t \in Tabs, Reload(t), NEW u \in Tabs PROVE PageTells(u)'
    <2>0. /\ UNCHANGED <<cases, call>> /\ Waits(t, Idle) /\ PageTells(t)
          /\ page[t].number \in Numbers /\ page[t].tag \in Nat /\ page[t].shown \in Case \cup {NoRow}
          /\ page[t].form \in {"create", "details"}
      BY <1>0, <1>6 DEF Reload, store, IInv, TypeOK, PageType, PageTells
    <2>1. CASE u # t
      <3>1. page'[u] = page[u] /\ post'[u] = post[u]
        BY <1>0, <1>6, <2>1 DEF Reload, Render, Shows, Waits, TypeOK
      <3>2. QED
        BY <2>0, <3>1, PageStays
    <2>2. CASE u = t /\ page[t].form = "create"
      <3>1. post'[t].stage = "idle" /\ UNCHANGED page
        BY <1>0, <1>6, <2>0, <2>2 DEF Reload, Waits, TypeOK, Idle, Post
      <3>2. QED
        BY <2>0, <2>2, <3>1, PageStays
    <2>3. CASE u = t /\ page[t].form = "details"
      <3>1. page[t].tag <= cases[page[t].number].version
        <4>1. /\ page[t].shown \in Case /\ cases[page[t].number] \in Case
              /\ page[t].tag <= page[t].shown.version
              /\ page[t].shown.version <= cases[page[t].number].version
          BY <1>0, <2>0, <2>3 DEF PageTells, Precedes, TypeOK
        <4>2. QED
          BY <2>0, <4>1 DEF Case
      <3>2. Render(t, page[t].number, page[t].tag)
        BY <1>6, <2>3 DEF Reload
      <3>3. QED
        BY <1>0, <2>0, <2>3, <3>1, <3>2, PageRendered
    <2>4. QED
      BY <2>0, <2>1, <2>2, <2>3
  <1>7. ASSUME NEW r \in Requests, Serve(r) PROVE UNCHANGED <<page, post, call>>
    BY <1>0, <1>7, ServeEffect
  <1>8. OtherClient => UNCHANGED <<page, post, call>>
    BY DEF OtherClient
  <1>9. UNCHANGED vars => UNCHANGED <<page, post, call>>
    BY DEF vars, store
  <1>10. QED
    BY <1>1, <1>2, <1>3, <1>4, <1>5, <1>6, <1>7, <1>8, <1>9 DEF Next, Handle

-----------------------------------------------------------------------------
\* The calls.

\* A call nobody touches keeps what is known of it while the store moves on.
LEMMA CallStays ==
    ASSUME IInv, [Next]_vars, NEW r \in Requests, call'[r] = call[r], seen'[r] = seen[r],
           effect'[r] = effect[r],
           \/ answer'[r] = answer[r]
           \/ /\ call[r] # NoCall
              /\ answer'[r].outcome = "Ok" => effect[r] # NoRow /\ answer'[r].snapshot = effect[r]
    PROVE  CallTells(r)'
  <1>1. CallTells(r) /\ TypeOK
    BY DEF IInv
  <1>2. CASE call[r] = NoCall
    BY <1>1, <1>2 DEF CallTells
  <1>3. CASE call[r] # NoCall
    <2>1. call[r].number \in Numbers /\ call[r].expected \in Nat
      BY <1>1, <1>3, MadeCall
    <2>2. call[r].kind \in Mutations => seen[r] \in Case /\ Precedes(seen[r], cases[call[r].number])
      BY <1>1, <1>3 DEF CallTells, TypeOK
    <2>3. call[r].kind \in Mutations => Precedes(seen[r], cases'[call[r].number])
      BY <2>1, <2>2, PrecedesStep
    <2>4. /\ call[r].kind \in Mutations
          /\ cases[call[r].number].version > call[r].expected
          => cases'[call[r].number].version > call[r].expected
      <3>1. ASSUME call[r].kind \in Mutations, cases[call[r].number].version > call[r].expected
            PROVE  cases'[call[r].number].version > call[r].expected
        <4>1. cases[call[r].number] \in Case /\ Moves(call[r].number)
          BY <1>1, <2>1, <2>2, <3>1, StoreMoves DEF Precedes, TypeOK
        <4>2. cases[call[r].number].version \in Nat /\ cases[call[r].number] # NoRow
          BY <4>1, NoRowAssumption DEF Case
        <4>3. QED
          BY <2>1, <3>1, <4>1, <4>2 DEF Moves
      <3>2. QED
        BY <3>1
    <2>5. QED
      BY <1>1, <1>3, <2>3, <2>4 DEF CallTells
  <1>4. QED
    BY <1>2, <1>3

\* A call that takes effect does to the case what its user saw done.
LEMMA CallTakesEffect ==
    ASSUME IInv, [Next]_vars, NEW r \in Requests, NEW c, TakesEffect(r, c), call[r] # NoCall,
           UNCHANGED <<call, seen>>
    PROVE  CallTells(r)'
  <1>1. /\ CallTells(r) /\ TypeOK /\ call[r].number \in Numbers /\ call[r].expected \in Nat
    BY MadeCall DEF IInv
  <1>2. /\ effect'[r] = c /\ cases'[call[r].number] = c /\ answer'[r] = answer[r]
        /\ effect[r] = NoRow /\ answer[r].outcome # "Ok" /\ c \in Case
    BY <1>1 DEF TakesEffect, TypeOK, CallTells
  <1>3. CASE call[r].kind = "create"
    BY <1>1, <1>2, <1>3 DEF CallTells, Mutations
  <1>4. CASE call[r].kind \in Mutations
    <2>1. /\ cases[call[r].number] \in Case
          /\ cases[call[r].number].version = call[r].expected
          /\ c = Mutated(cases[call[r].number], call[r])
          /\ \/ c = cases[call[r].number]
             \/ c.version = cases[call[r].number].version + 1
      BY <1>4 DEF TakesEffect, Mutations
    <2>2. /\ seen[r] \in Case /\ Precedes(seen[r], cases[call[r].number])
          /\ call[r].expected <= seen[r].version
      BY <1>1, <1>4 DEF CallTells, TypeOK
    <2>3. seen[r] = cases[call[r].number]
      BY <1>1, <2>1, <2>2 DEF Precedes, Case
    <2>4. Precedes(seen[r], cases'[call[r].number])
      BY <1>1, <2>2, PrecedesStep
    <2>5. IsChange(c, call[r]) => c.version > call[r].expected
      BY <1>1, <2>1 DEF IsChange
    <2>6. QED
      BY <1>1, <1>2, <1>4, <2>1, <2>2, <2>3, <2>4, <2>5 DEF CallTells
  <1>5. QED
    BY <1>3, <1>4 DEF TakesEffect

LEMMA CallsStep ==
    ASSUME IInv, [Next]_vars
    PROVE  \A s \in Requests : CallTells(s)'
  <1>0. TypeOK
    BY DEF IInv
  <1>1. CASE UNCHANGED <<call, effect, answer, seen>>
    BY <1>1, CallStays
  <1>2. ASSUME NEW t \in Tabs, Submit(t), NEW s \in Requests PROVE CallTells(s)'
    <2>0. page[t].form \in {"create", "details"} /\ UNCHANGED <<cases, effect, answer>>
      BY <1>2 DEF Submit
    <2>1. CASE UNCHANGED <<call, seen>>
      BY <2>0, <2>1, <1>1
    <2>2. ASSUME NEW form \in Forms(page[t]), NEW r \in Fresh,
                 call' = [call EXCEPT ![r] = CallOf(page[t], form)],
                 seen' = [seen EXCEPT ![r] = page[t].shown]
          PROVE  CallTells(s)'
      <3>1. CASE s # r
        BY <1>0, <2>0, <2>2, <3>1, CallStays DEF Fresh, TypeOK
      <3>2. CASE s = r
        <4>1. call'[s] = CallOf(page[t], form) /\ seen'[s] = page[t].shown
          BY <1>0, <2>2, <3>2 DEF TypeOK
        <4>2. /\ call'[s] \in FormCall /\ call'[s].number = page[t].number
              /\ call'[s].expected = page[t].tag
              /\ page[t].form = "create" <=> call'[s].kind = "create"
          BY <1>0, <2>0, <4>1, FormMakesCall
        <4>3. call'[s] # NoCall /\ call'[s].kind \in {"create"} \cup Mutations
          BY <4>2, NoFormCallAssumption DEF FormCall
        <4>4. /\ effect[s] = NoRow /\ answer[s].outcome # "Ok" /\ PageTells(t)
          BY <2>2, <3>2, RepliesTyped DEF Fresh, IInv, CallTells
        <4>5. QED
          BY <2>0, <4>1, <4>2, <4>3, <4>4 DEF CallTells, PageTells, Mutations
      <3>3. QED
        BY <3>1, <3>2
    <2>3. QED
      BY <1>2, <2>1, <2>2 DEF Submit
  <1>3. ASSUME NEW r \in Requests, Serve(r), NEW s \in Requests PROVE CallTells(s)'
    <2>1. /\ call[r] # NoCall /\ UNCHANGED <<call, seen>>
          /\ (\E c : TakesEffect(r, c)) \/ (\E x : IsAnswered(r, x))
      BY <1>0, <1>3, ServeEffect
    <2>2. CASE s # r
      <3>1. effect'[s] = effect[s] /\ answer'[s] = answer[s]
        BY <1>0, <2>1, <2>2 DEF TakesEffect, IsAnswered, TypeOK
      <3>2. QED
        BY <2>1, <3>1, CallStays
    <2>3. CASE s = r
      <3>1. ASSUME NEW x, IsAnswered(r, x) PROVE CallTells(r)'
        <4>1. answer'[r] = x /\ UNCHANGED effect
          BY <1>0, <3>1 DEF IsAnswered, TypeOK
        <4>2. QED
          BY <2>1, <3>1, <4>1, CallStays DEF IsAnswered
      <3>2. QED
        BY <2>1, <2>3, <3>1, CallTakesEffect
    <2>4. QED
      BY <2>2, <2>3
  <1>4. ASSUME NEW t \in Tabs, Open(t) \/ OpenCreate(t) \/ Handle(t)
        PROVE UNCHANGED <<call, effect, answer, seen>>
    BY <1>4 DEF Open, OpenCreate, Handle, FollowRedirect, Get, Finish, TimeOut, Reload, store
  <1>5. OtherClient => UNCHANGED <<call, effect, answer, seen>>
    BY DEF OtherClient
  <1>6. UNCHANGED vars => UNCHANGED <<call, effect, answer, seen>>
    BY DEF vars, store
  <1>7. QED
    BY <1>1, <1>2, <1>3, <1>4, <1>5, <1>6 DEF Next

-----------------------------------------------------------------------------
\* The tags and the messages.

\* An effect is new, or was there before.
LEMMA NewEffect ==
    ASSUME IInv, [Next]_vars, NEW r \in Requests, effect'[r] # NoRow
    PROVE  /\ call'[r] = call[r]
           /\ \/ effect'[r] = effect[r]
              \/ /\ \E c : TakesEffect(r, c)
                 /\ call[r] # NoCall
                 /\ \A s \in Requests \ {r} : effect'[s] = effect[s]
  <1>0. TypeOK
    BY DEF IInv
  <1>1. CASE effect[r] # NoRow
    BY <1>1, StoreMoves DEF Lasting
  <1>2. CASE effect[r] = NoRow
    <2>1. ASSUME NEW q \in Requests, Serve(q)
          PROVE  q = r /\ (\E c : TakesEffect(r, c)) /\ UNCHANGED call /\ call[r] # NoCall
      BY <1>0, <1>2, <2>1, ServeEffect DEF TakesEffect, IsAnswered, TypeOK
    <2>2. ASSUME NEW t \in Tabs, Open(t) \/ OpenCreate(t) \/ Submit(t) \/ Handle(t)
          PROVE UNCHANGED effect
      BY <2>2 DEF Open, OpenCreate, Submit, Handle, FollowRedirect, Get, Finish, TimeOut, Reload, store
    <2>3. OtherClient \/ UNCHANGED vars => UNCHANGED effect
      BY DEF OtherClient, vars, store
    <2>4. \E q \in Requests : Serve(q)
      BY <1>2, <2>2, <2>3 DEF Next
    <2>5. QED
      BY <1>0, <2>1, <2>4 DEF TakesEffect, TypeOK
  <1>3. QED
    BY <1>1, <1>2

LEMMA TagStep ==
    ASSUME IInv, [Next]_vars
    PROVE  TagIsSpentOnce'
  <1> SUFFICES ASSUME NEW r \in Requests, NEW s \in Requests, r # s,
                      call'[r].number = call'[s].number,
                      call'[r].kind \in Mutations, call'[s].kind \in Mutations,
                      call'[r].expected = call'[s].expected,
                      IsChange(effect'[r], call'[r]), IsChange(effect'[s], call'[s])
               PROVE  FALSE
    BY DEF TagIsSpentOnce, IsChange
  <1>1. /\ effect'[r] # NoRow /\ effect'[s] # NoRow
        /\ call'[r] = call[r] /\ call'[s] = call[s]
    BY NewEffect DEF IsChange
  <1>2. ASSUME NEW p \in Requests, NEW q \in Requests, p # q, call[p].number = call[q].number,
               call[p].kind \in Mutations, call[q].kind \in Mutations,
               call[p].expected = call[q].expected,
               IsChange(effect[p], call[p]), NEW c, TakesEffect(q, c), call[q] # NoCall
        PROVE  FALSE
    <2>1. cases[call[p].number].version > call[p].expected
      BY <1>2 DEF IInv, CallTells, IsChange
    <2>2. cases[call[q].number].version = call[q].expected /\ call[q].expected \in Nat
      BY <1>2, MadeCall DEF IInv, TakesEffect, Mutations
    <2>3. QED
      BY <1>2, <2>1, <2>2
  <1>3. CASE effect'[r] = effect[r] /\ effect'[s] = effect[s]
    <2>1. call[r] # NoCall /\ call[s] # NoCall
      BY <1>1, <1>3 DEF IInv, CallTells
    <2>2. QED
      BY <1>1, <1>3, <2>1 DEF IInv, TagIsSpentOnce
  <1>4. CASE effect'[r] = effect[r] /\ effect'[s] # effect[s]
    BY <1>1, <1>2, <1>4, NewEffect
  <1>5. CASE effect'[s] = effect[s] /\ effect'[r] # effect[r]
    BY <1>1, <1>2, <1>5, NewEffect
  <1>6. QED
    BY <1>1, <1>3, <1>4, <1>5, NewEffect

\* A message that was earned stays earned.
LEMMA EarnedStays ==
    ASSUME IInv, [Next]_vars, NEW m, Earned(m)
    PROVE  Earned(m)'
  BY StoreMoves DEF Earned, Lasting

\* What Finish announces has been done.
LEMMA FinishEarns ==
    ASSUME IInv, NEW t \in Tabs, Finish(t)
    PROVE  Earned(tempData') \/ tempData' \in {tempData, post[t].cookie}
  <1> DEFINE r == post[t].request
  <1>1. /\ r \in Requests /\ call[r] # NoCall /\ call[r].number = page[t].number
        /\ page[t].form = "create" => call[r].kind = "create"
        /\ CallTells(r)
    BY DEF Finish, IInv, PageTells
  <1>2. CASE answer[r].outcome = "Ok"
    <2>1. effect[r] # NoRow /\ answer[r].snapshot = effect[r]
      BY <1>1, <1>2 DEF CallTells
    <2>2. tempData' = IF page[t].form = "create"
                      THEN Message("created", page[t].number, 0)
                      ELSE Message("updated", page[t].number, answer[r].snapshot.version)
      BY <1>2 DEF Finish
    <2>3. QED
      BY <1>1, <2>1, <2>2 DEF Earned, Message
  <1>3. CASE answer[r].outcome # "Ok"
    BY <1>3 DEF Finish
  <1>4. QED
    BY <1>2, <1>3

LEMMA MessageStep ==
    ASSUME IInv, [Next]_vars
    PROVE  SuccessMessageIsTrue'
  <1>0. TypeOK /\ Earned(tempData) /\ \A t \in Tabs : Earned(post[t].cookie)
    BY MessagesEarned DEF IInv
  <1>1. Earned(NoMessage)
    BY NoMessageTyped DEF Earned
  <1>2. Earned(tempData')
    <2>1. ASSUME NEW t \in Tabs, Finish(t) PROVE Earned(tempData')
      BY <1>0, <2>1, FinishEarns
    <2>2. ASSUME NEW t \in Tabs, Open(t) \/ OpenCreate(t) \/ Submit(t) \/ FollowRedirect(t)
                    \/ TimeOut(t) \/ Reload(t)
          PROVE tempData' \in {tempData, NoMessage}
      BY <2>2 DEF Open, OpenCreate, Submit, FollowRedirect, Get, Render, TimeOut, Reload
    <2>3. ASSUME NEW r \in Requests, Serve(r) PROVE UNCHANGED tempData
      BY <1>0, <2>3, ServeEffect
    <2>4. OtherClient \/ UNCHANGED vars => UNCHANGED tempData
      BY DEF OtherClient, vars
    <2>5. QED
      BY <1>0, <1>1, <2>1, <2>2, <2>3, <2>4 DEF Next, Handle
  <1>3. ASSUME NEW u \in Tabs PROVE Earned(post'[u].cookie)
    <2>1. UNCHANGED post \/ \E t \in Tabs : Open(t) \/ Submit(t) \/ Handle(t)
      <3>1. ASSUME NEW r \in Requests, Serve(r) PROVE UNCHANGED post
        BY <1>0, <3>1, ServeEffect
      <3>2. QED
        BY <3>1 DEF Next, OpenCreate, OtherClient, vars
    <2>2. ASSUME NEW t \in Tabs, Open(t) \/ Submit(t) \/ Handle(t)
          PROVE  post'[u].cookie \in {post[u].cookie, tempData, NoMessage}
      <3>1. \E p : /\ post' = [post EXCEPT ![t] = p]
                   /\ p.cookie \in {post[t].cookie, tempData, NoMessage}
        <4>1. CASE Open(t) \/ FollowRedirect(t) \/ Reload(t)
          BY <4>1 DEF Open, FollowRedirect, Reload, Get, Waits, Idle, Post
        <4>2. CASE Submit(t)
          BY <4>2 DEF Submit, Waits, Idle, Post
        <4>3. CASE Finish(t) \/ TimeOut(t)
          <5>1. \A stage : [post[t] EXCEPT !.stage = stage].cookie = post[t].cookie
            BY <1>0 DEF TypeOK, PostType
          <5>2. QED
            BY <4>3, <5>1 DEF Finish, TimeOut, Waits
        <4>4. QED
          BY <2>2, <4>1, <4>2, <4>3 DEF Handle
      <3>2. QED
        BY <1>0, <3>1 DEF TypeOK
    <2>3. QED
      BY <1>0, <1>1, <2>1, <2>2
  <1>4. QED
    <2>1. \A m : Earned(m) => Earned(m)'
      BY EarnedStays
    <2>2. QED
      BY <1>2, <1>3, <2>1 DEF SuccessMessageIsTrue, Earned

-----------------------------------------------------------------------------
LEMMA StepIInv == IInv /\ [Next]_vars => IInv'
  BY TypeStep, PagesStep, CallsStep, TagStep, MessageStep DEF IInv

LEMMA Invariance == Spec => []IInv
  BY InitIInv, StepIInv, PTL DEF Spec

\* Pages, calls and messages are what they are meant to be.
THEOREM TypeCorrect == Spec => []TypeOK
  BY Invariance, PTL DEF IInv

\* Whatever is submitted twice, given up or answered late, a form's change is
\* made to the case exactly as its page showed it (the hidden field of
\* Details.cshtml and the If-Match that CasePriorityApiClient sends).
THEOREM ChangesAreInformed == Spec => []InformedChange
  <1>1. IInv => InformedChange
    <2>1. ASSUME IInv, NEW r \in Requests, effect[r] # NoRow, call[r].kind \in Mutations
          PROVE  seen[r] # NoRow /\ effect[r] = Mutated(seen[r], call[r])
      BY <2>1 DEF IInv, CallTells
    <2>2. QED
      BY <2>1 DEF InformedChange
  <1>2. QED
    BY <1>1, Invariance, PTL

\* A tag changes a case at most once, however often its form is submitted.
THEOREM TagsAreSpentOnce == Spec => []TagIsSpentOnce
  BY Invariance, PTL DEF IInv

\* A success message that any tab is going to show tells of a change that a
\* form of this browser has made.
THEOREM MessagesAreTrue == Spec => []SuccessMessageIsTrue
  BY Invariance, PTL DEF IInv
=============================================================================
