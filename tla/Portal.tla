-------------------------------- MODULE Portal --------------------------------
(***************************************************************************)
(* The Razor Pages portal between a user and the API: the pages in the tabs *)
(* of one browser, the entity tag that travels through a hidden field of    *)
(* their forms, the calls the server makes for a POST, and the success      *)
(* message it leaves in TempData, a cookie, for the next page.              *)
(*                                                                          *)
(* The API is any that keeps the promise of VersionedCases.  A call the     *)
(* portal gave up after ten seconds stays in the API's hands; other clients *)
(* call the API too.  A GET of the portal reads the API once and changes    *)
(* nothing there, so it is one step.                                        *)
(*                                                                          *)
(* A tag is the version it names.  The session can expire, be left or be    *)
(* another role's whenever it is looked at, so it is not a variable.  The   *)
(* pages that only show text, and the sign-in page, are the page Blank.     *)
(***************************************************************************)
EXTENDS CaseCalls

CONSTANTS
    InitialRows,  \* cases that may be stored at the start
    Tabs          \* tabs of one browser: they share its session and its TempData

ASSUME InitialRowsAssumption == InitialRows \subseteq Case
ASSUME NumbersAssumption == Numbers # {}

\* The calls the portal makes, whatever is in the hidden field.
FormCall == [kind : {"create"} \cup Mutations, number : Numbers, severity : Int, expected : Nat]

ASSUME NoFormCallAssumption == NoCall \notin FormCall

VARIABLES
    cases, call, effect, answer,  \* the API's store, see VersionedCases
    page,      \* tab -> the page it shows
    post,      \* tab -> how far the POST it has sent is
    tempData,  \* the success message in the browser's cookie
    seen       \* request -> (history) the case the page showed when the user asked for it

store == <<cases, call, effect, answer>>
vars == <<store, page, post, tempData, seen>>

Store == INSTANCE VersionedCases

-----------------------------------------------------------------------------
Message(text, number, version) == [text |-> text, number |-> number, version |-> version]
NoMessage == Message("none", CHOOSE number \in Numbers : TRUE, 0)

\* A page: the case it shows and the tag in its forms' hidden field.
Page(form, number, shown, tag) ==
    [form |-> form, number |-> number, shown |-> shown, tag |-> tag]

Blank(number) == Page("none", number, NoRow, 0)

Stages == {"idle", "posting", "reloading", "redirecting"}

\* The POST of a tab: the call made of the API for it, and the cookie that came with it.
Post(stage, request, cookie) == [stage |-> stage, request |-> request, cookie |-> cookie]

Idle == Post("idle", NoCall, NoMessage)

Init ==
    /\ cases \in [Numbers -> InitialRows \cup {NoRow}]
    /\ call = [r \in Requests |-> NoCall]
    /\ effect = [r \in Requests |-> NoRow]
    /\ answer = [r \in Requests |-> Pending]
    /\ page \in [Tabs -> {Blank(number) : number \in Numbers}]
    /\ post = [t \in Tabs |-> Idle]
    /\ tempData = NoMessage
    /\ seen = [r \in Requests |-> NoRow]

Shows(t, newPage) == page' = [page EXCEPT ![t] = newPage]

Waits(t, newPost) == post' = [post EXCEPT ![t] = newPost]

-----------------------------------------------------------------------------
(***************************************************************************)
(* The details page.  With a case it has forms, and their hidden field is   *)
(* "tag"; without one (the API fails, is not reached or refuses the token,  *)
(* or the user must sign in first) it has text only; a number that is not   *)
(* stored is a bare 404.  The layout of every page but that one reads       *)
(* TempData, and what is read is not sent back: the cookie goes.            *)
(***************************************************************************)
Render(t, number, tag) ==
    \/ /\ cases[number] # NoRow
       /\ Shows(t, Page("details", number, cases[number], tag))
       /\ tempData' = NoMessage
    \/ /\ cases[number] = NoRow
       /\ Shows(t, Blank(number))
       /\ UNCHANGED tempData
    \/ /\ Shows(t, Blank(number))
       /\ tempData' = NoMessage

\* OnGet: the tag is the one the API has just returned.
Get(t, number) ==
    /\ Render(t, number, IF cases[number] = NoRow THEN 0 ELSE cases[number].version)
    /\ Waits(t, Idle)
    /\ UNCHANGED <<store, seen>>

\* A click on a link, or the redirect after a POST.
Open(t) == post[t].stage = "idle" /\ \E number \in Numbers : Get(t, number)

FollowRedirect(t) == post[t].stage = "redirecting" /\ Get(t, page[t].number)

OpenCreate(t) ==
    /\ post[t].stage = "idle"
    /\ \E number \in Numbers : Shows(t, Page("create", number, NoRow, 0))
    /\ tempData' = NoMessage
    /\ UNCHANGED <<store, post, seen>>

-----------------------------------------------------------------------------
Fresh == {r \in Requests : call[r] = NoCall}

\* The forms on a page.
Forms(p) ==
    IF p.form = "create"
    THEN [kind : {"create"}, severity : Severities]
    ELSE [kind : {IF p.shown.isOpen THEN "close" ELSE "reopen", "escalate"}, severity : {0}]
            \cup [kind : {"severity"}, severity : Severities]

\* The call a form makes: the tag it carries is the version the caller expects.
CallOf(p, form) ==
    [kind |-> form.kind, number |-> p.number, severity |-> form.severity, expected |-> p.tag]

(***************************************************************************)
(* The user submits a form, once more perhaps while the POST before is not  *)
(* answered: the browser forgets that one, the API may not.  ModelState     *)
(* rejects a severity out of range and the role is checked before the API   *)
(* is called, which may not be reached or may refuse the token.             *)
(***************************************************************************)
Submit(t) ==
    /\ page[t].form \in {"create", "details"}
    /\ post[t].stage \in {"idle", "posting"}
    /\ \/ /\ Shows(t, Blank(page[t].number))
          /\ Waits(t, Idle)
          /\ tempData' = NoMessage
          /\ UNCHANGED <<call, seen>>
       \/ /\ Waits(t, Post("reloading", NoCall, tempData))
          /\ UNCHANGED <<call, page, tempData, seen>>
       \/ \E form \in Forms(page[t]), r \in Fresh :
             /\ form.kind \in {"create", "severity"} => ValidSeverity(form.severity)
             /\ call' = [call EXCEPT ![r] = CallOf(page[t], form)]
             /\ seen' = [seen EXCEPT ![r] = page[t].shown]
             /\ Waits(t, Post("posting", r, tempData))
             /\ UNCHANGED <<page, tempData>>
    /\ UNCHANGED <<cases, effect, answer>>

\* Mutant: a success is announced without a look at the answer.
FinishBlindly(t) ==
    /\ post[t].stage = "posting"
    /\ answer[post[t].request] # Pending
    /\ tempData' = Message("updated", page[t].number, page[t].tag + 1)
    /\ Waits(t, [post[t] EXCEPT !.stage = "redirecting"])
    /\ UNCHANGED <<store, page, seen>>

\* Mutant: a stale tag is replaced by the current one and the page is kept.
FinishRefreshingTag(t) ==
    LET r == post[t].request
    IN  /\ post[t].stage = "posting"
        /\ answer[r] # Pending
        /\ IF answer[r].outcome = "CaseConcurrency"
           THEN /\ page' = [page EXCEPT ![t].tag = answer[r].actual]
                /\ Waits(t, Idle)
           ELSE /\ Waits(t, [post[t] EXCEPT !.stage = "reloading"])
                /\ UNCHANGED page
        /\ UNCHANGED <<store, tempData, seen>>

(***************************************************************************)
(* The API has answered.  A success and a 412 leave a message and redirect, *)
(* the 412 without trying again; any other status stays on the page.  A     *)
(* redirect sends TempData back as it came with the POST and a message more *)
(* (the 412's has a key of its own), whatever other tabs did to the cookie. *)
(***************************************************************************)
Finish(t) ==
    LET r == post[t].request
        outcome == answer[r].outcome
    IN  /\ post[t].stage = "posting"
        /\ answer[r] # Pending
        /\ \/ /\ outcome = "Ok"
              /\ tempData' = IF page[t].form = "create"
                             THEN Message("created", page[t].number, 0)
                             ELSE Message("updated", page[t].number, answer[r].snapshot.version)
              /\ Waits(t, [post[t] EXCEPT !.stage = "redirecting"])
           \/ /\ outcome = "CaseConcurrency"
              /\ tempData' = post[t].cookie
              /\ Waits(t, [post[t] EXCEPT !.stage = "redirecting"])
           \/ /\ outcome \notin {"Ok", "CaseConcurrency"}
              /\ Waits(t, [post[t] EXCEPT !.stage = "reloading"])
              /\ UNCHANGED tempData
        /\ UNCHANGED <<store, page, seen>>

\* The client's timeout, or a connection that breaks.
TimeOut(t) ==
    /\ post[t].stage = "posting"
    /\ Waits(t, [post[t] EXCEPT !.stage = "reloading"])
    /\ UNCHANGED <<store, page, tempData, seen>>

(***************************************************************************)
(* LoadAsync in a POST: the page shows the case as it is now.  Its hidden   *)
(* field keeps the tag that was posted, because tag helpers take a field's  *)
(* value from ModelState first.  The create form is shown again as it was.  *)
(***************************************************************************)
Reload(t) ==
    /\ post[t].stage = "reloading"
    /\ IF page[t].form = "create"
       THEN tempData' = NoMessage /\ UNCHANGED page
       ELSE Render(t, page[t].number, page[t].tag)
    /\ Waits(t, Idle)
    /\ UNCHANGED <<store, seen>>

-----------------------------------------------------------------------------
\* The API works on the calls it has, given up or not.
Serve(r) ==
    /\ \/ Store!TakeEffect(r)
       \/ Store!Succeed(r)
       \/ Store!RefuseConflict(r)
       \/ Store!RefuseTransition(r)
       \/ Store!RefuseArgument(r)
       \/ Store!RefuseMissing(r)
       \/ Store!LoseTrack(r)
    /\ UNCHANGED <<page, post, tempData, seen>>

(***************************************************************************)
(* What another client's call does to a case: by the store's promise it     *)
(* does it at one instant, and no page hears of the reply.  The versions of *)
(* the calls, the constant Versions, bound how often.                       *)
(***************************************************************************)
OtherClient ==
    /\ \E c \in Call :
          LET stored == cases[c.number]
          IN  \/ /\ c.kind = "create"
                 /\ ValidSeverity(c.severity)
                 /\ stored = NoRow
                 /\ cases' = [cases EXCEPT ![c.number] = NewCase(c.severity)]
              \/ /\ c.kind \in Mutations
                 /\ stored # NoRow
                 /\ stored.version = c.expected
                 /\ ~Refused(stored, c)
                 /\ cases' = [cases EXCEPT ![c.number] = Mutated(stored, c)]
    /\ UNCHANGED <<call, effect, answer, page, post, tempData, seen>>

Handle(t) == FollowRedirect(t) \/ Finish(t) \/ TimeOut(t) \/ Reload(t)

Next ==
    \/ \E t \in Tabs : Open(t) \/ OpenCreate(t) \/ Submit(t) \/ Handle(t)
    \/ \E r \in Requests : Serve(r)
    \/ OtherClient

Spec == Init /\ [][Next]_vars

-----------------------------------------------------------------------------
Messages == [text : {"none", "created", "updated"}, number : Numbers, version : Nat]

ReplyType == [outcome : Outcomes, snapshot : Case \cup {NoRow}, actual : Nat]

PageType ==
    [form : {"none", "details", "create"}, number : Numbers, shown : Case \cup {NoRow}, tag : Nat]

PostType == [stage : Stages, request : Requests \cup {NoCall}, cookie : Messages]

TypeOK ==
    /\ cases \in [Numbers -> Case \cup {NoRow}]
    /\ call \in [Requests -> FormCall \cup {NoCall}]
    /\ effect \in [Requests -> Case \cup {NoRow}]
    /\ answer \in [Requests -> ReplyType]
    /\ page \in [Tabs -> PageType]
    /\ post \in [Tabs -> PostType]
    /\ tempData \in Messages
    /\ seen \in [Requests -> Case \cup {NoRow}]

(***************************************************************************)
(* A user changes the case that is on the page, and no other: whatever is   *)
(* clicked twice, times out, arrives late or was refused before, a change   *)
(* that a form makes is made to the case exactly as the page showed it.     *)
(***************************************************************************)
InformedChange ==
    \A r \in Requests :
        effect[r] # NoRow /\ call[r].kind \in Mutations
            => seen[r] # NoRow /\ effect[r] = Mutated(seen[r], call[r])

\* A form that is submitted again with the same tag, because the answer was slow or was
\* an error, does not change the case again.
TagIsSpentOnce ==
    \A r, s \in Requests :
        /\ r # s
        /\ call[r] # NoCall /\ call[s] # NoCall
        /\ call[r].number = call[s].number
        /\ call[r].kind \in Mutations /\ call[s].kind \in Mutations
        /\ call[r].expected = call[s].expected
        => ~(IsChange(effect[r], call[r]) /\ IsChange(effect[s], call[s]))

(***************************************************************************)
(* A success message, in whatever tab it will be shown and however its      *)
(* cookie was carried there, is about a change that a form of this browser  *)
(* made: the case was created, or was left at the version it names.         *)
(***************************************************************************)
SuccessMessageIsTrue ==
    \A message \in {tempData} \cup {post[t].cookie : t \in Tabs} :
        message.text # "none" =>
            \E r \in Requests :
                /\ effect[r] # NoRow
                /\ call[r].number = message.number
                /\ message.text = "created" => call[r].kind = "create"
                /\ message.text = "updated" => effect[r].version = message.version

\* "The exact ETag last returned by the API, round-tripped through the form"
\* (Details.cshtml.cs:17): the form's tag is that of the case on the page.
FormCarriesLastTag ==
    \A t \in Tabs : page[t].form = "details" => page[t].tag = page[t].shown.version
=============================================================================
