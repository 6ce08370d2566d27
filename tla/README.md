# CasePriority: a TLA+ verification project

CasePriority is a support-case service: a domain class (`SupportCase`), a
service (`CaseService`) over one of two case stores (SQL Server through EF Core,
or an in-memory dictionary), a JSON API with optimistic concurrency by
ETag / If-Match, and a Razor Pages portal that calls the API. What is hard in it is
not any rule but the promise that spans all of them: *a caller who names the
version it has seen changes exactly that version, and what it is told is what
happened*, while requests interleave at every database command, the connection
retries commands it cannot know the fate of, and callers go away.

This directory states that promise (`VersionedCases`), models the two stores that
have to keep it and the two programs that rely on it (the API and the portal), checks
them with TLC, and proves with TLAPS that both stores keep the promise, that the portal
and the API pass it on, and that the tags in between name one version each.

All paths below are relative to the repository's root.

## 1. Inventory

| Component | State | Operations | Talks to |
|---|---|---|---|
| Case rules, `CasePriority.Core/Domain/SupportCase.cs` | severity, open, escalated, version, lock | constructor, close, reopen, escalate, change severity, snapshot | - |
| Case service, `CasePriority.Core/Services/CaseService.cs` | none of its own | create, get, list, list open by severity, four mutations; log after commit | repository + unit of work (await) |
| SQL store, `CasePriority.Infrastructure/Repositories/EfCaseRepository.cs` | a `DbContext` per request with tracked entities; the `SupportCases` table | load, add, save (INSERT/UPDATE guarded by Version), translation of conflicts | SQL Server over a retrying connection |
| In-memory store, `CasePriority.Core/Repositories/InMemoryCaseRepository.cs` | a concurrent dictionary of shared objects | load, list, add, save (no-op) | the shared `SupportCase` objects |
| HTTP endpoints, `CasePriority.Api/Controllers`, `ErrorHandling`, `Contracts` | per request | 7 endpoints, exception -> status | case service |
| ETag codec, `CasePriority.Api/Http/EntityTagVersion.cs` | none | format, parse | endpoints |
| Authentication and authorization, `CasePriority.Api/Program.cs`, `Security` | JWT claims | role policies, 401/403 bodies | pipeline |
| Correlation ids, `CasePriority.Api/Middleware` | trace identifier | accept or generate, echo | pipeline, portal |
| Health checks | none | live, ready (5 s timeout) | SQL Server |
| Portal, `CasePriority.Web/Pages/Cases`, `Api` | the page in the browser, its hidden `EntityTag`, TempData | list, details, create, four mutations | API over HTTP, 10 s timeout |
| Portal sign-in, `CasePriority.Web/Pages/Account`, token provider | cookie session, role | sign in, sign out, role -> token | portal |
| Case filter, `CasePriority.Web/wwwroot/js/site.js` | hidden rows of the list page | page ready, input | the list page in the browser |
| Console, `CasePriorityApp/Program.cs` | in-memory store | a fixed script | case service |
| Migrations, OpenAPI transformers, views, wwwroot | - | - | - |

### What is hard, and what must hold

* **Interleaving** (`EfCaseRepository.cs:59`). Two requests load version v and both
  write. EF sends only the modified columns, so a late write can also *mix* two
  updates. Must hold: no two calls make the same version; while a row has the loaded
  version it is the loaded row.
* **Stale no-ops** (`EfCaseRepository.cs:82`). A mutation that changes nothing on a
  stale copy would send no statement at all. Must hold: a success is always a write
  that was applied.
* **Retries of unknown commands** (`CasePriority.Api/Program.cs:120`). A committed
  UPDATE whose acknowledgement is lost is sent again. Must hold: it changes nothing a
  second time. Does *not* hold: that its caller learns what happened (section 4).
* **Statements that outlive their client**. A statement may be executed after its
  connection broke, even after its request was answered.
* **Partial failure** (`CaseService.cs:91`). Cancelled or killed between commit and
  answer: the change is made and nobody is told. Must hold: neither the answer nor the log
  ever claims what was not committed, and a success that is reported is logged.
* **Conflict reports** (`EfCaseRepository.cs:112`) are read after the fact.
* **Shared objects** (`SupportCase.cs:147`). Over the in-memory store the fields are
  written one by one on an object all threads see; only the lock makes that atomic.
* **Listings** (`InMemoryCaseRepository.cs:35`) over shared objects are a list of objects
  taken at once and snapshots taken later. Must hold: every row is its case at one moment
  of the listing, none is missing or twice, the order is the promised one.
* **The order of checks** (`CasesController.cs:93`) decides which status a request with
  several faults gets. Must hold: a 400, 401, 403, 404 or 428 changed nothing; a change is
  the one somebody asked for who may ask and who named the version changed.
* **Exceptions of others** (`ApiExceptionHandler.cs:47`): every `InvalidOperationException`
  is a 409, the database driver's too. Does *not* hold: that a 409 is about the case
  (section 4).
* **Tags** (`EntityTagVersion.cs:40`, `CasesController.cs:162`): parsed at the 64-bit
  bounds, and taken from the snapshot in the body. Must hold: one tag, one representation.
* **The portal's form** (`Details.cshtml:36`): double clicks, a page rendered again after
  an error, a 10 s timeout while the API still works (`CasePriority.Web/Program.cs:54`), a
  message cookie shared by tabs. Must hold: a user changes the case the page showed, once,
  and success messages are true.
* **The filter's events** (`site.js:3`): typing before the script is ready, text the
  browser restores without an event. Must hold: no row that matches is lost.

`PROJECT.json` lists every hazard at its line.

## 2. The modules

| Module | Models | EXTENDS / INSTANCE |
|---|---|---|
| `SupportCase` | the rules about one case, as operators | Integers |
| `CaseCalls` | the calls of `CaseService`, their replies, the level they log at | `SupportCase` |
| `VersionedCases` | **abstract**: what a case store promises | `CaseCalls` |
| `SqlCaseService` | `CaseService` over EF Core over SQL Server | `CaseCalls`; INSTANCE `VersionedCases` |
| `InMemoryCaseService` | `CaseService` over the shared dictionary | `CaseCalls`; INSTANCE `VersionedCases` |
| `CaseListing` | the two listings over the shared dictionary | `InMemoryCaseService` |
| `EntityTagVersion` | the ETag / If-Match codec, as operators | Integers, SequencesExt |
| `IfMatch` | one PATCH whose header is parsed | `EntityTagVersion` |
| `HttpApi` | the API's pipeline, endpoints and error mapping | `CaseCalls`, `EntityTagVersion`; INSTANCE `VersionedCases` |
| `Portal` | the Razor Pages portal and its user | `CaseCalls`; INSTANCE `VersionedCases` |
| `CaseFilter` | the list page's script | Sequences |
| `MC...` | instances for TLC | the module they check |
| `CaseCallsProofs` | facts about the rules and the calls | `CaseCalls`, TLAPS |
| `SqlCaseServiceProofs` | the invariants of `SqlCaseService` and its refinement of `VersionedCases`, proved | `SqlCaseService`, `CaseCallsProofs` |
| `InMemoryCaseProofs` | the same of `InMemoryCaseService`, and the invariants of the listings beside it, proved | `CaseListing`, `CaseCallsProofs` |
| `EntityTagProofs` | what the codec computes, for every version and header | `EntityTagVersion`, TLAPS |
| `IfMatchProofs` | the invariants of `IfMatch`, proved | `IfMatch`, `EntityTagProofs` |
| `HttpApiProofs` | the invariants of `HttpApi` and its refinement of `VersionedCases`, proved | `HttpApi`, `CaseCallsProofs`, `EntityTagProofs` |
| `PortalProofs`, `CaseFilterProofs` | the invariants of these modules, proved | the module they prove about |

The modules compose through `VersionedCases`. Each store implements it (the in-memory one
but for finding 2); `HttpApi` and
`Portal` take its actions as their store's, so what they show holds over SQL Server, and
over any other store that keeps the promise, without either store's steps being
multiplied by theirs.

Operators whose comment begins with "Mutant" are plausible bugs of the operator that
follows them. No specification uses them: each property is checked to fail when the
operator is replaced by its mutant.

### VersionedCases

State: the stored cases, each request's call, the case as its write left it
(`effect`), its answer. A write takes effect once, at one instant, against the named
version only (`TakeEffect`); success returns exactly that effect (`Succeed`); a
refusal is final and gives a true reason. A case is missing only if none is stored
(`RefuseMissing`), an argument is refused only if it is invalid (`RefuseArgument`), a
transition only if the expected version forbids it (`RefuseTransition`), and a conflict
names a version the case has had and was not sent (`RefuseConflict`). An unknown outcome
leaves the write possible. A refusal is *not* always promised to have had no effect (see
section 4), but only two may follow the call's own: a create's duplicate, and a conflict at a
version that has it.

### SqlCaseService

| Variable | In the code |
|---|---|
| `db` | the `SupportCases` table: number -> row |
| `pc`, `call` | where a `CaseService` method is, and its arguments |
| `tracked` | the request's own `DbContext`: the entry's original and current values |
| `attempts` | failed attempts of the current command in the execution strategy |
| `orphans` | copies of the statement the server may still execute though the client lost them |
| `reply`, `log` | the returned snapshot or exception; the level of the logged event |
| `effect` | history: the row as this request's statement left it |

| Action | In the code |
|---|---|
| `Begin` | a controller action calls the service |
| `Construct` | `new SupportCase(...)` and `Add` in `CreateCaseAsync` |
| `Load` | `GetRequiredCaseAsync`: one SELECT, tracked; ends `GetCaseByNumberAsync` |
| `Mutate` | `SupportCase.Mutate` on the request's copy: version, rule, bump |
| `Execute` | the INSERT or UPDATE of `SaveChangesAsync`, executed by the server |
| `Acknowledge` | its result reaches the client: log and return, 409, or conflict |
| `Translate` | `GetDatabaseValuesAsync` after a failed version check |
| `Retry` | the execution strategy sends the command again (a result on its way is lost) |
| `GiveUp` | retries exhausted, a failure that is not transient, cancellation, process death |
| `ExecuteOrphan` | the server executes a statement its client no longer waits for |

Execution and acknowledgement are separate steps, because everything interesting
happens between them. Whether an UPDATE is sent at all (`IssuesUpdate`), its WHERE
(`Matches`) and its SET (`UpdatedRow`, column by column) follow the change tracker.

### InMemoryCaseService

`cases` are the fields of the shared objects, `holders` who is inside an object's lock.
`Apply` writes the field and `Bump` the version as two steps; `Capture` takes the
snapshot and leaves the lock. `settled` (history) is the object when its lock was last
released: what a reader that respects the lock can see. `Save` is the no-op
`SaveChangesAsync` with its cancellation check. A process that dies takes its store
with it, so there is no restart.

### CaseListing

The actions of `InMemoryCaseService` go on (`Others`) while one listing runs: `GetAll`
takes the dictionary's values, `Snapshot` one object's snapshot when its lock is free,
`Return` filters and sorts. `Where` keeps the rows at the places `Kept`; the place a stable
sort gives a row is the number of kept rows it puts before it (`Ahead`, by `ComesBefore`),
so the result is stated without an algorithm (`Sorted`).
`lived` (history) is what each case has been since the listing began.

### EntityTagVersion and IfMatch

A header is a sequence of letters. `Format` writes a version in decimal between quotes;
`ParseRequired` trims, refuses weak tags, lists and anything unquoted, and reads digits up
to `MaxVersion`, which stands for the largest 64-bit number. The result is the version,
or the status the exception becomes: 428 for no header, 400 for another. `Decimal` and
`Number` are recursive functions and not `RECURSIVE` operators, so that they can be proved
about.

### HttpApi

| Variable | In the code |
|---|---|
| `request` | what the client sent: route, body, role of its token, If-Match, correlation ids |
| `traceIdentifier` | `HttpContext.TraceIdentifier` after the middleware |
| `response` | status, body, ETag and correlation header of the response |
| `cases`, `call`, `effect`, `answer` | the store's, as in `VersionedCases` |

`Arrive` is everything before the service: correlation id, authentication, the policy of
the endpoint, model validation, If-Match, in this order (`Precheck`). It touches nothing
that requests share, so it is one step. `Serve` is the store's work, `Respond` the end of
the action or `ApiExceptionHandler`, or a client that has gone. An outcome nobody knows is
a 500, or a 409 when it surfaced as an `InvalidOperationException` (`Statuses`).

### Portal

| Variable | In the code |
|---|---|
| `page` | what a tab shows: the form, the case, and the hidden `EntityTag` |
| `post` | how far the tab's POST is, its API call, and the cookie that came with it |
| `tempData` | the success message in the TempData cookie, shared by the tabs |
| `seen` | history: the case on the page when the user submitted |
| `cases`, `call`, `effect`, `answer` | the API's store, as in `VersionedCases` |

| Action | In the code |
|---|---|
| `Open`, `FollowRedirect`, `OpenCreate` | `OnGetAsync` of the pages |
| `Submit` | `OnPost...Async` up to the call of `CaseApiClient`; also a second click |
| `Finish` | `MutateAsync` and the create page, once the API has answered: success, 412, any other status |
| `TimeOut` | the client's timeout; the API keeps the call |
| `Reload` | `LoadAsync` in a POST: the case of now, the hidden field from ModelState |
| `Serve`, `OtherClient` | the API's work on the portal's calls, and on other clients' |

### CaseFilter

`visible` are the rows that `toggle` has not hidden, `field` the filter's value, `ready`
whether the script's handler is attached. `Input` is the handler (`Toggled`), `Ready` the
page-ready event, which looks at no value; `Load` is a new page, on which the browser
may restore the text. One event is one step, as in the browser.

### Abstractions

* Case numbers are the keys the SQL collation or the dictionary's comparer tells apart;
  subjects are written once and never read by a rule; priority is computed from two
  fields. None is state here.
* Every rejected constructor argument is an invalid severity: all reach the same
  `ArgumentException`.
* Versions are naturals (64-bit in the code: 2^63 changes of one case are out of reach).
* Each request makes one call; a client that calls again is another request.
* In `Portal` a tag is the version it names (`RoundTrip` of `IfMatch` is why it may be), and
  the session is looked at and not stored: it may be gone or of another role each time.
* Problem texts, page texts and log texts are left out.

## 3. What is checked

| Run | Instance | Shows |
|---|---|---|
| `sql_safety` | 3 requests, 1 number, severities 3 and 6, If-Match 1-2, 1 retry | the safety properties below and the inductive invariant |
| `sql_promise` | 2 requests, 2 retries, all states of a changed case, fairness | `ImplementsVersionedCases`, `EveryCallEnds` |
| `sql_conflict` | 2 requests, 1 retry | finding 1 (violation) |
| `memory_service` | 3 requests, severities 3 and 6, If-Match 1-2, fairness | `NoLostUpdate`, `OneRepresentationPerVersion`, `ImplementsVersionedCases`, `EveryCallEnds` |
| `memory_create` | 2 requests | finding 2 (violation) |
| `case_listing` | 1 listing, 2 cases, 2 other requests | the three listing properties |
| `if_match` | every header of up to 5 letters out of 9; largest version 12 | `OneStrongTag`, `RoundTrip` |
| `http_api` | 2 requests of any kind, 3 roles and none, 4 headers, 3 lists of ids, fairness | the API's properties |
| `http_conflict` | the same | finding 4 (violation) |
| `portal` | 2 tabs, 2 submissions, 1 case, other clients up to version 2 | the portal's properties |
| `portal_tag` | the same | finding 3 (violation) |
| `case_filter` | 2 rows, every text of up to 2 of 3 letters | the filter's properties |

The properties of `SqlCaseService`:

* `VersionPinsRow`: a row never goes back in version, and while it has the version a
  request loaded it is the loaded row in every column.
* `TruthfulSuccess`: a reported success was applied and left the row as reported.
* `NoLostUpdate`: no two calls change a case into the same version.
* `OneRepresentationPerVersion`: two snapshots of a case under one version are equal,
  whoever read or wrote them, which is what a strong ETag claims.
* `VersionCountsChanges`: a row starts at version 1 and any change adds exactly one.
* `AppliedOnce`: a statement executed again or late changes nothing once its call was
  applied or answered.
* `ConflictReportsOtherVersion`: a 412 names a version the case reached that is not the one sent.
* `LogTellsCommittedChange`: a write is logged if and only if it is reported, Information
  exactly for changed rows, Debug for applied no-ops.
* `RefusalsAdmitTheirChange`: a refused call that changed its case, which only a command that
  was sent again can be, is told so by a conflict at a version that has the change or by a
  create's duplicate; every other refusal tells that nothing was changed.
* `Statements`: the rest of the inductive invariant, what a request has staged and sent.

Of `InMemoryCaseService`: `NoLostUpdate` and `OneRepresentationPerVersion`, as above.

Of the others:

* `ListingIsCurrent`: a row is its case as it was at one moment of the listing.
  `ListingIsComplete`: no case stored before is missing or twice, and a case that was open
  (closed) all the while is (is not) among the open ones. `OpenListingInOrder`: the
  rows are sorted as returned, whatever has become of their cases meanwhile.
* `OneStrongTag`: what is accepted as If-Match is the tag of exactly that version; nothing
  that is such a tag is refused. `RoundTrip`: a tag sent back is its version.
* `ClientErrorMeansNoEffect`: a 400, 401, 403, 404 or 428 changed nothing and never will.
* `OnlyAskedForChanges`: a case changes only as a manager asked, from the version the
  request's If-Match names and into what the request asks for.
* `StrongValidator`: two responses with one tag have one body, and the tag is accepted
  back as the version in it, if that is a 64-bit number. `UsesVersionedCases`: what
  arrives at the store is one call per request that `CaseService` has, with a version some
  client named.
* `CorrelationIdsTellRequestsApart`: requests share an id only if both clients sent it, and
  sent nothing else.
* `InformedChange`: what a form changes is the case exactly as its page showed it.
* `TagIsSpentOnce`: a form submitted again with its tag does not change the case again.
* `SuccessMessageIsTrue`: a success message, in whatever tab, is about a change that was made.
* `VerbatimMatchShown`, `NarrowingOnly`: the filter loses no row, and typing more never
  shows more.

**Bounds.** One case number: a statement or a lock concerns one case, and no action
relates two. Three requests are two racing writers and a third that overtakes the
loser's conflict translation. Severity 6 is invalid, 3 is a change and then a no-op. The If-Match values include stale,
current and future versions. One retry already produces a lost acknowledgement, a
duplicate and an orphan at once; `sql_promise` has two.
Versions and orphans are not bounded: each request changes a case at most once and
retries at most `MaxRetryCount` times. EF's default of six retries differs in number only,
and the proofs hold for any number. Requests are interchangeable, so the safety runs use
symmetry; the liveness runs do not. A listing of two cases has a first snapshot that is
old when the second is taken, and a tie for the order. Five letters hold a quoted number of
three digits, which overflows 12 both by value and by length; all shorter versions of the
other forms are among them. Two API requests are a client and whoever overtakes it. In the
portal two tabs share a cookie; two submissions are a click and the second click, of one tab
or two; a version beyond 2 takes no step the first does not. With texts of two letters a
query can be longer than, equal to, a part at either end of, and absent from a row.

`CHECK_DEADLOCK FALSE`: every request may have ended, and a header is parsed once; that no
request is stuck before is what `EveryCallEnds` and `EveryRequestEnds` say. The filter
never stops, and there deadlock is checked.

**Fairness.** Weak fairness of each request's own steps (`Step(r)`): the thread pool
runs continuations, the server answers a command or the client times out, after
which `Retry` and `GiveUp`, which are never assumed to happen, are bounded or final.
Requests need not start and orphans need not execute. In memory a waiting thread
needs no fair lock: the others make one call each, so the lock is eventually left free.
`HttpApi` assumes of its store what `EveryCallEnds` shows of both: that a call ends (weak
fairness of the steps of `Serve` that answer it), and that the pipeline runs on
(`Respond`). `Portal`, `CaseListing`, `IfMatch` and `CaseFilter` have safety properties
only and assume none.

## 4. Findings

1. *A 412 can report the caller's own change* (`sql_conflict`,
   `ConflictMeansNoMutation`). README.md:78 gives "stale -> 412 ... success -> 200 with
   the new ETag" and the 412 test insists that "The stale request must not have changed
   severity." A PATCH with the current version commits; the acknowledgement is lost; the
   retry matches no row; the row is re-read and the answer is 412 with the version the
   PATCH itself made. The same retry answers a create 409 "already exists" for its
   own row. What is left to a caller who knows this is `RefusalsAdmitTheirChange`: only these two
   answers can hide a change, and the version in the 412 has it.
2. *A create can return version 2* (`memory_create`, `CreateReturnsVersionOne`).
   CaseService.cs:33 says "Returns a version-1 snapshot." Over the in-memory
   repository the object is shared from `Add` on, and its snapshot is taken after
   `SaveChangesAsync`. Over SQL Server the entity is private and the statement holds
   (`CreatesReturnVersionOne`, proved). For this reason the refinement of the in-memory service maps
   the snapshot a create returns to the one it should have returned (`Promised`).
3. *A page can show the case of now with the tag of before* (`portal_tag`,
   `FormCarriesLastTag`). Details.cshtml.cs:17 calls the field "The exact ETag last
   returned by the API, round-tripped through the form"; README.md:217 says the same of the
   page. After a POST that fails with anything but a 412 or a 403, `LoadAsync` reads the case and sets
   `EntityTag` (Details.cshtml.cs:62), but the page is rendered in the same request and
   the hidden field (Details.cshtml:36) takes the posted value from ModelState. The
   user's next click is a 412 although the page showed the current version. Nothing is
   lost: the tag is never newer than the page (`InformedChange`).
4. *A 409 need not be about the case* (`http_conflict`, `ConflictIsAboutTheCase`).
   README.md:78 gives "invalid transition -> 409", ApiExceptionHandler.cs:9 calls itself a
   mapping "from domain/service exceptions" with "anything else -> 500", and only the create,
   close, reopen and escalate endpoints declare a 409. The handler maps every
   `InvalidOperationException`, and the SQL client throws one when no connection of its pool
   becomes free in time. It is not transient for the execution strategy and no code in between
   catches it. Any endpoint can then answer 409, a read too, in the trace the list of all cases.

## 5. What is proved

### The SQL-backed service

For all requests, numbers, severities, If-Match versions, initial rows and retry
limits, from the assumptions named in `CaseCalls` and `SqlCaseService` (severities are
integers, versions positive, `NoRow` and `NoCall` are not a case or a call, the retry
limit is a natural number, initial rows are cases):

* `Invariance`: `Spec => []IInv`, and from it `TypeCorrect`, `StatementsStayTrue`,
  `RowsArePinned`, `SuccessIsTrue`, `UpdatesAreNotLost`, `LogIsTrue`, `ConflictIsTrue`;
* `VersionNamesRepresentation`, and `CreatesReturnVersionOne`: what finding 2 refutes of the
  in-memory store holds over SQL Server;
* `VersionsCount` and `EffectsHappenOnce`, the action properties;
* `RefusalsAdmitChange`, for any number of retries: it needs that an effect stays behind the
  row (`WasApplied`), that only creates are told of a duplicate, and that a statement of an
  answered call does nothing (`LateStatement`);
* `Refinement`: `Spec => ImplementsVersionedCases`.

**The inductive invariant.** None of the properties is inductive: that the UPDATE's
WHERE protects the row depends on the statement being the mutation of the row that
was loaded, and statements live on as retries and orphans long after `Mutate`. `IInv`
therefore remembers, per request: where it is and what it has made so far (`Progress`);
that a statement which was ever sent carries `Mutated` of the loaded row, with the
expected version (`Staged`); that an applied statement left `effect` and the row has
only grown since (`WasApplied`); and that a refused one can never apply again (`Spent`).

**The argument.** (1) A staged statement either does nothing or makes the row exactly
`tracked.current`, at version 1 or one more than it was (`StatementEffect`), because
`VersionPinsRow` turns the column-wise UPDATE into a whole-row write. (2) Hence rows
only grow (`RowsMove`), which every other request's invariant survives (`OthersKeep`).
(3) The acting request is one lemma per action. (4) A new effect has a version above
all versions its row had, so `NoLostUpdate` follows (`NewEffect`). (5) What a step adds to
the snapshots of its request is the row as the step leaves it, or one it had (`StepAdds`);
all of them are behind the row or are the row (`Current`), so two of one version are one
(`Agreement`). The refinement is one
lemma per action over `IInv`: only a statement that applies is `TakeEffect`, answers map
to `Succeed` and the refusals, all else stutters.

### The in-memory service

`InMemoryCaseProofs` proves `TypeCorrect`, `NoUpdateIsLost` and
`VersionNamesRepresentation` for any number of threads, from the assumptions of `CaseCalls`
and that initial objects are cases, and the refinement (`Refinement`), with the snapshot of a
create mapped as finding 2 says.

Between `Apply` and `Bump` an object is a case nobody has ever been promised, so its
invariant is stated twice. *Inside the lock* (`Guarded`): the object is the settled case, the
settled case with one field changed, or its mutation, according to where the holder is.
*Outside* (`FreeIsSettled`): an object whose lock is free is `settled`. `Exclusion` makes the
holder one thread. What callers know only ever comes from `settled`: every snapshot anybody
has is an earlier version of it or is it (`Current`), and snapshots of one version agree
(`Agreement`). A new effect is one version above `settled`, hence above all that is known.
The refinement maps the store to `settled`, so that the two writes of a mutation are one
step: the one that leaves the lock.

### The listings

`ListingsAreCurrent`, `ListingsAreComplete` and `OpenListingsAreInOrder` hold for any number of
cases and writers, with case numbers that are integers (`NumbersAssumption`, for the tie-break
only). The invariant is that of the in-memory service and three facts about the listing. A
snapshot is taken of an object whose lock is free, which is `settled` then, and what was
settled since the listing began is in `lived` (`LivedTells`); so a row is never torn. While
it reads, the rows are one of each object that is no longer unread (`OneRowEach`); so none
is missing or twice. And the sort is a permutation: `Ahead` is a strict linear order of the kept
places, so the number of places ahead of a place tells it from all others and has no gap; each
k from 1 to the number of kept rows is the rank of exactly one of them (`SortedPlaces`).

### The codec

`EntityTagProofs` and `IfMatchProofs` prove `OnlyOneStrongTag` and `TagsComeBack` for every
largest version, every version up to it and every header, over any letters, assuming that headers
are sequences (`HeadersAssumption`) and that a missing header is not a tag
(`NoHeaderAssumption`). Both directions are recursions over data. The library's
theorems of induction and recursion take an operator, which the provers cannot instantiate, so
the module starts from what needs none: a non-empty set of naturals has a least number
(`LeastNumber`), hence a set of counterexamples has a least one; and a function defined by
recursion that lowers a measure exists (`Recursion`: partial functions below each bound agree,
and their union is the function). From this: `Decimal` of a number is digits without a leading
zero (`DecimalTells`), its `Number` is the number (`NumberOfDecimal`), and digits that denote a
number are its decimal with zeros before it (`DecimalOfNumber`). `Trim` keeps what is between
the first and the last letter that is not a blank (`TrimTells`). `ParseTells` and `FormatTells`
are what other proofs use: what is accepted is a tag of the version, what is a tag of a version
is accepted, and no tag is of two versions.

### The API

`HttpApiProofs` proves `TypeCorrect`, `TagsAreStrongValidators`, `ClientErrorsHaveNoEffect`,
`ChangesAreAskedFor`, `CorrelationIdsAreTheirOwn` and `Refinement`, assuming that `NoRequest` is
not a request, that generated ids are none that clients send (`SuppliedAssumption`: a
GUID), and that `Versions` has the versions that `IfMatches` name (`IfMatchesAssumption`, which
is what both constants are). The first invariant, `IInv`, says that a
call the store has is one that passed every check and is the request's own (`Passed`), and
that no such call ends in a refusal of its argument: the body's range is the domain's.
Only that last fact makes a 400 mean "no effect" although the exception handler also maps the
domain's `ArgumentException` to it. A 404 means it too, because a store may call a case missing only
before the call had an effect, and a refusal is final.

The second, `SInv`, adds the types and relates everything that a request has written or got
(`Snapshots`) to the stored case: it is the stored case or has an earlier version
(`Current`), two of one case with one version are the same (`Agreement`), and a response
with a tag carries its reply's snapshot and the tag of that version (`Tagged`). A write starts
from nothing, leaves the case alone or makes the version above all that is known, so `Agreement`
survives it; a read returns what is stored. Equal tags are then equal versions, because `Format`
is injective (`FormatTells`), and equal versions equal bodies. That a tag is accepted back is
stated of 64-bit versions, the others have none in the code. The refinement is of the
composition: a request that passes every check is `Submit` with a call of `CaseService`
(`PassedIsCall`), `Serve` is the store's own step, all else stutters.

### The portal

`PortalProofs` proves `TypeCorrect`, `ChangesAreInformed`, `TagsAreSpentOnce` and
`MessagesAreTrue` for any number of tabs, submissions and other clients, assuming that there
is a case number and that `NoCall` is no call of a form. Because of finding 3 the tag in
a form is not the version on its page, so the invariant says less and enough: the tag is never
*ahead* of the page (`PageTells`, `CallTells`), and the page is a case the store has had
(`Precedes`). If a change is made, the store's version is the tag; the page lies between
the two, so it is the stored case. A tag is spent once because a change leaves the stored
version above it for good. A message in a cookie, wherever a tab's POST carries it, was
earned when it was written (`Earned`), and effects are never undone.

### The filter

`CaseFilterProofs` proves both properties for any table, alphabet, lower-case map and
texts, from one line: what is visible is everything, or what the current field matches
(`Filtered`). Besides, `includes` survives lower case and is transitive.

### Only model-checked

Liveness: `EveryCallEnds` of both stores and `EveryRequestEnds` rest on fairness and ENABLED,
which the installed provers do not handle. Every invariant, action property and refinement that
a passing run checks is also a theorem. The four violations are TLC's traces.

## 6. Not modelled

Not modelled, because nothing in it changes state that others see:

* the console (`CasePriorityApp`): a fixed script with one request at a time, which
  `InMemoryCaseService` allows among all others;
* health checks: probes with a timeout on which nothing depends;
* the generated migration, the OpenAPI transformers, views, layout and vendored assets.

Modelled in part:

* *Case rules*: the priority is a function of two fields and is not state; the mutations
  without an expected version are called by tests only.
* *SQL listings* are one query; what one query sees of rows that are being written is the
  server's isolation level and no code here.
* *Rows deleted or re-created by other writers of the database*. Nothing in the repository
  deletes a case; a re-created row would start again at version 1, and every property of
  `SqlCaseService` rests on that not happening.
* *Token validation and the portal's cookie* are the frameworks'; their outcome, any role or
  none, is modelled at every place it is looked at.
* *The filter* with letters whose lower case depends on their neighbours or has another
  length (final sigma, dotted capital I).
* *A blank case number in a route*: the repository refuses it with an `ArgumentException` before
  it reads anything, and the API answers 400 as for a body out of range.
