# Orbit Works: models, checks and proofs

TLA+ specifications of Orbit Works (a FastAPI/PostgreSQL back end and a Next.js
web client), the TLC instances that check them, and TLAPS proofs about them.
Paths of the back end below are relative to `src/backend/app/`, those of the web
client to `src/frontend/`.

## 1. Inventory

One process serves the API; one APScheduler in it runs the periodic jobs; all
state is in PostgreSQL (and files on disk). A handler opens one session
(`core/database.py`), reads with plain SELECTs under READ COMMITTED, changes
objects in memory, and writes at its commit the *columns it changed*, adds the
rows it added and deletes the rows it deleted. There is no `FOR UPDATE` in the
workflows below, no version column and, where it matters, no unique constraint.
Two handlers therefore interact through rows read before and written after
somebody else's commit. That is the main source of hard behaviour in the back end.

The web client is 299 components on about 115 pages. Nearly all of them keep no state but
the cache of react-query: they ask (`useQuery`), they write (`useMutation`), and
each write names by hand the queries to ask again. A few windows keep a state of
their own between the user and the server: the editors of a meeting note, the page
of a weekly report, the memo drawer, the chat with the assistant. Requests of one
page are not ordered, answers may be lost, and what a user sees or has typed
depends on which answer comes last. That is where the web client is hard.

| Component | State | Operations | Hard behaviour | What makes it correct |
|---|---|---|---|---|
| Approval engine (`services/approval_engine.py`) | none; reads the organisation chart | `find_matching_rule`, `resolve_approver`, `evaluate_rules` | the chart changes between its queries, in the middle of a walk too; cycles of managers; order of the rules | no requester, no duplicate, no gap in the chain; nobody dropped without cause; it ends |
| Approval workflow (`api/v1/approvals.py`, `models/approval.py`) | requests, steps, history, attachments | create, update, submit, cancel, approve, reject, delegate, comment, upload, delete file | overlapping handlers, renumbering of steps, skips, snapshots of the template | decisions in order, status agrees with steps, decisions traceable, closed stays closed |
| Leave (`api/v1/leaves.py`, `services/leave_allocation.py`, `models/leave.py`) | balances per year, rewards, requests with allocations | request, edit, cancel, approve, reject, initialise, accrue, catch up, transition, correct, delete, reward, revoke | lost updates of balances, edits by hand, year boundary, refunds into what changed since | balances are what the requests took; nothing overdrawn; days taken are the days asked for |
| Pages and their cache (`app/providers.tsx`, every page) | cached answers, requests on the wire | queries and mutations of 299 components | refreshes named by hand, several requests in one operation, buttons that stay enabled, polling | the page shows what its user wrote; what he means to make is made once |
| Note editors (`app/(dashboard)/meeting-notes/[id]`, `components/meeting-notes`) | text on the screen, remembered save, timer, cached note | type, autosave, save, switch tab, refetch, close | saves overtake each other, editors mount on an old copy, timers are started, cleared and left behind | what is typed is stored or the page says "error" |
| Mindmap (`MindmapEditor.tsx`, `mindmap-utils.ts`) | nodes, lines, folds, undo and redo | add, connect, drop onto another, delete, fold, undo, redo, paste | two kinds of deletion, snapshots taken by closures, hidden nodes | what is folded away can be unfolded |
| Weekly report (`app/(dashboard)/weekly-reports/[id]`) | draft, last saved body, cached row, timer | type, autosave, save, submit, reopen, reapply, upload | every answer carries the whole row, in any order | the draft is saved; only reapplying discards |
| Memo (`components/memo`) | text, modified mark, cached memo | open, type, save, close, hide | fetch on opening against saves on the wire; keepalive requests | unmarked text is the server's |
| Assistant (`components/assistant`, `api/v1/assistant.py`) | turns, flag, controller, conversation | ask, stop, reset, stream | the last event and the end of the stream are two moments | an answer stands under its question |
| Mail synchronisation (`services/email`) | mails, folders, pending actions; an IMAP server | push, pull, expunge, send | effects on the server outlive a lost transaction; retries | no local change lost or repeated |
| Scheduler, due alerts, campaigns (`services/scheduler.py`, `goal_due.py`, `marketing.py`) | job runs, sent alerts, sends | daily and hourly jobs | a crash between effect and record | at most once, or at least once |
| Payroll, evaluations (`api/v1/payroll.py`, `evaluations.py`) | runs and items, cycles | edit, finalize, pay; open, assess, close | status of a parent read before its children change | a final run does not change |

The rest (customers, projects, billing, assets, attendance, rooms, board, rates,
tenants, settings ...) is rows that one handler writes alone or constraints that
the database enforces; `PROJECT.json` lists each part.

Interactions: a submission calls the engine with the chart of now; approvals read
ranks and titles again; the requests of employees and the scheduler's and
administrators' operations meet in the rows of `leave_balances`; the web client
meets the back end only in requests, which every client module lets be delayed,
reordered, refused or answered in vain.

## 2. Modules

```
ApprovalRules --+-- ApprovalEngine ------------------------ MCHandlers
                |        ^ ApprovalEngineProofs               | |  INSTANCE ... WITH
                +-- ApprovalRequests --+-- ApprovalFlow ---- MCApprovalFlow
                |                      |      ^  ApprovalFlowProofs   |
                |                      |      | refinement            |
                |                      +-- ApprovalSessions --- MCApprovalSessions
                |                             ^  ApprovalSessionsProofs
                +-- ApprovalRulesProofs (used by the three modules of proofs above)
LeaveRules ------ LeaveLedger ----------------------------- MCLeaveLedger
                         ^ EXTENDS, refinement
                  LeaveSessions --------------------------- MCLeaveSessions, MCHandlers
                         ^ LeaveProofs (of both)

NoteEditing --- MCNoteEditing
     ^ NoteEditingProofs
AssistantChat, and by INSTANCE ... WITH
WeeklyReport, MemoDrawer, Mindmap --- Windows --- MCWindows
                                        ^ WindowsProofs
ScreenTerms --+-- BusinessRoutes, StaffRoutes -- Finance-, Sales-, People-, Work-, OfficeScreens --+
              +-- Screens --------------------------------------------------------- MCScreens ----+
                     ^ ScreensProofs
```

### The back end

**ApprovalRules** is the chart (`mgr`, `rank`, `title`, `active`) and the engine
as operators: `ManagerChain` (`_manager_chain`), `ResolveApprover`, `Redundant`
and `ResolveStep` (one pass of the loop), `EvaluateRules`. A form is abstracted to
the rules it matches: the JSON path language of `match_when` decides only that.

**ApprovalEngine** runs `evaluate_rules` query by query while somebody else commits
changes of the chart: the rule is found, a specification is tested against the running
maxima (`Test`), the managers are walked up one row a step (`Walk`), the candidate is
chosen from the rows of the walk (`Choose`) and read again for his grades (`Grade`).
`held` is what the session's identity map answers without a query's row: the
requester and the employee chosen last. The module uses none of the operators by which
ApprovalRules resolves a specification: the chain is written down twice, as the code
computes it and as what it should be, and `ReturnsEvaluateRules` compares the two while
the chart stands still. The workflow modules use the operator.

**ApprovalRequests** is a request as a record and every handler of `approvals.py`
as a guard and an effect on it. A step row keeps its identity (its index in
`steps`) while `no` is its `step_no`; `from` is `delegated_from_step_id`.

**ApprovalFlow** runs these handlers one after the other, with edits of the
template and of the chart at any moment. It is the abstract specification: what
the workflow promises if handlers do not overlap.

**ApprovalSessions** is the detailed one: each handler loads the request, decides
on what it loaded and commits later; `Merge` is the unit of work (changed columns,
added rows, deleted rows). With one handler at a time it implements ApprovalFlow
(`ImplementsFlow`, an INSTANCE of it on the same request); with two, what survives
is stated as properties of its own.

**LeaveRules** is one employee's books and every operation of `leaves.py` on them;
**LeaveLedger** runs them one at a time (abstract), **LeaveSessions** as two reads
and a commit (detailed), with the same column-wise `Merge`. The rows are the same
in both, so LeaveSessions EXTENDS LeaveLedger, adds what each handler holds (`client`)
and has its own `SessionsSpec` beside `LedgerSpec`; `ImplementsLedger` is `LedgerSpec`
seen from there, and the refinement mapping forgets `client`. A
commit whose UPDATE meets no row fails (`RowsThere`, SQLAlchemy's StaleDataError); a
DELETE that meets none does not.

| Code | Model |
|---|---|
| `approval_steps` row, `step_no`, `delegated_from_step_id` | index in `req.steps`, `.no`, `.from` |
| `approval_rules_snapshot`, `attachment_slots_snapshot` | `req.rules`, `req.slots` |
| `_ensure_my_pending`, `_auto_skip_downstream`, `_validate_required_attachments` | `EnsureMyPending`, `AutoSkipped`, `HasRequiredFiles` |
| `submit_request` ... `delete_attachment` | `Submit` ... `DeleteFile` |
| developers: manager_id, grade, title, status | `org` |
| `leave_balances` row | `bal[y]`, `NoBalance` when there is none |
| `leave_reward_grants` in FIFO order | `grants` |
| `leave_requests` with `leave_request_allocations` | `reqs[id]` with `year` and `grant` |
| `build_allocation_plan`, `_apply_allocations`, `_revert_allocations` | `Plan`, `Charged`, `Refunded` |
| a 4xx answer | the action is not enabled |
| an exception, a lost connection, a restart before the commit | `Abort` |

### Windows that keep a state of their own

**NoteEditing** is the note page with one of its three tabs: the cached note
(`page.note`), the chip (`page.saving`), the mounted editor (`editor`), its timer, what
it remembers of its last save (`marker`: `lastSavedRef`, `lastSavedJsonRef`), the
timers a diagram editor leaves behind (`orphans`), the PATCH requests on the wire
(`calls`) and the refetches other mutations of the page cause. A document is the set
of the edits in it. `crossed` is a history variable: a save overlapped something. It makes
the property exact: in those cases, and in no others, an autosave is lost without a message.

**WeeklyReport** is the page of one report: the row of the server, the row of the
cache, draft, `lastSavedRef`, the autosave effect. Two rows are equal when nothing
was written between (`rev` is `updated_at`), and react-query then keeps the old
object, so that no effect runs; `Show` says what runs when it changes.

**MemoDrawer** is the drawer with its fetch on opening, its mutation and its
keepalive requests; **AssistantChat** the hook, the event stream and the handler that
stores the answer after the last event; **Mindmap** the editing operations on nodes,
lines and folds with both stacks of snapshots. `Hidden` is `hiddenNodeIds`,
`DescendantsOf` the breadth-first walk of `mindmap-utils.ts`. **Windows** puts the four side
by side, one per behaviour, so that one run and one set of theorems is about all of them.

### All the pages

**ScreenTerms** are the words in which a component is written down: its queries
(`Rows`, `Row`, `Fresh` for `refetchOnMount: "always"`, `Polled` for `refetchInterval`),
its operations (`Op`: the requests in their waves, the keys it invalidates; `Setting` for
`setQueryData`, `Leaving` for `router.push`), and how each is started: `guarded` by a button that is disabled
while it runs, `asked` by a confirmation or a choice of files before every
press, or `open`. The five area modules hold one definition per component, 299 in
all (302 with those that serve more than one table), each with its file, and a `...Press` (and, on the largest pages, a `...Queries`) for the parts of a component that
stand apart in the code. **BusinessRoutes** and **StaffRoutes** hold the handlers their requests reach, 395 of them, as what
they do to the tables: make, add to, change or drop, and, where they make a row, what
becomes of it when the very row is there already (the `twin`: a unique constraint refuses it, an
upsert writes over it, a test before the insert looks for it and may be too early,
most handlers make another). **Screens** is the machine that runs one operation against one query of the
same page: the user presses, leaves and comes back, the server does or refuses each
request, answers get lost, the cache marks, drops, keeps and refetches the way
react-query does. **MCScreens** lists which components a route mounts together, and
`MCUnrefreshed`, what the code writes and does not refresh, entry by entry: a page
that forgets one more violates `OwnWritesShown`. `MCRepeatable` and `MCPiecewise` list in the
same way the operations that make a thing and can be pressed again before they are done, and those that make one
with one of several requests; a page that loses its disabled flag, or an operation that is given another
request, violates `MadeOnce` until it is listed. The lists have no entry too many: each was left out
by itself and seen to be needed.

What a press means is part of the model (`AimsOfPress`): a button means the same thing until
that has succeeded and its page is gone; a dialog or a choice of files means something new, or
any of the things that have failed so far, for the same file may be chosen again.

| Code | Model |
|---|---|
| a component's `useQuery` / `useMutation` / async handler | a member of `.queries` / a field of `.ops` |
| a query key, its literals and its variables | a sequence of strings, `"id"` and `"filter"` |
| `mutationFn` with `await` / `for` / `Promise.all` | waves of requests: `One`, `Each`, `Together`, `SomeOf` |
| `invalidateQueries`, `setQueryData` in `onSuccess` | `refreshes`, `sets`; `Settle` |
| `disabled={m.isPending}` | `"guarded"` |
| a handler of the server that a screen writes with | an operator of BusinessRoutes or StaffRoutes, `Change("assets")`, `Unique(Make("domains"))` |
| a unique constraint, `on_conflict_do_nothing`, an upsert, a SELECT before the INSERT | `Unique`, `Kept`, `Upsert`, `Checked`; `TurnAway`, `Pass` |
| `staleTime` of 30 s, `refetchOnWindowFocus: false` (`app/providers.tsx`) | `Age`; no refetch on focus |

## 3. Runs

Passing runs:

| Run | Shows |
|---|---|
| `handlers` | Handlers in their steps, each kind from initial states of its own. *Engine*: over 32 charts with ranks (cycles of managers and lines longer than `MaxDepth` included), three rule lists, two forms and at most one change of the chart between any two queries of an evaluation, the chain is well formed whatever happens; while the chart stands still nobody is dropped without a documented reason, the approval-time skip finds nothing left, and the chain is the one `EvaluateRules` describes; and every evaluation ends. *Approval*: ApprovalSessions with one handler implements ApprovalFlow, the template and the chart being edited between load and commit; one instance has templates with file slots, the other without. *Leave*: LeaveSessions with one client implements LeaveLedger (`OneHandlerIsLedger`); a request handler overlapping an accrual is harmless, because they write different columns of a row. |
| `flow` | All safety properties of the workflow with handlers one at a time: 4 employees, 2 charts, 3 templates (with and without a slot, one inactive), 2 kinds of form, up to 5 step rows, i.e. chains of up to three with delegations of delegations, and files that the requester and an administrator add and remove. |
| `sessions` | Two overlapping handlers: decisions stay traceable to their own approvers, no step is reopened, rows do not change owner, `max_count` is exceeded by at most one file, and a request stays open with nothing to decide only after two handlers decided one step or submitted it twice. |
| `ledger` | The leave books of LeaveLedger, two years, two requests, two rewards; the second year's `used_days` is overwritten and its balance deleted by hand. Books whose year nobody corrects agree exactly with the requests; a request never reserves what is not there in any year; days go from the first year, the second and the rewards in that order. |
| `note_editing` | One page, each of the three tabs, two edits, two saves on the wire, a refetch, a window closed and opened again, requests that fail: looking at a note writes nothing; a page at rest has stored what it shows unless a save was crossed; every edit is stored without a click. |
| `windows` | The weekly report, the memo drawer, the chat and the mindmap, each from its own initial states: eight properties, three of them liveness. |
| `screens` | 419 operations against 484 queries on 116 pages: the page comes to show what its user wrote (`OwnWritesShown`, `Converges`), and a page that polls does so whatever was refused, lost or overtaken; what the user means to make is made once, but for a lost answer and the 38 operations that are listed (`MadeOnce`). |

Runs that end in a violation, each of a statement of the code or its documentation:

| Run | Property | What happens |
|---|---|---|
| `race_closed` | `ClosedIsFinal` | An approval loaded before a cancellation commits after it: CANCELLED becomes APPROVED. |
| `race_delegate` | `ApprovedMeansDone` | The last approval does not see a delegation committed meanwhile: APPROVED with a pending step. |
| `ledger_purge` | `AllocationsHaveBalance` | Deleting a year's balances leaves the allocations, contrary to the docstring; cancelling then fails. |
| `race_leave_overdraft` | `NoOverdraft` | Two overlapping requests both reserve the last day. |
| `note_flush` | `FlushedOnSwitch` | The tabs of the note page do not call `saveRef.current()`, contrary to what `MeetingNoteEditor.tsx` says of it: the text editor is unmounted, its timer is cleared, and what was typed is neither sent nor stored. (The diagram editor is unmounted too, but its timer goes on and sends the change.) |

### Bounds

Every bound is a CONSTANT of a module, named there, and given a value in the cfg (or, where
a module is instantiated more than once, in `MCHandlers`).

- *Approval.* `MaxDepth` stands for the code's 10 and exceeds the longest chain of the
  instance. `MaxSteps` limits delegations: 5 rows let a step be delegated before and
  behind another delegation, which is what the renumbering must survive; the proofs
  have no such bound. `MaxHistory` limits comments, which only append. `MaxReorgs` = 1
  lets the chart change between any two queries. Two handlers make
  every race of a pair. `sessions` permutes handlers and files (`Symmetry`); no
  property names one of them. Its action constraint `OverlapsWhenQuiet` lets two handlers
  overlap under the first chart and template and before any comment, and one be at work
  under the others; the theorems about these properties have no such bound.
- *Leave.* Days are multiples of 0.5 written as integers; two years are enough for the
  boundary, two requests for every interference between requests (a third changes
  the sums only), two rewards for their order.
- *Notes.* Two edits tell an older save from a newer one; two requests on the wire are the least that can
  overtake each other; the closed window's request may still be on the wire. The
  instance has one page: the module also describes several people on one note, whose
  saves `crossed` excuses (the note is stored whole, the last save wins), and a second
  page multiplies the states without a property that it could break.
- *Windows.* The same reasoning: for the report two edits, two operations, three of both
  together, one failure and three requests on the wire, which is what the exception of `DraftIsSaved` takes; two openings and three saves for the memo; three questions and one
  event of text for the chat (a stream left open, one answering and one to come); four
  nodes, four steps and a history of two for the mindmap, starting from a chain of three and from a folded
  parent. `MaxPast` is 100 in the code; two lets the oldest snapshot be dropped.
- *Screens.* `MaxTries` = 2: pressing again, which is what it takes to make a thing twice. `MaxVisits` = 1: leaving and coming back.
  A loop over selected rows has two items. Operations and queries that look the same
  share their states, so that every operation is checked against every query of its page.

Deadlock is not checked: a closed request, a finished evaluation, a spent balance, a
page on which nobody does anything are states in which the system rightly stops.

### Fairness

- The engine (`EngineTerminates`): a coroutine that has been started is run on by the event
  loop. That it ends is not a matter of fairness: each specification takes a walk, and a walk ends
  because it remembers whom it has met and counts its rows.
- The windows and pages: weak fairness of timers that run, of requests that are answered
  (or fail), and of the browser's reaction to an answer. Nothing is assumed of people: nobody has to type,
  press, switch, open or close, and nothing is assumed of failures, which are
  allowed and never required.
- The workflows of the back end are driven by people; the code promises no progress, so
  none is assumed or claimed. What is claimed instead is that somebody *can* act
  (`SomeoneCanAct`).

## 4. Proofs

The theorems hold for every value of the constants: every set of employees, charts, rule
lists, templates, forms, files, handlers, years, requests, rewards, pages, screens, and
every bound. They assume the types of the constants (`DevAssumption`, `EngineAssumption`,
`FlowAssumption`, `SessionsAssumption`, `RulesAssumption`, `LedgerAssumption`,
`NoteAssumption`, `ScreensAssumption`, `WindowsAssumption`), which TLC evaluates on the runs of those modules.
Where a theorem has a hypothesis of its own, it says so in its statement (in italics
below), and the paragraph about it says why.

| Module | Theorem | States |
|---|---|---|
| ApprovalRulesProofs | `EvaluatedIsChain` | `EvaluateRules` returns a numbered chain, nobody twice, never the requester |
| ApprovalEngineProofs | `ChainAlwaysWellFormed` | the same of the loop, whatever the chart does meanwhile |
| | `LoopReturnsEvaluateRules` | the loop, query by query, returns the chain that `EvaluateRules` describes, while the chart stands still |
| | `NothingIsLeftToSkip` | no approver of a fresh chain covers the grade of a later step |
| | `DroppedOnlyForAReason` | a specification is left out for one of the two documented reasons |
| ApprovalFlowProofs | `TypeCorrect` | `Spec => []TypeOK` |
| | `DecisionsInOrder` | steps are numbered 1..n, each number once, and nothing before a decided step is pending |
| | `OutcomeCorrect` | the status of the request and those of its steps agree |
| | `NobodyApprovesHisOwn` | the requester is never an approver |
| | `AlwaysSomeoneCanAct` | an open request has a step its approver may act on |
| | `DelegationsSucceed` | a delegated step has one successor, directly behind it |
| | `HistoryAccountsForSteps` | the history says who decided, skipped or closed each step (`NextKeepsTrail`: every action keeps that account) |
| | `ApprovedWithFiles` | a request is approved with its files, whoever may edit them, and loses one afterwards only to an ADMIN or HR |
| ApprovalSessionsProofs | `NoOverlapSelfApproves` | overlapping handlers never make the requester an approver |
| | `NoOverlapReopens` | overlapping handlers never reopen a step, remove one or change its approver |
| | `DecisionsTraceable` | nor leave a decided step without an entry by its own approver |
| | `UploadsBounded` | uploads exceed the limit of a slot by at most one per other handler, *if the contents of the template agree on the limit* |
| | `OneHandlerIsFlow` | *one handler at a time, and no edit that gives a template its first slots or takes its last*: loading, deciding and committing implements ApprovalFlow |
| LeaveProofs | `LedgerInvariant` | `LedgerSpec => []LInv`, the invariant behind the next ones |
| | `BooksAlwaysTyped` | `LedgerSpec => []BooksTyped` |
| | `BooksAlwaysAgree` | pending, used and reward days are those of the requests |
| | `NeverOverdrawn` | no year is overdrawn |
| | `SpendsOldestFirst` | rewards are spent in the order they were granted, after the years |
| | `RequestsTakeTheirDays` | a request that asks for no day of a corrected year holds exactly its days |
| | `WithoutCorrections` | *where nobody corrects used days*: every open or approved request does |
| | `OneHandlerImplementsLedger` | *one handler at a time*: two reads and a commit of columns implement LeaveLedger |
| | `HandlersBesideAccruals` | *a handler that neither accrues nor deletes, beside one that accrues*: the books agree, nothing is overdrawn, requests take their days |
| | `ColumnsAlwaysAgree` | *the same two, and nobody corrects used days*: `SessionsSpec => []ColumnsAgree` |
| NoteEditingProofs | `WritersAlone` | only pages in which something was typed write to the note |
| | `RestMeansSaved` | a page at rest shows what the server has, unless its chip says otherwise or a save was crossed |
| ScreensProofs | `WritesAreShown` | *if the list of writes that are not refreshed is complete*: an open page at rest shows what was written with it |
| | `ThingsAreMadeOnce` | *if the lists of repeatable and piecewise operations are complete*: what the user means to make is made once, but for a lost answer and the operations listed |
| WindowsProofs | `CleanMemoIsSaved` | an unmarked memo drawer at rest shows the memo of the server, unless a request failed or was crossed |
| | `BelievedReportIsSaved` | a weekly report its page believes saved is saved, unless requests overlapped or an answer was lost |
| | `DraftsStay` | no answer takes typed text from the screen, but for the two exceptions of `OnlyReapplyDiscards` |
| | `FoldsOpen` | *if the saved maps are forests*, and as long as no line is drawn by hand: what is folded away can be unfolded |
| | `AnswersStayApart` | one stream runs at a time and answers stand under their own questions, as long as nobody asks or resets between a last event and the end of its stream |

**The engine.** `WellFormed` says of the loop's local variables that the set `used` is
exactly the set of approvers of the chain so far, that the chain is well formed, and that whoever is about
to be appended is new; it holds whatever the chart does, because the rest of `resolve_approver` chooses
nobody excluded, whatever rows the walk has met (`CandidateChoice`; `ResolveStepIsChain` says the same of the definition). `EvaluatedIsChain`
needs an induction over the iterations. It is made with a least counterexample:
`LeastElement` (every nonempty set of naturals has a least element, from the
well-foundedness of `<`) applied to the set of iterations that violate the claim.
The same lemma shows that the recursive function in `ResolveAll` has a
solution (`ResolveAllEquation`) and that "the first rule" and "the first manager"
exist. In ApprovalEngine the inductive invariant says more as long as the chart stands
still (`Still`): the rows the session holds are the chart's (`HeldFresh`), the walk has met
the first employees of `ManagerChain` and, when it has ended, nobody is left above it up to
`MaxDepth` (`WalkTracks`), the running maxima are grades of chosen approvers and no chosen
approver is above them (`Grades`), and the chain is that of `EvaluateRules` up to the specification in hand
(`Tracks`). From these it is shown that the rows of a walk lead to the candidate that
`ResolveApprover` names (`CandidateIsResolved`) and that two numbers are enough to
recognise what some chosen approver covers (`MaximaAreEnough`); with them each statement of the loop is a step of the
definition or changes nothing in it. `GInv` adds what the two redundancy properties need. A
specification nobody could fill stays unfillable because excluding more people
leaves fewer candidates (`ResolverMonotone`).

**The workflow.** The inductive invariant `IInv` is the conjunction of `TypeOK`,
`StepsNumbered`, `DecidedInOrder`, `OutcomeMatchesSteps` and `NoSelfApproval`. None
of the middle three is inductive alone. A rejection skips only *later* pending
steps: that none is left needs that the rejected step was the first pending one,
which is a statement about numbers and needs them to be distinct. A delegation
renumbers: that the copy comes directly behind its original and nothing else
changes its order is `ShiftNumbers`, an arithmetical lemma about shifting the
numbers behind a position. An approval closes the request when nothing is
pending: that something was approved, and nothing rejected before, comes from
`OutcomeMatchesSteps` itself. There is one lemma per action (`...KeepsIInv`),
`NextKeepsIInv` joins them, and the theorems follow by PTL. The history has an invariant of
its own, `Trail`, which says of each step which entries are about it, and joins
`DelegationSuccession` to it: a delegation behind a delegation must find the first one's
successor where the renumbering has left it. `ApprovedHasFiles` speaks of steps, since an administrator may
delete a file of an approved request (approvals.py:1180): a request that was not short of
files becomes so by such a deletion and by nothing else. An approval checks the slots in
force, an upload only adds, the requester removes nothing from a closed request, and the edit of a template
does not reach a request that has a snapshot; the theorem holds for any `Editors`.

**The sessions.** The argument does not relate what a handler loaded to what the
database holds now, so it covers any overlap: `OutcomeContinues` says what a
handler makes of its own request (`Continues`: no step lost, no approver changed,
no status changed to PENDING), and `MergeContinues` that writing such differences
over any other request keeps the steps of that one. `NothingYet` is needed for the
creation of the request, which must not meet a handler at work. `DInv` does the same for
decisions: a request is `Traced` when its entries and its steps account for each other,
and a session is `Anchored` when the steps it loaded are still there with their approvers
and the step it decides is its own, so that its entry and its decision land together
whatever was committed between
(`MergeDecides`, `MergeTraced`). `UInv` counts the files that are there and those a
handler has already let in: together they are at most the limit plus the other handlers.
Its hypothesis is needed: where an administrator lowers the limit of a template, a draft
may have had more files all along.

**The refinement.** `OneHandlerIsFlow` maps the stored request to ApprovalFlow's and forgets
the sessions. `RInv` says that what the only handler loaded is still what is stored
(`Ready`), so that its commit writes exactly its outcome (`MergeAlone`: merging r's own
outcome into r gives that outcome), which is a step of `Flow!Next` with the guards the
handler tested when it loaded. The chart may have changed between: a submission uses the one it has
loaded, so the guards and effects of both modules are first shown to be the same
operators (`FlowGuards`, `FlowEffects`). A request without slots of its own reads the
template's at its load and again at its next load. The hypothesis `SlotsStay` therefore says that all contents of the
template have slots or none has, which is the default: then either the request has its snapshot or there is
nothing to read (`OwnSlots`). An administrator who gives a template its first slots between a
load and its commit is the case it leaves out.

**The leave books.** `LInv` is stated on a record of books, so that it also covers the books
halfway through an update, when one request has been refunded and not yet charged again
(`update_leave_request`). `Kept` are its parts: types, nothing charged beyond what exists
(`NothingBeyond`, `HeldExist`), and a part for each sum (`PendingKept`, `UsedKept`,
`RewardsKept`, `CoveredKept`). The sums are over a set of requests of any size. What a sum becomes when one
request changes is proved from the community modules' definition of the fold by taking
a smallest set that violates the law. `PlanIsFit` says what `build_allocation_plan`
returns: no more than is left in a year or a reward, in order, and all of what is
asked for where no year is negative. `MoveKeeps` then says once what any operation keeps
that takes a request from one allocation to another, and every handler is shown to be
such a move (`Sound`). `TakesWhatItNeeds` has the hypothesis that no year is
correctable, because a correction may set the used days above the granted ones. The plan then
takes a negative number of days (leave_allocation.py:133); the run has a correction
that does not. `RequestsTakeTheirDays` is what stays true with any correction.

**The leave sessions.** A session holds a state of the books, `snap`, that may be old. Two relations
say how old: `Since(snap, Books)`, the requests, the rewards and the used and reserved
days are those it has read, and what was granted has only grown; and
`SameGranted(snap, Books)`, nothing has been granted. An accrual needs only the second and
gives the first (`AccrueSince`); every other operation but the deletion of a balance needs
only the first and gives the second (`OthersGrantNothing`); a new balance or reward gives both
(`InsertSince`), and both are transitive (`SinceThen`). That is all the two overlapping
handlers must know of each other, and `BesideInv` says it: the books keep `LInv`, what the
request handler holds is `Since`, what the accrual holds is `SameGranted`, and each has
passed its guards on what it has read (`InSession`). `CommitIs` then says, operation by operation, that
writing the changed columns of an old state into the present books makes of them exactly
what the operation makes of the present books (`ChargeMerged`, `RefundMerged`,
`ApproveMerged`, `AccrueMerged`, `SetUsedMerged`, `PurgeMerged`, `RevokeMerged`), so that `CommitKeeps` can
use the lemmas of LeaveLedger. One thing differs: the plan of a request is older than
the balances it is charged to, so it need not be the plan of now. It is still covered
by them (`StillCovered`), and a covered plan keeps the books whoever made it
(`StalePlanKeeps`). With one handler (`AloneInv`) both relations hold, nothing but new balances and
rewards has come, and the plan *is* the plan of now: what was read of the years is the same,
and a plan that had enough rewards takes nothing from later ones (`PlanStable`). Hence every commit
is a step of `LedgerNext` (`CommitIsStep`). The hypotheses only say who runs. Two handlers of the
first kind do overdraw a year (`race_leave_overdraft`), and two accruals lose one.

**The note editors.** A page at rest is right because of what was true while it was not: `QInv`
says of every page that nothing has crossed that at most one save of it is on the
wire (`Clean`), that without one the cached note is the stored one or the chip says
"error", and that a mounted editor (`Open`) remembers what the server has and shows
what it remembers unless its timer runs; a save on the wire is its own (`Mine`). `TypeOK` adds
that documents contain exactly edits that have been made, so that an edit makes a
document nobody has seen (`EditIsNew`): without that, a new text could equal the
remembered one and start no timer. The run has one page; the theorem any number.

**The pages.** `WritesAreShown` says of an ordinary history that an entry which is not the
server's is still being written, asked for, or marked for the next visit (`UpToDate`).
It needs to know which writes a screen refreshes, which is data: its hypothesis
`UnrefreshedListed` says that every operation that writes what a query of the same page shows refreshes
it, sets it, leaves the page or is in the list `Unrefreshed`. It holds of the 299 screens (the
run would otherwise violate `OwnWritesShown`) and is not an assumption of the
module, so that a screen that forgets a key is found by the run and shown with a
behaviour. `ThingsAreMadeOnce` has a hypothesis of the same kind, `RepeatableListed`: of the operations with a
request that can make a thing twice, those that are not `Careful` (a button that is disabled until the
page knows, or a question before every press) are in `Repeatable`, and those of several requests in `Piecewise`. `Aims`
relates attempts: behind a careful button an aim is tried again only after all attempts at it have
failed. `Maker` relates a thing to the attempt that made it and says that the only request of an
operation was then done: it has failed after that only if its answer was lost. `Once` says that a thing the server
refuses, keeps or writes over is there once, whatever the page does.

**The chat.** `OneStreamAtATime` is not inductive: that an event goes to the right turn
(`applyEvent` takes the last one) needs that the question that still speaks is the last
one put (`SpeaksLast`), which in turn needs that what is running is what the controller
holds even when the flag is down (`Running \subseteq {abortRef}`: between the last
event and the end of the stream). `ChatInv` adds both and the types; `LastReplaced` is the
lemma about `replaceLast`, and there is one lemma per group of actions. A connection that is cut after
the last event (`Cut`) replaces a whole answer by an error, in its own turn.

**The other windows.** `MemoInv`: a save on the wire is the only one, carries the text on the
screen and finds the mark set, a fetch finds it down (`MemoOnWire`, `MemoFetched`), and a
closed drawer with the mark has its save on the wire (`MemoShown`): the fetch of the next opening
therefore crosses it or starts without the mark. `ReportInv`: page and server agree whenever no
request of the page has been served without being answered (`ReportCallAgrees`); the typed
part, which holds however requests overlap, carries that a served reapplication brings
the template, and `DraftsStay` needs no more. `MapInv`: every map the page has,
on the screen, in the two stacks or seen by a paste, is a forest (`Forests`), that is, its
nodes have a depth which grows along every line. A drop keeps it because the node takes its tree
down with it (`ForestsMoved`), and the folded node of least depth above a hidden one is
visible (`ForestUnfolds`). For that the walk must find all that is below a node, and nothing else:
`DescendantsClosed` (a round that finds nothing new is the end, and as many rounds as there
are nodes suffice, by counting) and `DescendantsLeast`, of any graph. The hypothesis
`SavedUndrawn` is the property's own exception carried to maps saved earlier: a cycle
drawn by hand and saved would be loaded again.

Every safety property that a passing run checks is stated by a theorem, but for `StuckOnlyAfterRace`,
which is model-checked for two handlers. Of the two refinements
the theorems speak of the modules, the runs of their instances in MCHandlers
(`ImplementsFlow`, `OneHandlerIsLedger`). Only model-checked, too, is every liveness property
(`EngineTerminates`, `InputComesBack`, `DraftIsSaved`, `ClosedIsSaved`, `EveryEditIsStored`, `Converges`). Two things are out of the prover's reach: liveness
under fairness, and inductions whose hypothesis is passed as an operator, which the
proofs replace by a least counterexample (the loop of the engine, the rounds of a walk) or a
smallest set (the sums of the leave books).

## 5. Seen while modelling

What follows is true of the code, and no run of its own is about it.

*Back end.* A year whose `used_days` exceed its `granted_days` gives a negative take
that enlarges the remainder (`services/leave_allocation.py:133`, against the docstring
at :119): one day costs two reward days; the instances keep `used_days` at what is
granted. Two overlapping submissions of one draft write the chain twice, and then, or after a step
was decided twice, two steps of one number are due: two approvals of them that do not see each other
leave the request IN_PROGRESS with no step pending: nobody can decide it any more, and its requester can only cancel it (the exception in `StuckOnlyAfterRace`). A request
submitted without slots acquires the slots its template is given later (`_slots_def`).
ADMIN and HR may add files to a closed request and delete them (`_can_modify_attachments`). Setting
`used_days` below what approved requests took lets a refund take it below zero. A
file is deleted before the commit that deletes its row (`approvals.py:1290`). The
history of a conversation lacks the last answer when the next question comes between
its `done` event and its storing; the rows of a question and its answer share
`created_at`, so that their order is not determined (`assistant.py:155`).

*Windows.* The body of a weekly report is set up again whenever the row changes while the saved
body is empty (the exception in `OnlyReapplyDiscards`); a reapplication does not stand when an
autosave was on the wire. With three requests on the wire the draft may stay unsaved until the
author types again (the exception `echoed` in `DraftIsSaved`): the last save is answered with the very
row that another answer has just brought, `lastSavedRef` moves without the row, and since a ref runs
no effect no timer is started. A chat whose connection is cut between the last event and the
end of the stream shows an error where a whole answer stood. A memo that is fetched replaces the text of a drawer, whatever was typed meanwhile. A
line drawn by hand may close a cycle in a mindmap, and then a fold hides nodes for
good (the exception in `CanUnfold`); deleting a folded node with the keyboard leaves
lines to nowhere, is not undoable and does not clear redo; a pasted image pushes the
snapshot from before its compression.

*Pages.* `MCUnrefreshed` lists what is not refreshed. Where a user can tell: saving in
the tax invoice dialog of a project leaves the project's totals, although its comment says otherwise;
statistics and charts of support cases and logs; the overview of a customer after his
activity drawer; the list of versions after an invoice or a quotation is made final;
the list of years of budget plans; the history after an administrator approves or rejects a leave; the list of payroll
runs after one is added; organisation chart and manager candidates after an employee changes; the primary worksite. Two are
deliberate (the attachments of a customer status, the preparation notes of a trip). Fetching announcements
or tax invoices anew does not refresh the one that is open.

`MCRepeatable` lists the operations that make a thing and can be pressed while they
do: buttons that nothing disables, and those that are enabled again between the success of the request and
the page they go to. `MCPiecewise` lists those with several requests: a row and then its
files (a bank account and its passbook, a loan, a support case, a patent) or one file after the other. When a later request fails, the user
is told that the whole has failed, presses again and has the row or the first files twice.
Where the server refuses a row of the same name (a customer), it is the other way round: the row is there, a
file of it is missing, and pressing again is refused because of the row. A test before
the insert helps only against what has been committed: employees assigned to a
worksite all at once are assigned twice when one is refused and the button is pressed again before the others are done. A bulk
deletion by `Promise.all` that fails for one row leaves the list as it was for all.

## 6. Not modelled

Of the modelled parts:

- The order of the writes inside one commit, and aborts by database deadlock when
  two sessions flush the same rows in opposite order: the outcome is one of
  the commit orders the model has, or `Abort`.
- Files on disk, which are written before and deleted ahead of the commit;
  notifications (after the commit, failures are logged), lists and downloads.
- More than one attachment slot, uploads without a slot, creation and deletion of
  templates, and requests other than one: no handler relates two requests.
- Which dates become how many days in which year (`split_days_by_year`), and
  which days an accrual, a catch-up or a transition adds: inputs of LeaveLedger.
  `update_leave_request` is an action of LeaveLedger, not of LeaveSessions.
- Of react-query: retries of queries, queries that fail, garbage collection, and what one
  page leaves in the cache for another within its 30 seconds. Layouts are
  places of their own. A row counts with all its parts, so that an entry of
  `MCUnrefreshed` says that a query may be stale, not that a user can tell.
- Deleting and renaming files of a weekly report are operations of its screen and not of WeeklyReport.

Parts without a model:

- *Mail synchronisation* is half the behaviour of an IMAP server (uids, UIDVALIDITY, flags
  of other clients) that the repository only relies on; its screens are modelled.
- *Jobs, alerts, campaigns, payroll, evaluations, goals*: their screens are modelled; their
  handlers are one transaction each around a table or a service. The hazards that they, and
  the synchronisation, have without a property are in `PROJECT.json`, with what goes wrong.
- *Exchange and stock rates, cloud figures, tax collections*: upserts of what an
  external service returns.
- *Tenants*: isolation is row-level security of the database; every module is about one tenant.
- *Notifications, storage, backup, the library shared with a mobile client*: I/O, or code whose other half
  is not in the repository.
