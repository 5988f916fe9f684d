---------------------------- MODULE WeeklyReport ----------------------------
(***************************************************************************)
(* The page of one weekly report: the draft its author types, the row the  *)
(* page has cached, the timer that saves the draft, and the operations     *)
(* whose answers each carry the whole row and replace the cached one -     *)
(* save, submit, reopen, reapply the template, upload.  Requests of the    *)
(* page may be served, and their answers arrive, in any order.             *)
(* A body is the set of edits it contains; Template is one of them.        *)
(***************************************************************************)
EXTENDS Naturals, FiniteSets

CONSTANTS Bodies,     \* bodies a report may have when the page loads
          MaxEdits,   \* edits the author makes
          MaxOps,     \* submissions, reopenings, reapplications and uploads
          MaxActs,    \* both together
          MaxCalls,   \* requests on the wire at a time
          Failing     \* whether a request may fail: one does, at most

Template == 0

VARIABLES report,     \* the row on the server
          row,        \* the row the page has cached
          draft,      \* what the editor shows
          lastSaved,  \* the body the page believes is saved
          timer,      \* the five seconds of the autosave effect are running
          calls,      \* requests on the wire
          typed, ops, \* edits and operations so far (history)
          crossed,    \* requests overlapped, or an answer was lost (history)
          failed,     \* a request failed (history)
          echoed      \* lastSaved moved with the row the page had already, the timer off,
                      \* and no effect has run since (history)

vars == <<report, row, draft, lastSaved, timer, calls, typed, ops, crossed, failed, echoed>>

\* updated_at is a revision: two rows are equal only if nothing was written between.
NewReport(body) == [body |-> body, status |-> "DRAFT", files |-> 0, rev |-> 0]

\* The first render has the row, or the first row change brings it.
Init ==
  /\ \E body \in Bodies : /\ report = NewReport(body) /\ row = report
                          /\ draft = body /\ lastSaved = body
  /\ timer = FALSE /\ calls = {}
  /\ typed = 0 /\ ops = 0 /\ crossed = FALSE /\ failed = FALSE /\ echoed = FALSE

---------------------------------------------------------------------------
(***************************************************************************)
(* The two effects.                                                        *)
(***************************************************************************)

\* Mutated form of Prepared: the body is set up again whenever the row changes.
PreparedAlways(d, saved, r) == r.body

\* "Initial setup of the body": whenever the row changes while the last saved
\* body is the empty one.
Prepared(d, saved, r) == IF saved = {} THEN r.body ELSE d

\* A new row in the cache, with what the handler puts in draft and lastSaved.
\* An equal row is the same object, and no effect runs.
Show(r, d, saved) ==
  /\ row' = r
  /\ IF r = row
     THEN /\ draft' = d /\ lastSaved' = saved
          /\ timer' = (IF d = draft THEN timer ELSE d # saved)
          /\ echoed' = (d = draft /\ (echoed \/ (~timer /\ saved # lastSaved)))
     ELSE /\ draft' = Prepared(d, saved, r)
          /\ lastSaved' = IF saved = {} THEN r.body ELSE saved
          /\ timer' = (draft' # lastSaved')
          /\ echoed' = FALSE

---------------------------------------------------------------------------
(***************************************************************************)
(* What the author does.                                                   *)
(***************************************************************************)

\* Mutated form of Edit: the effect does not depend on the draft.
EditUntimed ==
  /\ typed < MaxEdits /\ typed + ops < MaxActs
  /\ typed' = typed + 1
  /\ draft' = draft \union {typed'}
  /\ UNCHANGED <<report, row, lastSaved, timer, calls, ops, crossed, failed, echoed>>

\* Typing, or inserting the body of an earlier report.
Edit ==
  /\ typed < MaxEdits /\ typed + ops < MaxActs
  /\ typed' = typed + 1
  /\ draft' = draft \union {typed'}
  /\ timer' = TRUE /\ echoed' = FALSE
  /\ UNCHANGED <<report, row, lastSaved, calls, ops, crossed, failed>>

\* isPending of a mutation: its latest request is on the wire.
Pending(op) == \E m \in calls : m.op = op /\ m.latest

\* A request that is not answered yet carries no row; nr tells equal requests apart.
NoRow == NewReport({})

Call(op, body) ==
  /\ Cardinality(calls) < MaxCalls
  /\ calls' = {[m EXCEPT !.latest = @ /\ m.op # op] : m \in calls}
                \union {[op |-> op, body |-> body, latest |-> TRUE, state |-> "sent",
                         row |-> NoRow,
                         nr |-> CHOOSE n \in 1 .. MaxCalls :
                                  \A m \in calls : m.op = op /\ m.body = body => m.nr # n]}
  /\ crossed' = (crossed \/ calls # {})

Autosave ==
  /\ timer
  /\ timer' = FALSE
  /\ Call("save", draft)
  /\ UNCHANGED <<report, row, draft, lastSaved, typed, ops, failed, echoed>>

\* The button; the timer that is running stays.
SaveNow ==
  /\ ~Pending("save") /\ draft # lastSaved
  /\ Call("save", draft)
  /\ UNCHANGED <<report, row, draft, lastSaved, timer, typed, ops, failed, echoed>>

Operation(op) ==
  /\ ops < MaxOps /\ typed + ops < MaxActs
  /\ ops' = ops + 1
  /\ Call(op, {})
  /\ UNCHANGED <<report, row, draft, lastSaved, timer, typed, failed, echoed>>

\* None of these sends the draft first.
Submit == row.status = "DRAFT" /\ ~Pending("submit") /\ ~Pending("reopen") /\ Operation("submit")
Reopen == row.status = "SUBMITTED" /\ ~Pending("submit") /\ ~Pending("reopen")
            /\ Operation("reopen")
Reapply == row.status = "DRAFT" /\ ~Pending("reapply") /\ Operation("reapply")
Upload == ~Pending("upload") /\ Operation("upload")

---------------------------------------------------------------------------
(***************************************************************************)
(* The server, and the answers.                                            *)
(***************************************************************************)

Refused(m) == m.op = "reapply" /\ report.status # "DRAFT"

Written(m) ==
  CASE m.op = "save"    -> [report EXCEPT !.body = m.body]
    [] m.op = "submit"  -> [report EXCEPT !.status = "SUBMITTED"]
    [] m.op = "reopen"  -> [report EXCEPT !.status = "DRAFT"]
    [] m.op = "reapply" -> IF Refused(m) THEN report ELSE [report EXCEPT !.body = {Template}]
    [] m.op = "upload"  -> [report EXCEPT !.files = @ + 1]

Serve(m) ==
  /\ m.state = "sent"
  /\ report' = IF Written(m) = report THEN report ELSE [Written(m) EXCEPT !.rev = @ + 1]
  /\ calls' = (calls \ {m}) \union
              {[m EXCEPT !.state = IF Refused(m) THEN "failed" ELSE "done", !.row = IF Refused(m) THEN NoRow ELSE report']}
  /\ UNCHANGED <<row, draft, lastSaved, timer, typed, ops, crossed, failed, echoed>>

\* A request is refused or lost, or its answer is.
Fail(m) ==
  /\ Failing /\ ~failed
  /\ m.state \in {"sent", "done"}
  /\ calls' = (calls \ {m}) \union {[m EXCEPT !.state = "failed", !.row = NoRow]}
  /\ failed' = TRUE
  /\ crossed' = (crossed \/ m.state = "done")
  /\ UNCHANGED <<report, row, draft, lastSaved, timer, typed, ops, echoed>>

\* Mutated form of Success: a save believes the draft saved, not what was sent.
SuccessBelieving(m) ==
  CASE m.op = "save"    -> Show(m.row, draft, draft)
    [] m.op = "reapply" -> Show(m.row, m.row.body, m.row.body)
    [] OTHER            -> Show(m.row, draft, lastSaved)

\* The handlers of a success: a save moves lastSaved, a reapplication the draft too.
Success(m) ==
  CASE m.op = "save"    -> Show(m.row, draft, m.row.body)
    [] m.op = "reapply" -> Show(m.row, m.row.body, m.row.body)
    [] OTHER            -> Show(m.row, draft, lastSaved)

Answer(m) ==
  /\ m.state \in {"done", "failed"}
  /\ calls' = calls \ {m}
  /\ \/ m.state = "done" /\ Success(m)
     \/ m.state = "failed" /\ UNCHANGED <<row, draft, lastSaved, timer, echoed>>
  /\ UNCHANGED <<report, typed, ops, crossed, failed>>

Next ==
  \/ Edit \/ Autosave \/ SaveNow
  \/ Submit \/ Reopen \/ Reapply \/ Upload
  \/ \E m \in calls : Serve(m) \/ Fail(m) \/ Answer(m)

\* The timer runs out and requests are answered; the author owes nothing.
Fairness == WF_vars(Autosave) /\ WF_vars(\E m \in calls : Serve(m) \/ Answer(m))

Spec == Init /\ [][Next]_vars /\ Fairness

---------------------------------------------------------------------------
(***************************************************************************)
(* Properties.                                                             *)
(***************************************************************************)

\* The screen loses what was typed only when the template is reapplied, or when
\* the row changes in a report whose saved body is empty.
KeepsDraft ==
  ~(draft \subseteq draft') => draft' = {Template} \/ {} \in {lastSaved, lastSaved'}

OnlyReapplyDiscards == [][KeepsDraft]_vars

\* A page at rest that believes its draft is saved is right, submissions and
\* uploads in between or not, unless two of its requests overlapped or an answer
\* was lost.
BelievedIsSaved ==
  calls = {} /\ draft = lastSaved /\ ~crossed => report.body = draft /\ row = report

\* A page that stays open saves what it shows: whatever is answered in whatever
\* order, the draft and the body the page believes saved come together, unless a
\* request failed (a failed save is not tried again until something changes) or
\* the last save was answered with the very row another answer had just brought:
\* the row does not change, lastSaved moves, it is a ref, and no effect starts the
\* timer.  That takes three requests on the wire, and lasts until the author
\* types or the row changes.
DraftIsSaved == draft # lastSaved ~> (draft = lastSaved \/ failed \/ echoed)

=============================================================================
