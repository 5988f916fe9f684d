----------------------------- MODULE MemoDrawer -----------------------------
(***************************************************************************)
(* The personal memo of the side drawer: the text area, the query that is  *)
(* fetched whenever the drawer opens, the mutation that saves the memo,    *)
(* and the keepalive requests sent when the window is hidden.  A memo is   *)
(* the set of the edits it contains, with the time of its last save.       *)
(***************************************************************************)
EXTENDS Naturals, FiniteSets

CONSTANTS MaxEdits, MaxCalls, MaxOpens,
          MaxSaves    \* saves that reach the server

VARIABLES stored,    \* the memo on the server
          data,      \* the memo in the query cache: a set of at most one
          content,   \* the text area
          dirty,     \* typed in since the last save or load
          open, opens,
          get,       \* the fetch under way: a set of at most one answer or "sent"
          calls,     \* PATCH requests on the wire
          typed,     \* edits so far (history)
          crossed,   \* requests overlapped, or something was typed during one
          failed     \* a request failed (history)

vars == <<stored, data, content, dirty, open, opens, get, calls, typed, crossed, failed>>

Sent == [state |-> "sent"]
NoMemo == [text |-> {}, at |-> 0]

Init ==
  /\ stored = NoMemo /\ data = {} /\ content = {} /\ dirty = FALSE
  /\ open = FALSE /\ opens = 0 /\ get = {} /\ calls = {}
  /\ typed = 0 /\ crossed = FALSE /\ failed = FALSE

Busy == calls # {} \/ get # {}

\* The effect on data: a new memo replaces the text and clears dirty, an equal
\* one is the same object and does nothing.
Show(memo, cleaned) ==
  /\ data' = {memo}
  /\ IF data = {memo} THEN content' = content /\ dirty' = (dirty /\ ~cleaned)
     ELSE content' = memo.text /\ dirty' = FALSE

---------------------------------------------------------------------------
\* Mutated form of Edit: the change is not marked.
EditUnmarked ==
  /\ open /\ typed < MaxEdits
  /\ typed' = typed + 1
  /\ content' = content \union {typed'}
  /\ crossed' = (crossed \/ Busy)
  /\ UNCHANGED <<stored, data, dirty, open, opens, get, calls, failed>>

Edit ==
  /\ open /\ typed < MaxEdits
  /\ typed' = typed + 1
  /\ content' = content \union {typed'}
  /\ dirty' = TRUE
  /\ crossed' = (crossed \/ Busy)
  /\ UNCHANGED <<stored, data, open, opens, get, calls, failed>>

\* The fetch of a drawer that opens; one that is under way is not repeated.
OpenDrawer ==
  /\ ~open /\ opens < MaxOpens
  /\ open' = TRUE /\ opens' = opens + 1
  /\ get' = IF get = {} THEN {Sent} ELSE get
  /\ crossed' = (crossed \/ calls # {})
  /\ UNCHANGED <<stored, data, content, dirty, calls, typed, failed>>

\* mutateAsync, or fetch with keepalive whose answer nobody reads.
Patch(heard) ==
  /\ dirty
  /\ Cardinality(calls) < MaxCalls /\ stored.at + Cardinality(calls) < MaxSaves
  /\ calls' = calls \union {[text |-> content, heard |-> heard, state |-> "sent",
                             memo |-> NoMemo,
                             nr |-> CHOOSE n \in 1 .. MaxCalls : \A m \in calls : m.nr # n]}
  /\ crossed' = (crossed \/ Busy)

\* Mutated form of CloseDrawer: it closes without the flush.
CloseDrawerOnly ==
  /\ open /\ open' = FALSE
  /\ UNCHANGED <<stored, data, content, dirty, opens, get, calls, typed, crossed, failed>>

\* Esc, the cross and Ctrl+M all end in the effect that flushes.
CloseDrawer ==
  /\ open /\ open' = FALSE
  /\ \/ Patch(TRUE)
     \/ ~dirty /\ UNCHANGED <<calls, crossed>>
  /\ UNCHANGED <<stored, data, content, dirty, opens, get, typed, failed>>

\* Ctrl+S; the button is disabled while a save is pending, the shortcut is not.
Flush ==
  /\ open /\ Patch(TRUE)
  /\ UNCHANGED <<stored, data, content, dirty, open, opens, get, typed, failed>>

\* The tab is hidden and comes back: dirty stays.
Hide ==
  /\ open /\ Patch(FALSE)
  /\ UNCHANGED <<stored, data, content, dirty, open, opens, get, typed, failed>>

---------------------------------------------------------------------------
ServeGet ==
  /\ get = {Sent}
  /\ get' = {[state |-> "served", memo |-> stored]}
  /\ UNCHANGED <<stored, data, content, dirty, open, opens, calls, typed, crossed, failed>>

TakeGet ==
  \E g \in get : /\ g.state = "served"
                 /\ get' = {}
                 /\ Show(g.memo, FALSE)
                 /\ UNCHANGED <<stored, open, opens, calls, typed, crossed, failed>>

ServePatch(m) ==
  /\ m.state = "sent"
  /\ stored' = [text |-> m.text, at |-> stored.at + 1]
  /\ calls' = (calls \ {m}) \union {[m EXCEPT !.state = "done", !.memo = stored']}
  /\ UNCHANGED <<data, content, dirty, open, opens, get, typed, crossed, failed>>

Fail(m) ==
  /\ m.state \in {"sent", "done"}
  /\ calls' = (calls \ {m}) \union {[m EXCEPT !.state = "failed"]}
  /\ failed' = TRUE
  /\ UNCHANGED <<stored, data, content, dirty, open, opens, get, typed, crossed>>

Answer(m) ==
  /\ m.state \in {"done", "failed"}
  /\ calls' = calls \ {m}
  /\ IF m.state = "done" /\ m.heard THEN Show(m.memo, TRUE)
     ELSE UNCHANGED <<data, content, dirty>>
  /\ UNCHANGED <<stored, open, opens, get, typed, crossed, failed>>

Next ==
  \/ Edit \/ OpenDrawer \/ CloseDrawer \/ Flush \/ Hide
  \/ ServeGet \/ TakeGet
  \/ \E m \in calls : ServePatch(m) \/ Fail(m) \/ Answer(m)

Fairness == WF_vars(ServeGet \/ TakeGet)
            /\ WF_vars(\E m \in calls : ServePatch(m) \/ Answer(m))

Spec == Init /\ [][Next]_vars /\ Fairness

---------------------------------------------------------------------------
(***************************************************************************)
(* Properties.                                                             *)
(***************************************************************************)

\* A drawer at rest that does not say "modified" shows the memo of the server,
\* and nothing typed is gone from both - as long as no request failed, no two
\* overlapped, and nothing was typed while one was under way.
CleanMeansSaved ==
  ~Busy /\ ~crossed /\ ~failed =>
    /\ ~dirty /\ data # {} => content = stored.text
    /\ 1 .. typed \subseteq content \union stored.text

\* What is in a drawer that was closed reaches the server without a click,
\* unless the drawer is opened again or a request failed or overlapped.
ClosedIsSaved ==
  (~open /\ dirty) ~> (open \/ failed \/ crossed \/ content = stored.text)

=============================================================================
