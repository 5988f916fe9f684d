---------------------------- MODULE NoteEditing ----------------------------
(***************************************************************************)
(* A meeting note edited in browsers: the page with its cached copy of the *)
(* note (the query "meeting-note"), the editor of the open tab with its    *)
(* timer of five seconds, the PATCH and GET requests on the wire, and the  *)
(* column of the row the server keeps.  The three kinds of editor differ   *)
(* in when they start their timer, in what they remember of the last save, *)
(* and in what they leave behind when the tab is switched.                 *)
(*                                                                         *)
(* A document is the set of the edits it contains, so that what a save     *)
(* overwrites can be seen.  Requests of one page run on connections of     *)
(* their own: the server may take them in any order.                       *)
(***************************************************************************)
EXTENDS Naturals, FiniteSets

CONSTANTS Clients,    \* pages open on the note
          Kinds,      \* subset of {"body", "mindmap", "drawio"}
          MaxEdits,   \* edits each client makes
          MaxCalls,   \* requests on the wire at a time
          MaxGets,    \* refetches of the note
          MaxCloses,  \* windows closed and opened again
          Failing     \* whether requests may fail

ASSUME NoteAssumption == /\ Kinds \subseteq {"body", "mindmap", "drawio"}
                         /\ {MaxEdits, MaxCalls, MaxGets, MaxCloses} \subseteq Nat
                         /\ Failing \in BOOLEAN

VARIABLES kind,      \* which of the three tabs this behaviour is about
          stored,    \* the column on the server
          page,      \* client -> cached note, status chip, refetch under way
          editor,    \* client -> the mounted editor of the tab, if any
          orphans,   \* timers of unmounted drawio editors
          calls,     \* PATCH requests on the wire
          typed,     \* client -> number of edits made so far (history)
          crossed    \* client -> a save overlapped another save, a mount or a
                     \* refetch of the same page, or another client's save (history)

vars == <<kind, stored, page, editor, orphans, calls, typed, crossed>>

Edits == Clients \X (1 .. MaxEdits)

\* "marker" and "dirty" are refs that may be null: a set of at most one document.
Unmounted == [shown |-> FALSE, text |-> {}, marker |-> {}, dirty |-> {}, timer |-> FALSE]

FreshPage(doc) == [note |-> doc, saving |-> "idle", get |-> "none", got |-> {},
                   gets |-> 0, closes |-> 0]

Own(c) == {m \in calls : m.client = c}

\* A save that has not ended: on the wire, or a timer an editor left behind.
Unfinished(c) == Own(c) # {} \/ \E o \in orphans : o.client = c

Init ==
  /\ kind \in Kinds
  /\ stored = {}
  /\ page = [c \in Clients |-> FreshPage({})]
  /\ editor = [c \in Clients |-> Unmounted]
  /\ orphans = {} /\ calls = {}
  /\ typed = [c \in Clients |-> 0]
  /\ crossed = [c \in Clients |-> FALSE]

---------------------------------------------------------------------------
(***************************************************************************)
(* The editors.                                                            *)
(***************************************************************************)

\* Mutated form of Mounted: the body editor forgets that the text it is given is saved.
MountedUnmarked(doc) ==
  [shown |-> TRUE, text |-> doc, marker |-> {}, dirty |-> {}, timer |-> kind = "mindmap"]

\* The state of an editor that mounts on the cached document: the mindmap
\* remembers no save and starts its timer at once.
Mounted(doc) ==
  [shown |-> TRUE, text |-> doc, marker |-> IF kind = "mindmap" THEN {} ELSE {doc},
   dirty |-> {}, timer |-> kind = "mindmap"]

OpenTab(c) ==
  /\ ~editor[c].shown
  /\ editor' = [editor EXCEPT ![c] = Mounted(page[c].note)]
  /\ crossed' = [crossed EXCEPT ![c] = @ \/ Unfinished(c)]
  /\ UNCHANGED <<kind, stored, page, orphans, calls, typed>>

\* The requests of c outlive its editor; their answers no longer reach its refs.
Disown(c) == {[m EXCEPT !.live = @ /\ m.client # c] : m \in calls}

\* Switching the tab saves nothing: body and mindmap clear their timer, a
\* drawio editor leaves it running.
LeaveTab(c) ==
  /\ editor[c].shown
  /\ editor' = [editor EXCEPT ![c] = Unmounted]
  /\ calls' = Disown(c)
  /\ orphans' = IF kind = "drawio" /\ editor[c].timer
                THEN orphans \union {[client |-> c, dirty |-> editor[c].dirty,
                                      marker |-> editor[c].marker]}
                ELSE orphans
  /\ UNCHANGED <<kind, stored, page, typed, crossed>>

\* Mutated form of Typed: a change that does not restart the timer.
TypedUntimed(e, doc) == [e EXCEPT !.text = doc, !.dirty = IF kind = "drawio" THEN {doc} ELSE {}]

Typed(e, doc) ==
  [e EXCEPT !.text = doc, !.timer = TRUE,
            !.dirty = IF kind = "drawio" THEN {doc} ELSE {}]

Edit(c) ==
  /\ editor[c].shown
  /\ typed[c] < MaxEdits
  /\ typed' = [typed EXCEPT ![c] = @ + 1]
  /\ editor' = [editor EXCEPT ![c] = Typed(@, @.text \union {<<c, typed'[c]>>})]
  /\ UNCHANGED <<kind, stored, page, orphans, calls, crossed>>

---------------------------------------------------------------------------
(***************************************************************************)
(* Saving.                                                                 *)
(***************************************************************************)

\* What flush finds to send: nothing when the document is the one it remembers.
ToSend(e) == (IF kind = "drawio" THEN e.dirty ELSE {e.text}) \ e.marker

Request(c, doc, live, gone) ==
  [client |-> c, doc |-> doc, live |-> live, gone |-> gone, state |-> "sent",
   nr |-> CHOOSE n \in 1 .. MaxCalls + 1 : \A m \in calls : m.nr # n]

\* onSaveBody, onSaveMindmap, onSaveDrawio up to their await.
Send(c, doc, live) ==
  /\ Cardinality(calls) < MaxCalls
  /\ calls' = calls \union {Request(c, doc, live, FALSE)}
  /\ page' = [page EXCEPT ![c].saving = "saving"]
  /\ crossed' = [crossed EXCEPT ![c] = @ \/ Own(c) # {} \/ page[c].get # "none"]

\* The text and mindmap editors remember the document before they send it, a
\* drawio editor when its request has returned.
Remembered(e, doc) == IF kind = "drawio" THEN [e EXCEPT !.timer = FALSE]
                      ELSE [e EXCEPT !.timer = FALSE, !.marker = {doc}]

Save(c) ==
  \/ /\ ToSend(editor[c]) = {}
     /\ editor' = [editor EXCEPT ![c].timer = FALSE]
     /\ UNCHANGED <<page, calls, crossed>>
  \/ \E doc \in ToSend(editor[c]) :
       /\ Send(c, doc, TRUE)
       /\ editor' = [editor EXCEPT ![c] = Remembered(@, doc)]

Fire(c) ==
  /\ editor[c].timer
  /\ Save(c)
  /\ UNCHANGED <<kind, stored, orphans, typed>>

\* The save button, disabled while the chip says "saving".  (The PDF and mail
\* buttons flush the body too, whatever the chip says.)
ClickSave(c) ==
  /\ editor[c].shown
  /\ page[c].saving # "saving" \/ kind = "body"
  /\ Save(c)
  /\ UNCHANGED <<kind, stored, orphans, typed>>

\* The timer of an unmounted drawio editor.
FireOrphan ==
  \E o \in orphans :
    /\ orphans' = orphans \ {o}
    /\ \/ o.dirty \subseteq o.marker /\ UNCHANGED <<page, calls, crossed>>
       \/ \E doc \in o.dirty \ o.marker : Send(o.client, doc, FALSE)
    /\ UNCHANGED <<kind, stored, editor, typed>>

---------------------------------------------------------------------------
(***************************************************************************)
(* The wire.                                                               *)
(***************************************************************************)

Land(m) ==
  /\ m.state = "sent"
  /\ stored' = m.doc
  /\ calls' = (calls \ {m}) \union {[m EXCEPT !.state = "done"]}
  /\ crossed' = [c \in Clients |-> crossed[c] \/ c # m.client]
  /\ UNCHANGED <<kind, page, editor, orphans, typed>>

\* A request is refused or lost, or its answer is.
Fail(m) ==
  /\ Failing
  /\ m.state \in {"sent", "done"}
  /\ calls' = (calls \ {m}) \union {[m EXCEPT !.state = "failed"]}
  /\ UNCHANGED <<kind, stored, page, editor, orphans, typed, crossed>>

\* Mutated form of Answered: the cached note is left to the next refetch.
AnsweredUncached(p, m) == [p EXCEPT !.saving = IF m.state = "done" THEN "saved" ELSE "error"]

\* The page swallows a failure: the promise the editor waits for resolves.
Answered(p, m) == IF m.state = "done" THEN [p EXCEPT !.saving = "saved", !.note = m.doc]
                  ELSE [p EXCEPT !.saving = "error"]

Answer(m) ==
  /\ m.state \in {"done", "failed"}
  /\ calls' = calls \ {m}
  /\ page' = IF m.gone THEN page ELSE [page EXCEPT ![m.client] = Answered(@, m)]
  /\ editor' = IF kind = "drawio" /\ m.live
               THEN [editor EXCEPT ![m.client].marker = {m.doc}] ELSE editor
  /\ UNCHANGED <<kind, stored, orphans, typed, crossed>>

\* Metadata, shares, attachments, action items: their mutations invalidate the
\* note, and the refetch replaces one that is under way.
Refetch(c) ==
  /\ page[c].gets < MaxGets
  /\ page' = [page EXCEPT ![c].get = "sent", ![c].gets = @ + 1]
  /\ crossed' = [crossed EXCEPT ![c] = @ \/ Own(c) # {}]
  /\ UNCHANGED <<kind, stored, editor, orphans, calls, typed>>

ServeGet(c) ==
  /\ page[c].get = "sent"
  /\ page' = [page EXCEPT ![c].get = "served", ![c].got = stored]
  /\ UNCHANGED <<kind, stored, editor, orphans, calls, typed, crossed>>

TakeGet(c) ==
  /\ page[c].get = "served"
  /\ page' = [page EXCEPT ![c].get = "none", ![c].note = page[c].got, ![c].got = {}]
  /\ UNCHANGED <<kind, stored, editor, orphans, calls, typed, crossed>>

\* The window is closed and the note opened anew; what is on the wire stays
\* there.  beforeunload lets a drawio editor send what is dirty.
CloseWindow(c) ==
  /\ page[c].closes < MaxCloses
  /\ LET flushed == IF kind = "drawio" /\ editor[c].shown THEN ToSend(editor[c]) ELSE {}
     IN  calls' = {[m EXCEPT !.gone = @ \/ m.client = c, !.live = @ /\ m.client # c]
                    : m \in calls}
                  \union {Request(c, doc, FALSE, TRUE) : doc \in flushed}
  /\ Cardinality(calls') <= MaxCalls
  /\ orphans' = {o \in orphans : o.client # c}
  /\ editor' = [editor EXCEPT ![c] = Unmounted]
  /\ page' = [page EXCEPT ![c] = [FreshPage(stored) EXCEPT !.gets = page[c].gets,
                                                           !.closes = page[c].closes + 1]]
  /\ crossed' = [crossed EXCEPT ![c] = \E m \in calls' : m.client = c]
  /\ UNCHANGED <<kind, stored, typed>>

Next ==
  \/ \E c \in Clients : \/ OpenTab(c) \/ LeaveTab(c) \/ Edit(c)
                        \/ Fire(c) \/ ClickSave(c)
                        \/ Refetch(c) \/ ServeGet(c) \/ TakeGet(c)
                        \/ CloseWindow(c)
  \/ FireOrphan
  \/ \E m \in calls : Land(m) \/ Fail(m) \/ Answer(m)

\* Timers run out and requests are answered; nobody has to type, click or switch.
Fairness ==
  /\ \A c \in Clients : WF_vars(Fire(c))
  /\ WF_vars(FireOrphan)
  /\ WF_vars(\E m \in calls : Land(m) \/ Answer(m))

Spec == Init /\ [][Next]_vars /\ Fairness

---------------------------------------------------------------------------
(***************************************************************************)
(* Properties.                                                             *)
(***************************************************************************)

\* Looking at a note, switching its tabs and pressing save write nothing: a
\* request comes from a page in which something was typed.  (The mindmap is
\* saved five seconds after it is opened, typed in or not.)
OnlyWritersWrite == kind # "mindmap" => \A m \in calls : typed[m.client] > 0

Quiet(c) == /\ editor[c].shown /\ ~editor[c].timer
            /\ Own(c) = {} /\ page[c].get = "none"
            /\ \A o \in orphans : o.client # c

\* When a page is at rest and its chip does not say "error", the server has
\* what the editor shows, and the next mount will show it too - unless a save
\* overlapped another save, a mount, a refetch, or another client's save: these
\* four are all the ways in which an autosave is lost without a message.
QuietMeansSaved ==
  \A c \in Clients :
    Quiet(c) /\ ~crossed[c] /\ page[c].saving # "error"
      => stored = editor[c].text /\ page[c].note = stored

\* What is typed and left on the screen reaches the server without a click,
\* unless the chip says "error" or a save was crossed: the timer that a change
\* starts is not lost to later changes, clicks, answers or mounts.
EveryEditIsStored ==
  \A c \in Clients : \A e \in Edits :
    (editor[c].shown /\ e \in editor[c].text)
      ~> (~editor[c].shown \/ e \in stored \/ page[c].saving = "error" \/ crossed[c])

\* The editors hand the page a function that saves at once, "for Ctrl+S, the
\* save button, the switching of the tab" (MeetingNoteEditor.tsx:34): no editor
\* is unmounted with a document that is neither sent nor stored.
FlushedOnSwitch ==
  [][\A c \in Clients : editor[c].shown /\ ~editor'[c].shown
       => \A doc \in ToSend(editor[c]) : doc = stored \/ \E m \in calls' : m.doc = doc]_vars

=============================================================================
