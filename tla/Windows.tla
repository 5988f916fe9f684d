------------------------------ MODULE Windows ------------------------------
(***************************************************************************)
(* The smaller windows of the web client, one at a time: each behaviour is *)
(* that of one of them, and the others, which share nothing with it, stay  *)
(* as they started.  (NoteEditing has a run of its own.)  The chat is here *)
(* under its own names, the others are instances.                          *)
(***************************************************************************)
EXTENDS AssistantChat

CONSTANTS
  Bodies, MaxReportEdits, MaxReportOps, MaxReportActs,            \* of the weekly report
  MaxReportCalls, Failing,
  MaxMemoEdits, MaxMemoCalls, MaxMemoOpens, MaxMemoSaves,         \* of the memo
  MaxNodes, MaxPast, MaxSteps, Saved                              \* of the mindmap

\* The nodes of a saved map are numbered, its lines are between them, and what is
\* folded is one of them.
ASSUME WindowsAssumption ==
  /\ MaxNodes \in Nat \ {0}
  /\ \A m \in Saved :
       /\ m = [nodes |-> m.nodes, edges |-> m.edges, shut |-> m.shut]
       /\ Cardinality(m.nodes) \in 0 .. MaxNodes
       /\ m.nodes = 1 .. Cardinality(m.nodes)
       /\ m.edges \subseteq m.nodes \X m.nodes /\ m.shut \subseteq m.nodes

VARIABLE which   \* the window this behaviour is about

VARIABLES reportReport, reportRow, reportDraft, reportLastSaved, reportTimer, reportCalls,
          reportTyped, reportOps, reportCrossed, reportFailed, reportEchoed
reportVars == <<reportReport, reportRow, reportDraft, reportLastSaved, reportTimer, reportCalls,
            reportTyped, reportOps, reportCrossed, reportFailed, reportEchoed>>
R == INSTANCE WeeklyReport WITH
  MaxEdits <- MaxReportEdits, MaxOps <- MaxReportOps, MaxActs <- MaxReportActs,
  MaxCalls <- MaxReportCalls,
  report <- reportReport, row <- reportRow, draft <- reportDraft, lastSaved <-
  reportLastSaved, timer <- reportTimer, calls <- reportCalls, typed <- reportTyped, ops <-
  reportOps, crossed <- reportCrossed, failed <- reportFailed,
  echoed <- reportEchoed

VARIABLES memoStored, memoData, memoContent, memoDirty, memoOpen, memoOpens, memoGet, memoCalls,
          memoTyped, memoCrossed, memoFailed
memoVars == <<memoStored, memoData, memoContent, memoDirty, memoOpen, memoOpens, memoGet,
            memoCalls, memoTyped, memoCrossed, memoFailed>>
M == INSTANCE MemoDrawer WITH
  MaxEdits <- MaxMemoEdits, MaxCalls <- MaxMemoCalls, MaxOpens <- MaxMemoOpens,
  MaxSaves <- MaxMemoSaves,
  stored <- memoStored, data <- memoData, content <- memoContent, dirty <- memoDirty, open <-
  memoOpen, opens <- memoOpens, get <- memoGet, calls <- memoCalls, typed <- memoTyped,
  crossed <- memoCrossed, failed <- memoFailed

VARIABLES mapMap, mapPast, mapFuture, mapImage, mapMade, mapDrawn, mapSteps
mapVars == <<mapMap, mapPast, mapFuture, mapImage, mapMade, mapDrawn, mapSteps>>
G == INSTANCE Mindmap WITH
  map <- mapMap, past <- mapPast, future <- mapFuture, image <- mapImage, made <- mapMade,
  drawn <- mapDrawn, steps <- mapSteps

wVars == <<which, reportVars, memoVars, vars, mapVars>>

\* The windows that a behaviour is not about have one initial state.
WindowsInit ==
  /\ which \in {"report", "memo", "chat", "map"}
  /\ R!Init /\ (which # "report" => reportDraft = CHOOSE body \in Bodies : TRUE)
  /\ M!Init
  /\ Init
  /\ G!Init /\ (which # "map" => mapMap = CHOOSE m \in Saved : TRUE)

WindowsNext ==
  \/ which = "report" /\ R!Next /\ UNCHANGED <<which, memoVars, vars, mapVars>>
  \/ which = "memo" /\ M!Next /\ UNCHANGED <<which, reportVars, vars, mapVars>>
  \/ which = "chat" /\ Next /\ UNCHANGED <<which, reportVars, memoVars, mapVars>>
  \/ which = "map" /\ G!Next /\ UNCHANGED <<which, reportVars, memoVars, vars>>

\* In the state it starts in, a window owes nothing to fairness.
WindowsSpec == /\ WindowsInit /\ [][WindowsNext]_wVars
               /\ R!Fairness /\ M!Fairness /\ Fairness

BelievedIsSaved      == R!BelievedIsSaved
OnlyReapplyDiscards  == R!OnlyReapplyDiscards
DraftIsSaved         == R!DraftIsSaved
CleanMeansSaved      == M!CleanMeansSaved
ClosedIsSaved        == M!ClosedIsSaved
CanUnfold            == G!CanUnfold
=============================================================================
