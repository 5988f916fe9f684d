--------------------------- MODULE WindowsProofs ---------------------------
(***************************************************************************)
(* That the safety properties of the smaller windows hold whatever their   *)
(* constants are: the memo drawer, the weekly report, the mindmap and the  *)
(* chat, each from an inductive invariant of its own, which a step of any  *)
(* other window leaves alone.                                              *)
(***************************************************************************)
EXTENDS Windows, FiniteSetTheorems, WellFoundedInduction, TLAPS

---------------------------------------------------------------------------
(***************************************************************************)
(* The memo drawer: a save on the wire is the only one and carries what is *)
(* shown, a fetch under way was started with nothing to save.              *)
(***************************************************************************)

\* A save on the wire.
MemoCall(m) ==
  m \in [text : {m.text}, heard : BOOLEAN, state : {m.state}, memo : {m.memo}, nr : {m.nr}]

\* What an open save of the memo says of the drawer and of the server.
MemoOnWire ==
  /\ \A m, n \in memoCalls : m = n
  /\ memoCalls # {} => memoGet = {} /\ memoDirty
  /\ \A m \in memoCalls :
       /\ MemoCall(m) /\ m.text = memoContent /\ m.state \in {"sent", "done"}
       /\ m.state = "done" => memoStored = m.memo /\ m.memo.text = m.text
       /\ ~memoOpen => m.heard

\* A fetch under way brings what the server has, to an unmodified drawer.
MemoFetched ==
  /\ memoGet # {} => ~memoDirty
  /\ \A g \in memoGet : g = M!Sent \/ (g.state = "served" /\ g.memo = memoStored)

\* What is typed is on the screen; unmarked, it is the text of the server.
MemoShown ==
  /\ memoCalls = {} /\ ~memoDirty => memoContent = memoStored.text
  /\ ~memoOpen /\ memoDirty => memoCalls # {}
  /\ 1 .. memoTyped \subseteq memoContent

MemoTyped ==
  /\ memoDirty \in BOOLEAN /\ memoOpen \in BOOLEAN
  /\ memoCrossed \in BOOLEAN /\ memoFailed \in BOOLEAN
  /\ memoTyped \in Nat

MemoQuiet == MemoOnWire /\ MemoFetched /\ MemoShown

MemoInv == MemoTyped /\ (~memoCrossed /\ ~memoFailed => MemoQuiet)

\* A drawer at rest shows the memo of the server.
LEMMA MemoImplies == MemoInv => CleanMeansSaved
BY DEF MemoInv, MemoQuiet, MemoShown, CleanMeansSaved, M!CleanMeansSaved, M!Busy

LEMMA MemoStarts == M!Init => MemoInv
<1> SUFFICES ASSUME M!Init PROVE MemoInv
  OBVIOUS
<1>1. 1 .. memoTyped = {} /\ memoStored.text = {}
  BY DEF M!Init, M!NoMemo
<1>2. MemoTyped
  BY DEF M!Init, MemoTyped
<1> QED BY <1>1, <1>2 DEF M!Init, MemoInv, MemoQuiet, MemoOnWire, MemoFetched, MemoShown

\* Typing while nothing is under way, or it is crossed.
LEMMA MemoEditKeeps == MemoInv /\ M!Edit => MemoInv'
<1> SUFFICES ASSUME MemoInv, M!Edit PROVE MemoInv'
  OBVIOUS
<1>1. MemoTyped'
  BY DEF MemoInv, MemoTyped, M!Edit, M!Busy
<1>2. ASSUME ~memoCrossed', ~memoFailed' PROVE MemoQuiet'
  <2>1. MemoQuiet /\ memoCalls = {} /\ memoGet = {} /\ memoTyped \in Nat /\ memoOpen
    BY <1>2 DEF MemoInv, MemoTyped, M!Edit, M!Busy
  <2> QED BY <2>1 DEF M!Edit, MemoQuiet, MemoOnWire, MemoFetched, MemoShown
<1> QED BY <1>1, <1>2 DEF MemoInv

\* Opening starts a fetch: a closed drawer without a save on the wire is unmodified.
LEMMA MemoOpenKeeps == MemoInv /\ M!OpenDrawer => MemoInv'
<1> SUFFICES ASSUME MemoInv, M!OpenDrawer PROVE MemoInv'
  OBVIOUS
<1>1. MemoTyped'
  BY DEF MemoInv, MemoTyped, M!OpenDrawer
<1>2. ASSUME ~memoCrossed', ~memoFailed' PROVE MemoQuiet'
  <2>1. MemoQuiet /\ memoCalls = {} /\ ~memoOpen
    BY <1>2 DEF MemoInv, M!OpenDrawer
  <2>2. ~memoDirty
    BY <2>1 DEF MemoQuiet, MemoShown
  <2> QED BY <2>1, <2>2 DEF M!OpenDrawer, MemoQuiet, MemoOnWire, MemoFetched, MemoShown
<1> QED BY <1>1, <1>2 DEF MemoInv

\* A save, of a closing drawer or of an open one.
LEMMA MemoPatchKeeps ==
  ASSUME MemoInv, NEW heard \in BOOLEAN, M!Patch(heard), memoOpen' \/ heard,
         memoOpen' \in BOOLEAN,
         UNCHANGED <<memoStored, memoData, memoContent, memoDirty, memoGet, memoTyped, memoFailed>>
  PROVE  MemoInv'
<1>1. MemoTyped'
  BY DEF MemoInv, MemoTyped, M!Patch, M!Busy
<1>2. ASSUME ~memoCrossed', ~memoFailed' PROVE MemoQuiet'
  <2>1. MemoQuiet /\ memoCalls = {} /\ memoGet = {} /\ memoDirty
    BY <1>2 DEF MemoInv, M!Patch, M!Busy
  <2>2. PICK nr : memoCalls' = {[text |-> memoContent, heard |-> heard, state |-> "sent",
                                 memo |-> M!NoMemo, nr |-> nr]}
    BY <2>1 DEF M!Patch
  <2>3. MemoOnWire'
    BY <2>1, <2>2 DEF MemoOnWire, MemoCall
  <2> QED BY <2>1, <2>2, <2>3 DEF MemoQuiet, MemoFetched, MemoShown
<1> QED BY <1>1, <1>2 DEF MemoInv

LEMMA MemoCloseKeeps == MemoInv /\ (M!CloseDrawer \/ M!Flush \/ M!Hide) => MemoInv'
<1> SUFFICES ASSUME MemoInv, M!CloseDrawer \/ M!Flush \/ M!Hide PROVE MemoInv'
  OBVIOUS
<1>1. CASE M!Flush
  BY <1>1, MemoPatchKeeps DEF M!Flush, MemoInv, MemoTyped
<1>2. CASE M!Hide
  BY <1>2, MemoPatchKeeps DEF M!Hide, MemoInv, MemoTyped
<1>3. CASE M!CloseDrawer /\ M!Patch(TRUE)
  BY <1>3, MemoPatchKeeps DEF M!CloseDrawer
<1>4. CASE M!CloseDrawer /\ ~memoDirty /\ UNCHANGED <<memoCalls, memoCrossed>>
  <2>1. MemoTyped'
    BY <1>4 DEF MemoInv, MemoTyped, M!CloseDrawer
  <2>2. ASSUME ~memoCrossed', ~memoFailed' PROVE MemoQuiet'
    BY <1>4, <2>2 DEF M!CloseDrawer, MemoInv, MemoQuiet, MemoOnWire, MemoFetched, MemoShown
  <2> QED BY <2>1, <2>2 DEF MemoInv
<1> QED BY <1>1, <1>2, <1>3, <1>4 DEF M!CloseDrawer

LEMMA MemoGetKeeps == MemoInv /\ (M!ServeGet \/ M!TakeGet) => MemoInv'
<1> SUFFICES ASSUME MemoInv, M!ServeGet \/ M!TakeGet PROVE MemoInv'
  OBVIOUS
<1>1. CASE M!ServeGet
  <2>1. MemoTyped'
    BY <1>1 DEF MemoInv, MemoTyped, M!ServeGet
  <2>2. ASSUME ~memoCrossed', ~memoFailed' PROVE MemoQuiet'
    BY <1>1, <2>2 DEF M!ServeGet, MemoInv, MemoQuiet, MemoOnWire, MemoFetched, MemoShown
  <2> QED BY <2>1, <2>2 DEF MemoInv
<1>2. CASE M!TakeGet
  <2>1. PICK g \in memoGet : /\ g.state = "served" /\ memoGet' = {}
                             /\ M!Show(g.memo, FALSE)
                             /\ UNCHANGED <<memoStored, memoOpen, memoOpens, memoCalls, memoTyped,
                                            memoCrossed, memoFailed>>
    BY <1>2 DEF M!TakeGet
  <2>2. MemoTyped'
    BY <2>1 DEF MemoInv, MemoTyped, M!Show
  <2>3. ASSUME ~memoCrossed', ~memoFailed' PROVE MemoQuiet'
    <3>1. MemoQuiet /\ memoCalls = {} /\ ~memoDirty /\ g.memo = memoStored
      BY <2>1, <2>3 DEF MemoInv, MemoQuiet, MemoOnWire, MemoFetched, M!Sent
    <3>2. memoContent = memoStored.text /\ memoContent' = memoContent /\ memoDirty' = FALSE
      BY <2>1, <3>1 DEF MemoQuiet, MemoShown, M!Show
    <3> QED BY <2>1, <3>1, <3>2 DEF MemoQuiet, MemoOnWire, MemoFetched, MemoShown
  <2> QED BY <2>2, <2>3 DEF MemoInv
<1> QED BY <1>1, <1>2

\* A save is served, fails or is answered.
LEMMA MemoCallKeeps ==
  ASSUME MemoInv, NEW m \in memoCalls, M!ServePatch(m) \/ M!Fail(m) \/ M!Answer(m)
  PROVE  MemoInv'
<1>1. CASE M!Fail(m)
  BY <1>1 DEF M!Fail, MemoInv, MemoTyped
<1>2. CASE M!ServePatch(m)
  <2>1. MemoTyped'
    BY <1>2 DEF MemoInv, MemoTyped, M!ServePatch
  <2>2. ASSUME ~memoCrossed', ~memoFailed' PROVE MemoQuiet'
    <3>1. MemoQuiet /\ MemoCall(m) /\ m.text = memoContent /\ memoGet = {} /\ memoDirty
          /\ memoCalls = {m} /\ (~memoOpen => m.heard)
      BY <1>2, <2>2 DEF MemoInv, MemoQuiet, MemoOnWire, M!ServePatch
    <3> DEFINE n == [m EXCEPT !.state = "done", !.memo = memoStored']
    <3>2. memoCalls' = {n}
      BY <1>2, <3>1 DEF M!ServePatch
    <3>3. /\ MemoCall(n) /\ n.text = m.text /\ n.heard = m.heard
          /\ n.state = "done" /\ n.memo = memoStored'
      <4>1. n = [[m EXCEPT !.state = "done"] EXCEPT !.memo = memoStored']
        BY Zenon
      <4> QED BY <3>1, <4>1 DEF MemoCall
    <3>4. memoStored'.text = m.text
      BY <1>2 DEF M!ServePatch
    <3> HIDE DEF n
    <3>5. MemoOnWire'
      BY <1>2, <3>1, <3>2, <3>3, <3>4 DEF MemoOnWire, MemoCall, M!ServePatch
    <3> QED BY <1>2, <3>1, <3>2, <3>5 DEF MemoQuiet, MemoFetched, MemoShown, M!ServePatch
  <2> QED BY <2>1, <2>2 DEF MemoInv
<1>3. CASE M!Answer(m)
  <2>1. MemoTyped'
    BY <1>3 DEF MemoInv, MemoTyped, M!Answer, M!Show
  <2>2. ASSUME ~memoCrossed', ~memoFailed' PROVE MemoQuiet'
    <3>1. MemoQuiet /\ MemoCall(m) /\ m.text = memoContent /\ memoGet = {} /\ memoDirty
          /\ memoCalls = {m} /\ (~memoOpen => m.heard) /\ m.state = "done"
          /\ memoStored = m.memo /\ m.memo.text = m.text
      BY <1>3, <2>2 DEF MemoInv, MemoQuiet, MemoOnWire, M!Answer
    <3>2. memoCalls' = {} /\ UNCHANGED <<memoStored, memoOpen, memoGet, memoTyped>>
      BY <1>3, <3>1 DEF M!Answer
    <3>3. CASE m.heard
      <4>1. memoContent' = memoStored.text /\ memoDirty' = FALSE /\ memoContent' = memoContent
        BY <1>3, <3>1, <3>3 DEF M!Answer, M!Show
      <4> QED BY <3>1, <3>2, <4>1 DEF MemoQuiet, MemoOnWire, MemoFetched, MemoShown
    <3>4. CASE ~m.heard
      <4>1. UNCHANGED <<memoContent, memoDirty>> /\ memoOpen
        BY <1>3, <3>1, <3>4 DEF M!Answer, MemoInv, MemoTyped
      <4> QED BY <3>1, <3>2, <4>1 DEF MemoQuiet, MemoOnWire, MemoFetched, MemoShown
    <3> QED BY <3>1, <3>3, <3>4 DEF MemoCall
  <2> QED BY <2>1, <2>2 DEF MemoInv
<1> QED BY <1>1, <1>2, <1>3

\* No step of any window breaks the invariant.
LEMMA MemoStays == MemoInv /\ [WindowsNext]_wVars => MemoInv'
<1> SUFFICES ASSUME MemoInv, [WindowsNext]_wVars PROVE MemoInv'
  OBVIOUS
<1>1. CASE M!Next
  BY <1>1, MemoEditKeeps, MemoOpenKeeps, MemoCloseKeeps, MemoGetKeeps, MemoCallKeeps DEF M!Next
<1>2. CASE UNCHANGED memoVars
  BY <1>2 DEF memoVars, MemoInv, MemoTyped, MemoQuiet, MemoOnWire, MemoFetched, MemoShown
<1>3. M!Next \/ UNCHANGED memoVars
  BY DEF WindowsNext, wVars
<1> QED BY <1>1, <1>2, <1>3

\* However many edits, saves and openings there are: a drawer at rest without the
\* mark shows the memo of the server, and nothing typed is missing in both, unless a
\* request failed, two overlapped, or something was typed during one.
THEOREM CleanMemoIsSaved == WindowsSpec => []CleanMeansSaved
<1>1. WindowsInit => MemoInv
  BY MemoStarts DEF WindowsInit
<1> QED BY <1>1, MemoStays, MemoImplies, PTL DEF WindowsSpec

---------------------------------------------------------------------------
(***************************************************************************)
(* The weekly report: without a request on the wire, or with one that is   *)
(* not served, the page and the server agree.                              *)
(***************************************************************************)

ReportOps == {"save", "submit", "reopen", "reapply", "upload"}

ReportRow(r) ==
  r \in [body : {r.body}, status : {r.status}, files : {r.files}, rev : {r.rev}]

\* A request: one for the template that was served carries it.
ReportCall(m) ==
  /\ m \in [op : ReportOps, body : {m.body}, latest : {m.latest}, state : {m.state},
            row : {m.row}, nr : {m.nr}]
  /\ m.op = "reapply" /\ m.state = "done" => m.row.body = {R!Template}

ReportTyped ==
  /\ reportCrossed \in BOOLEAN
  /\ ReportRow(reportReport)
  /\ \A m \in reportCalls : ReportCall(m)

\* The page and the server agree.
ReportAgrees == reportRow = reportReport /\ reportLastSaved = reportReport.body

ReportCallAgrees(m) ==
  /\ m.state \in {"sent", "failed"} => ReportAgrees
  /\ m.state = "done" => /\ reportReport = m.row
                         /\ m.op \notin {"save", "reapply"} => reportLastSaved = reportReport.body

ReportQuiet ==
  /\ \A m, n \in reportCalls : m = n
  /\ reportCalls = {} => ReportAgrees
  /\ \A m \in reportCalls : ReportCallAgrees(m)

ReportInv == ReportTyped /\ (~reportCrossed => ReportQuiet)

LEMMA ReportImplies == ReportInv => BelievedIsSaved
BY DEF ReportInv, ReportQuiet, ReportAgrees, BelievedIsSaved, R!BelievedIsSaved

LEMMA ReportStarts == R!Init => ReportInv
<1> SUFFICES ASSUME R!Init PROVE ReportInv
  OBVIOUS
<1>1. PICK body \in Bodies : /\ reportReport = R!NewReport(body) /\ reportRow = reportReport
                             /\ reportLastSaved = body
  BY DEF R!Init
<1>2. ReportRow(reportReport) /\ reportReport.body = body
  BY <1>1 DEF ReportRow, R!NewReport
<1> QED BY <1>1, <1>2 DEF R!Init, ReportInv, ReportTyped, ReportQuiet, ReportAgrees

\* Call marks the other requests and adds one.
LEMMA ReportCallKeeps ==
  ASSUME ReportInv, NEW op \in ReportOps, NEW body, R!Call(op, body),
         UNCHANGED <<reportReport, reportRow, reportLastSaved>>
  PROVE  ReportInv'
<1>1. PICK nr : reportCalls' = {[m EXCEPT !.latest = @ /\ m.op # op] : m \in reportCalls}
                                 \union {[op |-> op, body |-> body, latest |-> TRUE,
                                          state |-> "sent", row |-> R!NoRow, nr |-> nr]}
  BY DEF R!Call
<1> DEFINE new == [op |-> op, body |-> body, latest |-> TRUE, state |-> "sent",
                   row |-> R!NoRow, nr |-> nr]
<1>2. ReportCall(new) /\ new.state = "sent"
  BY DEF ReportCall
<1>3. ASSUME NEW m \in reportCalls
      PROVE  ReportCall([m EXCEPT !.latest = @ /\ m.op # op])
  <2>1. ReportCall(m)
    BY DEF ReportInv, ReportTyped
  <2> DEFINE b == m.latest /\ m.op # op
  <2> HIDE DEF b
  <2>2. ReportCall([m EXCEPT !.latest = b])
    BY <2>1 DEF ReportCall
  <2> QED BY <2>2 DEF b
<1> HIDE DEF new
<1>4. \A m \in reportCalls' : ReportCall(m)
  BY <1>1, <1>2, <1>3 DEF new
<1>5. ReportTyped'
  <2>1. reportCrossed' \in BOOLEAN
    BY DEF ReportInv, ReportTyped, R!Call
  <2> QED BY <1>4, <2>1 DEF ReportInv, ReportTyped, ReportRow, ReportCall
<1>6. ASSUME ~reportCrossed' PROVE ReportQuiet'
  <2>1. ReportQuiet /\ reportCalls = {}
    BY <1>6 DEF ReportInv, R!Call
  <2>2. reportCalls' = {new}
    BY <1>1, <2>1 DEF new
  <2> QED BY <1>2, <2>1, <2>2 DEF ReportQuiet, ReportAgrees, ReportCallAgrees
<1> QED BY <1>5, <1>6 DEF ReportInv

\* The author and the timer.
LEMMA ReportAuthorKeeps ==
  ASSUME ReportInv,
         R!Edit \/ R!Autosave \/ R!SaveNow \/ R!Submit \/ R!Reopen \/ R!Reapply \/ R!Upload
  PROVE  ReportInv'
<1>1. CASE R!Edit
  BY <1>1 DEF R!Edit, ReportInv, ReportTyped, ReportRow, ReportCall, ReportQuiet, ReportAgrees,
              ReportCallAgrees
<1>2. ASSUME NEW op \in ReportOps, R!Operation(op) PROVE ReportInv'
  BY <1>2, ReportCallKeeps DEF R!Operation
<1>3. CASE R!Autosave
  <2>1. "save" \in ReportOps
    BY DEF ReportOps
  <2> QED BY <1>3, <2>1, ReportCallKeeps DEF R!Autosave
<1>4. CASE R!SaveNow
  <2>1. "save" \in ReportOps
    BY DEF ReportOps
  <2> QED BY <1>4, <2>1, ReportCallKeeps DEF R!SaveNow
<1> QED BY <1>1, <1>2, <1>3, <1>4 DEF R!Submit, R!Reopen, R!Reapply, R!Upload, ReportOps

\* What a request writes: a row, with the template as its body after a reapplication,
\* and with the body it had after anything but a save.
LEMMA ReportWritten ==
  ASSUME NEW m, ReportCall(m), ReportRow(reportReport)
  PROVE  /\ ReportRow(R!Written(m))
         /\ m.op \notin {"save", "reapply"} => R!Written(m).body = reportReport.body
         /\ m.op = "reapply" /\ ~R!Refused(m) => R!Written(m).body = {R!Template}
         /\ R!Refused(m) => R!Written(m) = reportReport
<1>1. m.op \in ReportOps
  BY DEF ReportCall
<1>2. CASE m.op = "save"
  BY <1>2 DEF R!Written, R!Refused, ReportRow
<1>3. CASE m.op = "submit"
  BY <1>3 DEF R!Written, R!Refused, ReportRow
<1>4. CASE m.op = "reopen"
  BY <1>4 DEF R!Written, R!Refused, ReportRow
<1>5. CASE m.op = "reapply"
  BY <1>5 DEF R!Written, R!Refused, ReportRow
<1>6. CASE m.op = "upload"
  BY <1>6 DEF R!Written, R!Refused, ReportRow
<1> QED BY <1>1, <1>2, <1>3, <1>4, <1>5, <1>6 DEF ReportOps

\* The handlers.
LEMMA ReportServeKeeps == ASSUME ReportInv, NEW m \in reportCalls, R!Serve(m) PROVE ReportInv'
<1>1. ReportCall(m) /\ ReportRow(reportReport) /\ m.state = "sent"
      /\ UNCHANGED <<reportRow, reportLastSaved, reportCrossed>>
  BY DEF ReportInv, ReportTyped, R!Serve
<1>2. /\ ReportRow(reportReport')
      /\ m.op \notin {"save", "reapply"} => reportReport'.body = reportReport.body
      /\ m.op = "reapply" /\ ~R!Refused(m) => reportReport'.body = {R!Template}
      /\ R!Refused(m) => reportReport' = reportReport
  <2> DEFINE w == R!Written(m)
  <2>1. /\ ReportRow(w)
        /\ m.op \notin {"save", "reapply"} => w.body = reportReport.body
        /\ m.op = "reapply" /\ ~R!Refused(m) => w.body = {R!Template}
        /\ R!Refused(m) => w = reportReport
    BY <1>1, ReportWritten
  <2>2. reportReport' = IF w = reportReport THEN reportReport ELSE [w EXCEPT !.rev = @ + 1]
    BY DEF R!Serve
  <2> HIDE DEF w
  <2>3. ReportRow([w EXCEPT !.rev = @ + 1]) /\ [w EXCEPT !.rev = @ + 1].body = w.body
    BY <2>1 DEF ReportRow
  <2> QED BY <2>1, <2>2, <2>3
<1> DEFINE s == IF R!Refused(m) THEN "failed" ELSE "done"
           r == IF R!Refused(m) THEN R!NoRow ELSE reportReport'
           n == [m EXCEPT !.state = s, !.row = r]
<1>3. reportCalls' = (reportCalls \ {m}) \union {n}
  BY DEF R!Serve
<1>4. ReportCall(n) /\ n.op = m.op /\ n.state = s /\ n.row = r
  <2>1. n = [[m EXCEPT !.state = s] EXCEPT !.row = r]
    BY Zenon
  <2>2. /\ n \in [op : ReportOps, body : {n.body}, latest : {n.latest}, state : {n.state},
                  row : {n.row}, nr : {n.nr}]
        /\ n.op = m.op /\ n.state = s /\ n.row = r
    <3> HIDE DEF s, r
    <3> QED BY <1>1, <2>1 DEF ReportCall
  <2> HIDE DEF n
  <2> QED BY <1>2, <2>2 DEF ReportCall
<1> HIDE DEF n
<1>5. ReportTyped'
  BY <1>1, <1>2, <1>3, <1>4 DEF ReportInv, ReportTyped, ReportCall
<1>6. ASSUME ~reportCrossed' PROVE ReportQuiet'
  <2>1. ReportQuiet /\ reportCalls = {m} /\ ReportAgrees
    BY <1>1, <1>6 DEF ReportInv, ReportQuiet, ReportCallAgrees
  <2>2. reportCalls' = {n}
    BY <1>3, <2>1
  <2>3. ASSUME NEW x \in reportCalls' PROVE ReportCallAgrees(x)'
    <3>1. x = n
      BY <2>2
    <3> QED BY <1>1, <1>2, <1>4, <2>1, <3>1 DEF ReportCallAgrees, ReportAgrees
  <2> QED BY <2>2, <2>3 DEF ReportQuiet
<1> QED BY <1>5, <1>6 DEF ReportInv

\* A lost answer of a request that was served counts as a crossing.
LEMMA ReportFailKeeps == ASSUME ReportInv, NEW m \in reportCalls, R!Fail(m) PROVE ReportInv'
<1> DEFINE n == [m EXCEPT !.state = "failed", !.row = R!NoRow]
<1>1. ReportCall(m) /\ m.state \in {"sent", "done"}
      /\ UNCHANGED <<reportReport, reportRow, reportLastSaved>>
      /\ reportCrossed' = (reportCrossed \/ m.state = "done")
      /\ reportCalls' = (reportCalls \ {m}) \union {n}
  BY DEF ReportInv, ReportTyped, R!Fail
<1>2. ReportCall(n) /\ n.state = "failed"
  BY <1>1 DEF ReportCall
<1> HIDE DEF n
<1>3. ReportTyped'
  BY <1>1, <1>2 DEF ReportInv, ReportTyped, ReportRow, ReportCall
<1>4. ASSUME ~reportCrossed' PROVE ReportQuiet'
  <2>1. ReportQuiet /\ reportCalls = {m} /\ ReportAgrees
    BY <1>1, <1>4 DEF ReportInv, ReportTyped, ReportQuiet, ReportCallAgrees
  <2>2. reportCalls' = {n}
    BY <1>1, <2>1
  <2>3. ReportCallAgrees(n)'
    BY <1>1, <1>2, <2>1 DEF ReportAgrees, ReportCallAgrees
  <2> QED BY <2>1, <2>2, <2>3 DEF ReportQuiet, ReportAgrees
<1> QED BY <1>3, <1>4 DEF ReportInv

\* An answer that brings the row of the server leaves the page agreeing with it.
LEMMA ReportShow ==
  ASSUME NEW d, NEW saved, R!Show(reportReport, d, saved),
         saved = reportReport.body
  PROVE  reportRow' = reportReport /\ reportLastSaved' = reportReport.body
BY DEF R!Show

LEMMA ReportAnswerKeeps == ASSUME ReportInv, NEW m \in reportCalls, R!Answer(m) PROVE ReportInv'
<1>1. ReportCall(m) /\ reportCalls' = reportCalls \ {m}
      /\ UNCHANGED <<reportReport, reportCrossed>>
  BY DEF ReportInv, ReportTyped, R!Answer
<1>2. ReportTyped'
  BY <1>1 DEF ReportInv, ReportTyped, ReportRow, ReportCall
<1>3. ASSUME ~reportCrossed' PROVE ReportQuiet'
  <2>1. ReportQuiet /\ reportCalls = {m} /\ reportCalls' = {} /\ ReportCallAgrees(m)
    BY <1>1, <1>3 DEF ReportInv, ReportQuiet
  <2>2. reportRow' = reportReport /\ reportLastSaved' = reportReport.body
    <3>1. CASE m.state = "failed"
      BY <2>1, <3>1 DEF R!Answer, ReportCallAgrees, ReportAgrees
    <3>2. CASE m.state = "done"
      <4>1. R!Success(m) /\ m.row = reportReport
            /\ (m.op \notin {"save", "reapply"} => reportLastSaved = reportReport.body)
        BY <2>1, <3>2 DEF R!Answer, ReportCallAgrees
      <4>2. CASE m.op = "save"
        BY <4>1, <4>2, ReportShow DEF R!Success
      <4>3. CASE m.op = "reapply"
        BY <4>1, <4>3, ReportShow DEF R!Success
      <4>4. CASE m.op \notin {"save", "reapply"}
        BY <4>1, <4>4, ReportShow DEF R!Success
      <4> QED BY <4>2, <4>3, <4>4
    <3> QED BY <3>1, <3>2 DEF R!Answer
  <2> QED BY <1>1, <2>1, <2>2 DEF ReportQuiet, ReportAgrees
<1> QED BY <1>2, <1>3 DEF ReportInv

\* No step of any window breaks the invariant.
LEMMA ReportStays == ReportInv /\ [WindowsNext]_wVars => ReportInv'
<1> SUFFICES ASSUME ReportInv, [WindowsNext]_wVars PROVE ReportInv'
  OBVIOUS
<1>1. CASE R!Next
  BY <1>1, ReportAuthorKeeps, ReportServeKeeps, ReportFailKeeps, ReportAnswerKeeps DEF R!Next
<1>2. CASE UNCHANGED reportVars
  BY <1>2 DEF reportVars, ReportInv, ReportTyped, ReportRow, ReportCall, ReportQuiet,
              ReportAgrees, ReportCallAgrees
<1>3. R!Next \/ UNCHANGED reportVars
  BY DEF WindowsNext, wVars
<1> QED BY <1>1, <1>2, <1>3

\* However many edits, operations and requests there are, with requests that fail or
\* not: a page at rest whose draft is what it believes saved has the draft stored,
\* and the row of the server, unless requests overlapped or an answer was lost.
THEOREM BelievedReportIsSaved == WindowsSpec => []BelievedIsSaved
<1>1. WindowsInit => ReportInv
  BY ReportStarts DEF WindowsInit
<1> QED BY <1>1, ReportStays, ReportImplies, PTL DEF WindowsSpec

\* The only steps that take something from the draft are answers.
LEMMA ReportNextKeepsDraft == ReportInv /\ [WindowsNext]_wVars => [R!KeepsDraft]_(R!vars)
<1>0. UNCHANGED reportDraft => R!KeepsDraft
  BY DEF R!KeepsDraft
<1> SUFFICES ASSUME ReportInv, [WindowsNext]_wVars, ~UNCHANGED reportDraft PROVE R!KeepsDraft
  BY <1>0
<1>1. R!Next
  BY DEF WindowsNext, wVars, reportVars
<1>2. CASE R!Edit
  BY <1>2 DEF R!Edit, R!KeepsDraft
<1>3. ASSUME NEW m \in reportCalls, R!Answer(m) PROVE R!KeepsDraft
  <2>1. m.state = "done" /\ R!Success(m) /\ ReportCall(m)
    BY <1>3 DEF R!Answer, ReportInv, ReportTyped
  <2>2. CASE m.op = "save"
    BY <2>1, <2>2 DEF R!Success, R!Show, R!Prepared, R!KeepsDraft
  <2>3. CASE m.op = "reapply"
    BY <2>1, <2>3 DEF R!Success, R!Show, R!Prepared, R!KeepsDraft, ReportCall
  <2>4. CASE m.op \notin {"save", "reapply"}
    BY <2>1, <2>4 DEF R!Success, R!Show, R!Prepared, R!KeepsDraft
  <2> QED BY <2>2, <2>3, <2>4
<1>4. ASSUME NEW m \in reportCalls, R!Serve(m) \/ R!Fail(m) PROVE FALSE
  BY <1>4 DEF R!Serve, R!Fail
<1>5. ASSUME R!Autosave \/ R!SaveNow \/ R!Submit \/ R!Reopen \/ R!Reapply \/ R!Upload
      PROVE  FALSE
  BY <1>5 DEF R!Autosave, R!SaveNow, R!Submit, R!Reopen, R!Reapply, R!Upload, R!Operation
<1> QED BY <1>1, <1>2, <1>3, <1>4, <1>5 DEF R!Next

\* Whatever is answered in whatever order: only a reapplied template, or the setup of
\* a body that was empty, takes something typed from the screen.
THEOREM DraftsStay == WindowsSpec => OnlyReapplyDiscards
<1>1. WindowsInit => ReportInv
  BY ReportStarts DEF WindowsInit
<1> QED BY <1>1, ReportStays, ReportNextKeepsDraft, PTL
        DEF WindowsSpec, OnlyReapplyDiscards, R!OnlyReapplyDiscards

---------------------------------------------------------------------------
(***************************************************************************)
(* The mindmap: what the breadth-first walk finds, in any map.  An induction *)
(* over its rounds is made with a least counterexample.                    *)
(***************************************************************************)

\* A set of natural numbers has a least element.
LEMMA LeastElement ==
  ASSUME NEW T \in SUBSET Nat, T # {}
  PROVE  \E x \in T : \A y \in T : x <= y
<1>1. \E x \in T : \A y \in T : ~ (<<y, x>> \in OpToRel(<, Nat))
  <2> HIDE DEF OpToRel
  <2> QED  BY NatLessThanWellFounded, WFMin, Zenon
<1>2. PICK x \in T : \A y \in T : ~ (<<y, x>> \in OpToRel(<, Nat))
  BY <1>1
<1>3. ASSUME NEW y \in T PROVE x <= y
  <2>1. x \in Nat /\ y \in Nat
    BY <1>2
  <2>2. ~ (y < x)
    BY <1>2, <2>1 DEF OpToRel
  <2> QED BY <2>1, <2>2
<1> QED BY <1>2, <1>3

\* One round of the walk.
Round(s, edges) == s \union UNION {G!ChildrenOf(m, edges) : m \in s}

\* The walk up to one of its rounds.
Walk(f, n, edges, last) ==
  f = [k \in 1 .. last |-> IF k = 1 THEN G!ChildrenOf(n, edges) ELSE Round(f[k - 1], edges)]

\* The rounds of the breadth-first walk are what their recursive definition says.
LEMMA WalkDefined ==
  ASSUME NEW n, NEW edges
  PROVE  Walk(G!Below(n, edges), n, edges, MaxNodes)
<1> DEFINE bad == {last \in 1 .. MaxNodes : ~ \E f : Walk(f, n, edges, last)}
<1>0. MaxNodes \in Nat /\ MaxNodes >= 1
  BY WindowsAssumption
<1>1. bad = {}
  <2> SUFFICES ASSUME bad # {} PROVE FALSE
    OBVIOUS
  <2>1. PICK last \in bad : \A y \in bad : last <= y
    <3>1. bad \in SUBSET Nat
      BY <1>0
    <3> HIDE DEF bad
    <3> QED BY <3>1, LeastElement
  <2>2. last \in 1 .. MaxNodes /\ ~ \E f : Walk(f, n, edges, last)
    BY <2>1
  <2>3. last # 1
    <3> SUFFICES ASSUME last = 1 PROVE FALSE
      OBVIOUS
    <3>1. Walk([k \in 1 .. last |-> G!ChildrenOf(n, edges)], n, edges, last)
      BY DEF Walk
    <3> QED BY <2>2, <3>1
  <2>4. PICK f : Walk(f, n, edges, last - 1)
    <3>1. last - 1 \in 1 .. MaxNodes /\ ~ (last <= last - 1)
      BY <1>0, <2>2, <2>3
    <3> QED BY <2>1, <3>1
  <2> DEFINE g == [k \in 1 .. last |-> IF k = last THEN Round(f[last - 1], edges) ELSE f[k]]
  <2>5. Walk(g, n, edges, last)
    <3>1. ASSUME NEW k \in 1 .. last
          PROVE  g[k] = IF k = 1 THEN G!ChildrenOf(n, edges) ELSE Round(g[k - 1], edges)
      <4>1. CASE k = 1
        BY <1>0, <2>2, <2>3, <2>4, <4>1 DEF Walk
      <4>2. CASE k # 1 /\ k # last
        <5>1. k \in 1 .. last - 1 /\ k - 1 \in 1 .. last /\ k - 1 # last
          BY <1>0, <2>2, <4>2
        <5>2. f[k] = Round(f[k - 1], edges)
          BY <2>4, <4>2, <5>1 DEF Walk
        <5> QED BY <4>2, <5>1, <5>2
      <4>3. CASE k # 1 /\ k = last
        <5>1. k - 1 \in 1 .. last /\ k - 1 # last
          BY <1>0, <2>2, <4>3
        <5> QED BY <4>3, <5>1
      <4> QED BY <4>1, <4>2, <4>3
    <3> QED BY <3>1 DEF Walk
  <2> QED BY <2>2, <2>5
<1>2. \E f : Walk(f, n, edges, MaxNodes)
  BY <1>0, <1>1
<1>3. G!Below(n, edges) = CHOOSE f : Walk(f, n, edges, MaxNodes)
  BY DEF G!Below, G!Ids, Walk, Round
<1> QED BY <1>2, <1>3

\* The first round finds the children, each later one what is below the one before.
LEMMA Rounds ==
  ASSUME NEW n, NEW edges
  PROVE  /\ G!Below(n, edges)[1] = G!ChildrenOf(n, edges)
         /\ \A k \in 1 .. MaxNodes : k + 1 <= MaxNodes =>
              G!Below(n, edges)[k + 1] = Round(G!Below(n, edges)[k], edges)
<1>0. MaxNodes \in Nat /\ MaxNodes >= 1
  BY WindowsAssumption
<1> DEFINE b == G!Below(n, edges)
<1>1. Walk(b, n, edges, MaxNodes)
  BY WalkDefined
<1> HIDE DEF b
<1>2. b[1] = G!ChildrenOf(n, edges)
  BY <1>0, <1>1 DEF Walk
<1>3. ASSUME NEW k \in 1 .. MaxNodes, k + 1 <= MaxNodes PROVE b[k + 1] = Round(b[k], edges)
  <2>1. k + 1 \in 1 .. MaxNodes /\ k + 1 # 1 /\ (k + 1) - 1 = k
    BY <1>0, <1>3
  <2> QED BY <1>1, <2>1 DEF Walk
<1> QED BY <1>2, <1>3 DEF b

Closed(s, edges) == \A m \in s : G!ChildrenOf(m, edges) \subseteq s

\* Every round of the walk stays in a closed set that holds the children.
LEMMA RoundsWithin ==
  ASSUME NEW n, NEW edges, NEW s, Closed(s, edges), G!ChildrenOf(n, edges) \subseteq s
  PROVE  \A k \in 1 .. MaxNodes : G!Below(n, edges)[k] \subseteq s
<1>0. MaxNodes \in Nat /\ MaxNodes >= 1
  BY WindowsAssumption
<1> DEFINE b == G!Below(n, edges)
           bad == {k \in 1 .. MaxNodes : ~ (b[k] \subseteq s)}
<1>1. bad = {}
  <2> SUFFICES ASSUME bad # {} PROVE FALSE
    OBVIOUS
  <2>1. PICK k \in bad : \A y \in bad : k <= y
    <3>1. bad \in SUBSET Nat
      BY <1>0
    <3> HIDE DEF bad
    <3> QED BY <3>1, LeastElement
  <2>2. k \in 1 .. MaxNodes /\ ~ (b[k] \subseteq s)
    BY <2>1
  <2> HIDE DEF b
  <2>3. k # 1
    BY <2>2, Rounds DEF b
  <2>4. k - 1 \in 1 .. MaxNodes /\ (k - 1) + 1 = k /\ ~ (k <= k - 1)
    BY <1>0, <2>2, <2>3
  <2>5. b[k - 1] \subseteq s
    BY <2>1, <2>4
  <2>6. b[k] = Round(b[k - 1], edges)
    <3>1. (k - 1) + 1 <= MaxNodes
      BY <1>0, <2>2, <2>4
    <3>2. b[(k - 1) + 1] = Round(b[k - 1], edges)
      BY <2>4, <3>1, Rounds DEF b
    <3> QED BY <2>4, <3>2
  <2>7. Round(b[k - 1], edges) \subseteq s
    BY <2>5 DEF Round, Closed
  <2> QED BY <2>2, <2>6, <2>7
<1> QED BY <1>1

\* So does what the walk finds.
LEMMA DescendantsLeast ==
  ASSUME NEW n, NEW edges, NEW s, Closed(s, edges), G!ChildrenOf(n, edges) \subseteq s
  PROVE  G!DescendantsOf(n, edges) \subseteq s
<1>1. MaxNodes \in 1 .. MaxNodes
  BY WindowsAssumption
<1> QED BY <1>1, RoundsWithin DEF G!DescendantsOf

\* A round adds a node until nothing is left to add, and there are MaxNodes of them.
LEMMA RoundsGrow ==
  ASSUME NEW n, NEW edges
  PROVE  \A k \in 1 .. MaxNodes :
           LET b == G!Below(n, edges)[k]
           IN  G!ChildrenOf(n, edges) \subseteq b /\ (Closed(b, edges) \/ Cardinality(b) >= k)
<1>0. MaxNodes \in Nat /\ MaxNodes >= 1
  BY WindowsAssumption
<1> DEFINE b == G!Below(n, edges)
           Grown(k) == /\ G!ChildrenOf(n, edges) \subseteq b[k]
                       /\ Closed(b[k], edges) \/ Cardinality(b[k]) >= k
           bad == {k \in 1 .. MaxNodes : ~ Grown(k)}
<1>f. \A k \in 1 .. MaxNodes : b[k] \subseteq G!Ids /\ IsFiniteSet(b[k])
                               /\ Cardinality(b[k]) \in Nat
  <2>1. Closed(G!Ids, edges) /\ G!ChildrenOf(n, edges) \subseteq G!Ids
    BY DEF Closed, G!ChildrenOf
  <2>2. \A k \in 1 .. MaxNodes : b[k] \subseteq G!Ids
    BY <2>1, RoundsWithin
  <2>3. IsFiniteSet(G!Ids)
    BY <1>0, FS_Interval DEF G!Ids
  <2> HIDE DEF b
  <2> QED BY <2>2, <2>3, FS_Subset, FS_CardinalityType
<1>1. bad = {}
  <2> SUFFICES ASSUME bad # {} PROVE FALSE
    OBVIOUS
  <2>1. PICK k \in bad : \A y \in bad : k <= y
    <3>1. bad \in SUBSET Nat
      BY <1>0
    <3> HIDE DEF bad
    <3> QED BY <3>1, LeastElement
  <2>2. k \in 1 .. MaxNodes /\ ~ Grown(k)
    BY <2>1
  <2> HIDE DEF b
  <2>3. CASE k = 1
    <3>1. b[1] = G!ChildrenOf(n, edges) /\ 1 \in 1 .. MaxNodes
      BY <1>0, Rounds DEF b
    <3>2. CASE b[1] = {}
      BY <2>2, <2>3, <3>1, <3>2 DEF Closed
    <3>3. CASE b[1] # {}
      <4>1. Cardinality(b[1]) # 0
        BY <1>f, <3>1, <3>3, FS_EmptySet
      <4>2. Cardinality(b[1]) >= 1
        BY <1>f, <3>1, <4>1
      <4> QED BY <2>2, <2>3, <3>1, <4>2
    <3> QED BY <3>2, <3>3
  <2>4. CASE k # 1
    <3> DEFINE j == k - 1
    <3>1. j \in 1 .. MaxNodes /\ j + 1 = k /\ ~ (k <= j) /\ j \in Nat /\ j + 1 <= MaxNodes
      BY <1>0, <2>2, <2>4
    <3>2. Grown(j)
      BY <2>1, <3>1
    <3>3. b[k] = Round(b[j], edges)
      <4>1. b[j + 1] = Round(b[j], edges)
        BY <3>1, Rounds DEF b
      <4> QED BY <3>1, <4>1
    <3> HIDE DEF j
    <3>4. b[j] \subseteq b[k]
      BY <3>3 DEF Round
    <3>5. CASE Closed(b[j], edges)
      <4>1. b[k] = b[j]
        BY <3>3, <3>5 DEF Round, Closed
      <4> QED BY <2>2, <3>2, <3>5, <4>1
    <3>6. CASE ~ Closed(b[j], edges)
      <4>1. b[k] # b[j]
        BY <3>3, <3>6 DEF Round, Closed
      <4>2. Cardinality(b[j]) >= j
        BY <3>2, <3>6
      <4>3. Cardinality(b[j]) <= Cardinality(b[k]) /\ Cardinality(b[j]) # Cardinality(b[k])
        BY <1>f, <2>2, <3>1, <3>4, <4>1, FS_Subset
      <4>4. Cardinality(b[j]) \in Nat /\ Cardinality(b[k]) \in Nat
        BY <1>f, <2>2, <3>1
      <4>5. Cardinality(b[k]) >= k
        BY <3>1, <4>2, <4>3, <4>4
      <4> QED BY <2>2, <3>2, <3>4, <4>5
    <3> QED BY <3>5, <3>6
  <2> QED BY <2>3, <2>4
<1> QED BY <1>1

\* The walk ends with everything that can be reached: the set is closed.
LEMMA DescendantsClosed ==
  ASSUME NEW n, NEW edges
  PROVE  /\ Closed(G!DescendantsOf(n, edges), edges)
         /\ G!ChildrenOf(n, edges) \subseteq G!DescendantsOf(n, edges)
         /\ G!DescendantsOf(n, edges) \subseteq G!Ids
<1>0. MaxNodes \in Nat /\ MaxNodes >= 1 /\ MaxNodes \in 1 .. MaxNodes
  BY WindowsAssumption
<1> DEFINE d == G!DescendantsOf(n, edges)
<1>1. Closed(G!Ids, edges) /\ G!ChildrenOf(n, edges) \subseteq G!Ids
  BY DEF Closed, G!ChildrenOf
<1>2. d \subseteq G!Ids
  BY <1>1, DescendantsLeast
<1>3. G!ChildrenOf(n, edges) \subseteq d /\ (Closed(d, edges) \/ Cardinality(d) >= MaxNodes)
  BY <1>0, RoundsGrow DEF G!DescendantsOf
<1> HIDE DEF d
<1>4. ASSUME Cardinality(d) >= MaxNodes PROVE d = G!Ids
  <2>1. IsFiniteSet(G!Ids) /\ Cardinality(G!Ids) = MaxNodes
    BY <1>0, FS_Interval DEF G!Ids
  <2>2. IsFiniteSet(d) /\ Cardinality(d) <= Cardinality(G!Ids)
    BY <1>2, <2>1, FS_Subset
  <2>3. Cardinality(d) = Cardinality(G!Ids)
    BY <1>0, <1>4, <2>1, <2>2, FS_CardinalityType
  <2> QED BY <1>2, <2>1, <2>3, FS_Subset
<1>5. Closed(d, edges)
  BY <1>1, <1>3, <1>4
<1> QED BY <1>2, <1>3, <1>5 DEF d

\* A forest has a depth at which each of its nodes hangs.
Deeper(depth, edges) ==
  /\ depth \in [G!Ids -> Nat]
  /\ \A a, b \in G!Ids : <<a, b>> \in edges => depth[a] < depth[b]

Leveled(edges) == \E depth : Deeper(depth, edges)

\* Everything below a node is deeper than it.
LEMMA DeeperBelow ==
  ASSUME NEW edges, NEW depth, Deeper(depth, edges), NEW n \in G!Ids
  PROVE  \A x \in G!DescendantsOf(n, edges) : depth[n] < depth[x]
<1> DEFINE s == {x \in G!Ids : depth[n] < depth[x]}
<1>1. depth \in [G!Ids -> Nat]
  BY DEF Deeper
<1>2. G!ChildrenOf(n, edges) \subseteq s
  BY DEF G!ChildrenOf, Deeper
<1>3. Closed(s, edges)
  <2> SUFFICES ASSUME NEW m \in s, NEW x \in G!ChildrenOf(m, edges) PROVE x \in s
    BY DEF Closed
  <2>1. depth[m] < depth[x] /\ depth[n] < depth[m] /\ x \in G!Ids /\ m \in G!Ids
    BY DEF G!ChildrenOf, Deeper
  <2>2. depth[m] \in Nat /\ depth[n] \in Nat /\ depth[x] \in Nat
    BY <1>1, <2>1
  <2> QED BY <2>1, <2>2
<1> HIDE DEF s
<1>4. G!DescendantsOf(n, edges) \subseteq s
  BY <1>2, <1>3, DescendantsLeast
<1> QED BY <1>4 DEF s

\* What is below something below a node is below the node.
LEMMA DescendantsTransitive ==
  ASSUME NEW n, NEW edges, NEW m \in G!DescendantsOf(n, edges)
  PROVE  G!DescendantsOf(m, edges) \subseteq G!DescendantsOf(n, edges)
<1> DEFINE d == G!DescendantsOf(n, edges)
<1>1. Closed(d, edges)
  BY DescendantsClosed
<1> HIDE DEF d
<1>2. m \in d
  BY DEF d
<1>3. G!ChildrenOf(m, edges) \subseteq d
  BY <1>1, <1>2 DEF Closed
<1> QED BY <1>1, <1>3, DescendantsLeast DEF d

\* In a forest, the folded node of least depth above a hidden one is on the screen.
LEMMA ForestUnfolds ==
  ASSUME NEW m, m.nodes \subseteq G!Ids, Leveled(m.edges),
         NEW n \in m.nodes \intersect G!Hidden(m)
  PROVE  \E top \in G!Visible(m) \intersect m.shut : n \in G!DescendantsOf(top, m.edges)
<1> DEFINE above == {s \in m.nodes \intersect m.shut : n \in G!DescendantsOf(s, m.edges)}
<1>1. PICK depth : Deeper(depth, m.edges)
  BY DEF Leveled
<1>2. above # {} /\ above \subseteq G!Ids
  BY DEF G!Hidden
<1>3. PICK top \in above : \A s \in above : depth[top] <= depth[s]
  <2> DEFINE depths == {depth[s] : s \in above}
  <2>1. depths \in SUBSET Nat /\ depths # {}
    <3> HIDE DEF above
    <3> QED BY <1>1, <1>2 DEF Deeper
  <2>2. PICK x \in depths : \A y \in depths : x <= y
    <3> HIDE DEF depths
    <3> QED BY <2>1, LeastElement
  <2> HIDE DEF above
  <2> QED BY <2>2
<1>4. top \notin G!Hidden(m)
  <2> SUFFICES ASSUME top \in G!Hidden(m) PROVE FALSE
    OBVIOUS
  <2>1. PICK s \in m.nodes \intersect m.shut : top \in G!DescendantsOf(s, m.edges)
    BY DEF G!Hidden
  <2>2. n \in G!DescendantsOf(s, m.edges)
    BY <1>3, <2>1, DescendantsTransitive
  <2>3. s \in above /\ s \in G!Ids /\ top \in G!Ids
    BY <1>2, <2>1, <2>2
  <2>4. depth[s] < depth[top]
    BY <1>1, <2>1, <2>3, DeeperBelow
  <2>5. depth[top] <= depth[s]
    BY <1>3, <2>3
  <2>6. depth[s] \in Nat /\ depth[top] \in Nat
    BY <1>1, <2>3 DEF Deeper
  <2> QED BY <2>4, <2>5, <2>6
<1> QED BY <1>3, <1>4 DEF G!Visible

---------------------------------------------------------------------------
\* The maps that are forests of nodes made so far.
Forests(made) ==
  {m \in [nodes : SUBSET (1 .. made), edges : SUBSET ((1 .. made) \X (1 .. made)),
          shut : SUBSET G!Ids] : Leveled(m.edges)}

\* Every map the page has, shown or kept for later, is a forest.
MapForests ==
  /\ mapMade \in Nat /\ mapMade <= MaxNodes
  /\ mapMap \in Forests(mapMade)
  /\ mapPast \in Seq(Forests(mapMade))
  /\ mapFuture \in Seq(Forests(mapMade))
  /\ mapImage \subseteq Forests(mapMade)

MapInv == ~mapDrawn => MapForests

\* No map was saved with a cycle: nobody has drawn a line by hand before.
SavedUndrawn == \A m \in Saved : Leveled(m.edges)

\* In a forest what is folded away can be unfolded.
LEMMA MapImplies == MapInv => CanUnfold
<1> SUFFICES ASSUME MapInv, ~mapDrawn,
                    NEW n \in mapMap.nodes \intersect G!Hidden(mapMap)
             PROVE  \E top \in G!Visible(mapMap) \intersect mapMap.shut :
                      n \in G!DescendantsOf(top, mapMap.edges)
  BY DEF CanUnfold, G!CanUnfold
<1>1. mapMap.nodes \subseteq G!Ids /\ Leveled(mapMap.edges)
  BY WindowsAssumption DEF MapInv, MapForests, Forests, G!Ids
<1> QED BY <1>1, ForestUnfolds

\* The map the note was saved with.
LEMMA MapStarts == ASSUME SavedUndrawn PROVE G!Init => MapInv
<1> SUFFICES ASSUME G!Init PROVE MapInv
  OBVIOUS
<1> DEFINE k == Cardinality(mapMap.nodes)
<1>1. mapMap \in Saved /\ mapMade = k /\ mapPast = <<>> /\ mapFuture = <<>> /\ mapImage = {}
  BY DEF G!Init, G!Cardinality, Cardinality
<1>2. /\ mapMap = [nodes |-> mapMap.nodes, edges |-> mapMap.edges, shut |-> mapMap.shut]
      /\ k \in 0 .. MaxNodes /\ mapMap.nodes = 1 .. k
      /\ mapMap.edges \subseteq (1 .. k) \X (1 .. k) /\ mapMap.shut \subseteq 1 .. k
      /\ Leveled(mapMap.edges)
  BY <1>1, WindowsAssumption DEF SavedUndrawn
<1> HIDE DEF k
<1>3. k \in Nat /\ k <= MaxNodes
  BY <1>2, WindowsAssumption
<1>4. mapMap \in Forests(k)
  <2>1. 1 .. k \subseteq G!Ids
    BY <1>2, <1>3, WindowsAssumption DEF G!Ids
  <2>2. mapMap \in [nodes : SUBSET (1 .. k), edges : SUBSET ((1 .. k) \X (1 .. k)),
                    shut : SUBSET G!Ids]
    BY <1>2, <2>1
  <2> QED BY <1>2, <2>2 DEF Forests
<1>5. <<>> \in Seq(Forests(k))
  OBVIOUS
<1> QED BY <1>1, <1>2, <1>3, <1>4, <1>5 DEF MapInv, MapForests

\* A forest stays one when more nodes are made.
LEMMA ForestsGrow ==
  ASSUME NEW n \in Nat, NEW k \in Nat, n <= k
  PROVE  Forests(n) \subseteq Forests(k)
<1>1. 1 .. n \subseteq 1 .. k
  OBVIOUS
<1> QED BY <1>1 DEF Forests

\* Taking lines away leaves a forest.
LEMMA ForestsSmaller ==
  ASSUME NEW n, NEW m \in Forests(n), NEW nodes, NEW edges, NEW shut,
         nodes \subseteq m.nodes, edges \subseteq m.edges, shut \subseteq G!Ids
  PROVE  [nodes |-> nodes, edges |-> edges, shut |-> shut] \in Forests(n)
<1>1. Leveled(edges)
  BY DEF Forests, Leveled, Deeper
<1> QED BY <1>1 DEF Forests

\* So does a new node, with or without a parent.
LEMMA ForestsNode ==
  ASSUME NEW n \in Nat, NEW m \in Forests(n)
  PROVE  [m EXCEPT !.nodes = @ \union {n + 1}] \in Forests(n + 1)
<1>1. 1 .. n \subseteq 1 .. (n + 1) /\ n + 1 \in 1 .. (n + 1)
  OBVIOUS
<1> QED BY <1>1 DEF Forests

\* A node that hangs below one that was there.
LEMMA ForestsLeaf ==
  ASSUME NEW n \in Nat, n + 1 \in G!Ids, NEW m \in Forests(n), NEW p \in 1 .. n
  PROVE  [m EXCEPT !.nodes = @ \union {n + 1}, !.edges = @ \union {<<p, n + 1>>}]
            \in Forests(n + 1)
<1> DEFINE new == n + 1
           edges == m.edges \union {<<p, new>>}
<1>1. 1 .. n \subseteq 1 .. new /\ new \in 1 .. new /\ new \notin 1 .. n
  OBVIOUS
<1>2. /\ m \in [nodes : SUBSET (1 .. n), edges : SUBSET ((1 .. n) \X (1 .. n)),
                shut : SUBSET G!Ids]
      /\ Leveled(m.edges)
  BY DEF Forests
<1>3. Leveled(edges)
  <2>1. PICK depth : Deeper(depth, m.edges)
    BY <1>2 DEF Leveled
  <2>2. 1 .. n \subseteq G!Ids /\ p \in G!Ids /\ new \in G!Ids
    BY WindowsAssumption DEF G!Ids
  <2> DEFINE deep == [depth EXCEPT ![new] = depth[p] + 1]
  <2> HIDE DEF new
  <2>3. deep \in [G!Ids -> Nat] /\ depth \in [G!Ids -> Nat]
    BY <2>1, <2>2 DEF Deeper
  <2>4. ASSUME NEW a \in G!Ids, NEW b \in G!Ids, <<a, b>> \in edges PROVE deep[a] < deep[b]
    <3>1. CASE <<a, b>> \in m.edges
      <4>1. a # new /\ b # new
        BY <1>1, <1>2, <3>1
      <4>2. deep[a] = depth[a] /\ deep[b] = depth[b]
        BY <2>3, <4>1
      <4> QED BY <2>1, <3>1, <4>2 DEF Deeper
    <3>2. CASE a = p /\ b = new
      <4>1. p # new
        BY <1>1
      <4>2. deep[a] = depth[p] /\ deep[b] = depth[p] + 1 /\ depth[p] \in Nat
        BY <2>2, <2>3, <3>2, <4>1
      <4> QED BY <4>2
    <3> QED BY <2>4, <3>1, <3>2
  <2> HIDE DEF deep, edges
  <2> QED BY <2>3, <2>4 DEF Leveled, Deeper
<1> DEFINE q == [m EXCEPT !.nodes = @ \union {new}, !.edges = @ \union {<<p, new>>}]
<1>4. q = [[m EXCEPT !.nodes = m.nodes \union {new}] EXCEPT !.edges = edges]
  BY <1>2
<1> HIDE DEF q
<1>5. edges \in SUBSET ((1 .. new) \X (1 .. new))
  BY <1>1, <1>2
<1> HIDE DEF new, edges
<1>6. q \in [nodes : SUBSET (1 .. new), edges : SUBSET ((1 .. new) \X (1 .. new)),
             shut : SUBSET G!Ids] /\ q.edges = edges
  BY <1>1, <1>2, <1>4, <1>5
<1> QED BY <1>3, <1>6 DEF Forests, q, new

\* A node dropped below another that is not below it takes its tree along.
LEMMA ForestsMoved ==
  ASSUME NEW n \in Nat, n <= MaxNodes, NEW m \in Forests(n), NEW d \in 1 .. n, NEW t \in 1 .. n,
         t # d, t \notin G!DescendantsOf(d, m.edges)
  PROVE  [m EXCEPT !.edges = {e \in @ : e[2] # d} \union {<<t, d>>}] \in Forests(n)
<1> DEFINE edges == {e \in m.edges : e[2] # d} \union {<<t, d>>}
           tree == {d} \union G!DescendantsOf(d, m.edges)
<1>1. /\ m \in [nodes : SUBSET (1 .. n), edges : SUBSET ((1 .. n) \X (1 .. n)),
                shut : SUBSET G!Ids]
      /\ Leveled(m.edges)
  BY DEF Forests
<1>2. PICK depth : Deeper(depth, m.edges)
  BY <1>1 DEF Leveled
<1>3. d \in G!Ids /\ t \in G!Ids /\ depth \in [G!Ids -> Nat]
  BY <1>2, WindowsAssumption DEF G!Ids, Deeper
<1>4. ASSUME NEW a \in tree, NEW b \in G!Ids, <<a, b>> \in m.edges PROVE b \in tree
  <2>1. b \in G!ChildrenOf(a, m.edges)
    BY <1>4 DEF G!ChildrenOf
  <2>2. G!ChildrenOf(a, m.edges) \subseteq G!DescendantsOf(d, m.edges)
    BY DescendantsClosed DEF Closed
  <2> QED BY <2>1, <2>2
<1>5. d \in tree /\ t \notin tree
  OBVIOUS
<1> HIDE DEF tree
<1> DEFINE deep == [x \in G!Ids |-> IF x \in tree THEN depth[x] + depth[t] + 1 ELSE depth[x]]
<1>6. ASSUME NEW a \in G!Ids, NEW b \in G!Ids, <<a, b>> \in edges PROVE deep[a] < deep[b]
  <2>1. depth[a] \in Nat /\ depth[b] \in Nat /\ depth[t] \in Nat
    BY <1>3
  <2>2. CASE <<a, b>> \in m.edges
    <3>1. depth[a] < depth[b]
      BY <1>2, <2>2 DEF Deeper
    <3>2. a \in tree => b \in tree
      BY <1>4, <2>2
    <3> QED BY <2>1, <3>1, <3>2
  <2>3. CASE a = t /\ b = d
    BY <1>5, <2>1, <2>3
  <2> QED BY <1>6, <2>2, <2>3
<1>7. deep \in [G!Ids -> Nat]
  BY <1>3
<1>8. Leveled(edges)
  <2> HIDE DEF deep, edges
  <2> QED BY <1>6, <1>7 DEF Leveled, Deeper
<1>9. edges \in SUBSET ((1 .. n) \X (1 .. n))
  BY <1>1
<1>10. [m EXCEPT !.edges = {e \in @ : e[2] # d} \union {<<t, d>>}] = [m EXCEPT !.edges = edges]
  BY <1>1
<1> HIDE DEF edges
<1> QED BY <1>1, <1>8, <1>9, <1>10 DEF Forests

\* What the handlers push is a map of the page.
LEMMA MapPushed ==
  ASSUME NEW F, NEW s \in Seq(F), NEW m \in F
  PROVE  G!Trimmed(Append(s, m)) \in Seq(F)
<1>1. Append(s, m) \in Seq(F) /\ Append(s, m) # <<>>
  <2>1. Append(s, m) \in Seq(F) /\ Len(Append(s, m)) = Len(s) + 1 /\ Len(s) \in Nat
    OBVIOUS
  <2> QED BY <2>1
<1>2. Tail(Append(s, m)) \in Seq(F)
  BY <1>1
<1> QED BY <1>1, <1>2 DEF G!Trimmed

\* A step that shows a forest and keeps forests.
LEMMA MapGoesOn ==
  ASSUME MapForests, mapMade' \in Nat, mapMade <= mapMade', mapMade' <= MaxNodes,
         mapMap' \in Forests(mapMade'),
         mapPast' \in Seq(Forests(mapMade)), mapFuture' \in Seq(Forests(mapMade)),
         mapImage' \subseteq Forests(mapMade)
  PROVE  MapForests'
<1> DEFINE f == Forests(mapMade)
           g == Forests(mapMade')
<1>1. f \subseteq g
  BY ForestsGrow DEF MapForests
<1> HIDE DEF f, g
<1>2. mapPast' \in Seq(f) /\ mapFuture' \in Seq(f)
  BY DEF f
<1>3. mapPast' \in Seq(g) /\ mapFuture' \in Seq(g)
  BY <1>1, <1>2
<1> QED BY <1>1, <1>3 DEF MapForests, f, g

\* Most steps keep the number of nodes made, the image being pasted, and the past
\* as it is or with one more map of the page.
LEMMA MapEdited ==
  ASSUME MapForests, NEW snap \in Forests(mapMade),
         mapMade' \in {mapMade, mapMade + 1}, mapMade' <= MaxNodes,
         mapMap' \in Forests(mapMade'),
         G!PushHistory(snap) \/ UNCHANGED <<mapPast, mapFuture>>,
         mapImage' \subseteq mapImage
  PROVE  MapForests'
<1>1. mapMade' \in Nat /\ mapMade <= mapMade'
  BY DEF MapForests
<1>2. mapPast' \in Seq(Forests(mapMade)) /\ mapFuture' \in Seq(Forests(mapMade))
  <2> DEFINE f == Forests(mapMade)
  <2>1. mapPast \in Seq(f) /\ mapFuture \in Seq(f) /\ snap \in f
    BY DEF MapForests
  <2> HIDE DEF f
  <2>2. <<>> \in Seq(f)
    OBVIOUS
  <2>3. G!Trimmed(Append(mapPast, snap)) \in Seq(f)
    BY <2>1, MapPushed
  <2>4. mapPast' \in Seq(f) /\ mapFuture' \in Seq(f)
    BY <2>1, <2>2, <2>3 DEF G!PushHistory
  <2> QED BY <2>4 DEF f
<1>3. mapImage' \subseteq Forests(mapMade)
  BY DEF MapForests
<1> QED BY <1>1, <1>2, <1>3, MapGoesOn

LEMMA NodesBound == \A k \in 1 .. MaxNodes : k <= MaxNodes
BY WindowsAssumption

\* The steps that make a node.
LEMMA MapNew ==
  ASSUME MapForests, NEW snap \in Forests(mapMade), G!New \in G!Ids, mapMade' = G!New,
         \/ mapMap' = [mapMap EXCEPT !.nodes = @ \union {G!New}]
         \/ \E p \in 1 .. mapMade :
              mapMap' = [mapMap EXCEPT !.nodes = @ \union {G!New},
                                       !.edges = @ \union {<<p, G!New>>}],
         G!PushHistory(snap), mapImage' \subseteq mapImage
  PROVE  MapForests'
<1>1. mapMade' = mapMade + 1 /\ mapMade + 1 \in G!Ids /\ mapMade \in Nat
      /\ mapMap \in Forests(mapMade)
  BY DEF G!New, MapForests
<1>2. mapMade' <= MaxNodes
  <2>1. mapMade + 1 \in 1 .. MaxNodes
    BY <1>1, Zenon DEF G!Ids
  <2>2. mapMade' \in 1 .. MaxNodes
    BY <1>1, <2>1, Zenon
  <2> QED BY <2>2, NodesBound, Zenon
<1>3. mapMap' \in Forests(mapMade + 1)
  <2>1. CASE mapMap' = [mapMap EXCEPT !.nodes = @ \union {G!New}]
    BY <1>1, <2>1, ForestsNode DEF G!New
  <2>2. CASE \E p \in 1 .. mapMade :
               mapMap' = [mapMap EXCEPT !.nodes = @ \union {G!New},
                                        !.edges = @ \union {<<p, G!New>>}]
    BY <1>1, <2>2, ForestsLeaf DEF G!New
  <2> QED BY <2>1, <2>2
<1> QED BY <1>1, <1>2, <1>3, MapEdited

LEMMA MapAddKeeps ==
  ASSUME MapForests,
         \/ G!AddNode \/ (\E n \in mapMap.nodes : G!AddChildOf(n) \/ G!AddSiblingOf(n))
         \/ (\E seen \in mapImage : G!Compressed(seen))
  PROVE  MapForests'
<1>1. /\ mapMap \in Forests(mapMade) /\ mapImage \subseteq Forests(mapMade)
      /\ mapMap.nodes \subseteq 1 .. mapMade
      /\ \A s : G!ParentsOf(s, mapMap.edges) \subseteq 1 .. mapMade
  BY DEF MapForests, Forests, G!ParentsOf
<1>2. CASE G!AddNode
  BY <1>1, <1>2, MapNew DEF G!AddNode
<1>3. ASSUME NEW n \in mapMap.nodes, G!AddChildOf(n) PROVE MapForests'
  <2>1. n \in 1 .. mapMade
    BY <1>1
  <2> QED BY <1>1, <1>3, <2>1, MapNew DEF G!AddChildOf
<1>4. ASSUME NEW n \in mapMap.nodes, G!AddSiblingOf(n) PROVE MapForests'
  BY <1>1, <1>4, MapNew DEF G!AddSiblingOf
<1>5. ASSUME NEW seen \in mapImage, G!Compressed(seen) PROVE MapForests'
  <2>1. seen \in Forests(mapMade) /\ G!PushHistory(seen) /\ mapImage' \subseteq mapImage
    BY <1>1, <1>5 DEF G!Compressed
  <2>2. CASE UNCHANGED <<mapMap, mapMade>>
    BY <1>1, <2>1, <2>2, MapEdited DEF MapForests
  <2>3. CASE /\ G!New \in G!Ids /\ mapMade' = G!New
             /\ mapMap' = [mapMap EXCEPT !.nodes = @ \union {G!New}]
    BY <2>1, <2>3, MapNew
  <2> QED BY <1>5, <2>2, <2>3 DEF G!Compressed
<1> QED BY <1>2, <1>3, <1>4, <1>5

\* Deleting, folding and unfolding take lines away at most.
LEMMA MapLessKeeps ==
  ASSUME MapForests,
         \/ \E n \in mapMap.nodes : G!DeleteNode(n) \/ G!KeyDelete(n) \/ G!ToggleCollapse(n)
         \/ \E e \in mapMap.edges : G!KeyDeleteEdge(e)
         \/ G!Restyle
  PROVE  MapForests'
<1>1. /\ mapMap \in Forests(mapMade) /\ mapMade \in Nat /\ mapMade <= MaxNodes
      /\ mapMap \in [nodes : SUBSET (1 .. mapMade),
                     edges : SUBSET ((1 .. mapMade) \X (1 .. mapMade)), shut : SUBSET G!Ids]
      /\ 1 .. mapMade \subseteq G!Ids
  BY WindowsAssumption DEF MapForests, Forests, G!Ids
<1>2. /\ UNCHANGED <<mapMade, mapImage>>
      /\ G!PushHistory(mapMap) \/ UNCHANGED <<mapPast, mapFuture>>
  BY DEF G!DeleteNode, G!KeyDelete, G!ToggleCollapse, G!KeyDeleteEdge, G!Restyle
<1>3. mapMap' \in Forests(mapMade)
  <2>1. ASSUME NEW n \in mapMap.nodes, G!DeleteNode(n) PROVE mapMap' \in Forests(mapMade)
    <3>1. mapMap' = [nodes |-> mapMap.nodes \ {n}, shut |-> mapMap.shut \ {n},
                     edges |-> {e \in mapMap.edges : n \notin {e[1], e[2]}}]
      BY <2>1 DEF G!DeleteNode
    <3>2. mapMap.shut \ {n} \subseteq G!Ids
      BY <1>1
    <3> QED BY <1>1, <3>1, <3>2, ForestsSmaller
  <2>2. ASSUME NEW n \in mapMap.nodes, G!KeyDelete(n) PROVE mapMap' \in Forests(mapMade)
    <3> DEFINE es == {e \in mapMap.edges : ~(e \in G!VisibleEdges(mapMap) /\ n \in {e[1], e[2]})}
    <3>1. mapMap' = [nodes |-> mapMap.nodes \ {n}, shut |-> mapMap.shut \ {n}, edges |-> es]
      BY <2>2 DEF G!KeyDelete
    <3>2. mapMap.shut \ {n} \subseteq G!Ids /\ es \subseteq mapMap.edges
      BY <1>1
    <3> HIDE DEF es
    <3> QED BY <1>1, <3>1, <3>2, ForestsSmaller
  <2>3. ASSUME NEW n \in mapMap.nodes, G!ToggleCollapse(n) PROVE mapMap' \in Forests(mapMade)
    <3>1. PICK shut : mapMap' = [mapMap EXCEPT !.shut = shut] /\ shut \subseteq G!Ids
      BY <1>1, <2>3 DEF G!ToggleCollapse
    <3>2. mapMap' = [nodes |-> mapMap.nodes, edges |-> mapMap.edges, shut |-> shut]
      BY <1>1, <3>1
    <3> QED BY <1>1, <3>1, <3>2, ForestsSmaller
  <2>4. ASSUME NEW e \in mapMap.edges, G!KeyDeleteEdge(e) PROVE mapMap' \in Forests(mapMade)
    <3>1. mapMap' = [nodes |-> mapMap.nodes, edges |-> mapMap.edges \ {e}, shut |-> mapMap.shut]
      BY <1>1, <2>4 DEF G!KeyDeleteEdge
    <3> QED BY <1>1, <3>1, ForestsSmaller
  <2>5. CASE G!Restyle
    BY <1>1, <2>5 DEF G!Restyle
  <2> QED BY <2>1, <2>2, <2>3, <2>4, <2>5
<1> QED BY <1>1, <1>2, <1>3, MapEdited

\* A node dropped onto another.
LEMMA MapReparentKeeps ==
  ASSUME MapForests, NEW d \in mapMap.nodes, NEW t \in mapMap.nodes, G!Reparent(d, t)
  PROVE  MapForests'
<1>1. mapMap \in Forests(mapMade) /\ mapMade \in Nat /\ mapMade <= MaxNodes
      /\ mapMap.nodes \subseteq 1 .. mapMade
  BY DEF MapForests, Forests
<1>2. /\ t # d /\ t \notin G!DescendantsOf(d, mapMap.edges)
      /\ G!PushHistory(mapMap) /\ UNCHANGED <<mapImage, mapMade>>
      /\ mapMap' = [mapMap EXCEPT !.edges = {e \in @ : e[2] # d} \union {<<t, d>>}]
  BY DEF G!Reparent
<1>3. mapMap' \in Forests(mapMade)
  BY <1>1, <1>2, ForestsMoved
<1> QED BY <1>1, <1>2, <1>3, MapEdited

\* Undo and redo move maps between the two stacks and the screen.
LEMMA Popped ==
  ASSUME NEW F, NEW s \in Seq(F), s # <<>>
  PROVE  s[Len(s)] \in F /\ SubSeq(s, 1, Len(s) - 1) \in Seq(F)
<1>1. Len(s) \in Nat /\ Len(s) >= 1
  OBVIOUS
<1>2. s[Len(s)] \in F
  BY <1>1
<1>3. SubSeq(s, 1, Len(s) - 1) \in Seq(F)
  BY <1>1
<1> QED BY <1>2, <1>3

\* What is taken from a stack was a map of the page.
LEMMA MapUndoKeeps == ASSUME MapForests, G!Undo \/ G!Redo \/ G!Paste PROVE MapForests'
<1> DEFINE f == Forests(mapMade)
<1>1. /\ mapMap \in f /\ mapPast \in Seq(f) /\ mapFuture \in Seq(f) /\ mapImage \subseteq f
      /\ mapMade' = mapMade /\ mapMade \in Nat /\ mapMade <= MaxNodes
  BY DEF MapForests, G!Undo, G!Redo, G!Paste
<1> HIDE DEF f
<1>2. CASE G!Undo
  <2>1. /\ mapPast # <<>> /\ mapMap' = mapPast[Len(mapPast)] /\ mapImage' = mapImage
        /\ mapPast' = SubSeq(mapPast, 1, Len(mapPast) - 1)
        /\ mapFuture' = Append(mapFuture, mapMap)
    BY <1>2 DEF G!Undo
  <2>2. mapMap' \in f /\ mapPast' \in Seq(f)
    BY <1>1, <2>1, Popped
  <2>3. mapFuture' \in Seq(f)
    BY <1>1, <2>1
  <2> QED BY <1>1, <2>1, <2>2, <2>3, MapGoesOn DEF f
<1>3. CASE G!Redo
  <2>1. /\ mapFuture # <<>> /\ mapMap' = mapFuture[Len(mapFuture)] /\ mapImage' = mapImage
        /\ mapFuture' = SubSeq(mapFuture, 1, Len(mapFuture) - 1)
        /\ mapPast' = Append(mapPast, mapMap)
    BY <1>3 DEF G!Redo
  <2>2. mapMap' \in f /\ mapFuture' \in Seq(f)
    BY <1>1, <2>1, Popped
  <2>3. mapPast' \in Seq(f)
    BY <1>1, <2>1
  <2> QED BY <1>1, <2>1, <2>2, <2>3, MapGoesOn DEF f
<1>4. CASE G!Paste
  <2>1. mapImage' = {mapMap} /\ UNCHANGED <<mapMap, mapPast, mapFuture>>
    BY <1>4 DEF G!Paste
  <2> QED BY <1>1, <2>1, MapGoesOn DEF f
<1> QED BY <1>2, <1>3, <1>4

\* No step of any window breaks the invariant, until a line is drawn by hand.
LEMMA MapStays == MapInv /\ [WindowsNext]_wVars => MapInv'
<1> SUFFICES ASSUME MapInv, [WindowsNext]_wVars, ~mapDrawn' PROVE MapForests'
  BY DEF MapInv
<1>1. CASE UNCHANGED mapVars
  BY <1>1 DEF MapInv, MapForests, mapVars
<1>2. CASE G!Next
  <2>1. ASSUME NEW n \in mapMap.nodes, NEW m \in mapMap.nodes, G!OnConnect(n, m) PROVE FALSE
    BY <2>1 DEF G!OnConnect
  <2>2. MapForests
    <3>1. mapDrawn' = mapDrawn
      BY <1>2, <2>1 DEF G!Next, G!AddNode, G!Restyle, G!Undo, G!Redo, G!Paste, G!Compressed,
           G!AddChildOf, G!AddSiblingOf, G!DeleteNode, G!KeyDelete, G!ToggleCollapse, G!Reparent,
           G!KeyDeleteEdge
    <3> QED BY <3>1 DEF MapInv
  <2> QED BY <1>2, <2>1, <2>2, MapAddKeeps, MapLessKeeps, MapReparentKeeps, MapUndoKeeps
          DEF G!Next
<1>3. G!Next \/ UNCHANGED mapVars
  BY DEF WindowsNext, wVars
<1> QED BY <1>1, <1>2, <1>3

\* For any number of nodes, snapshots and steps, if the saved maps are forests and no
\* line is drawn by hand: above every node that is folded away there is a folded one
\* on the screen, through drops, deletions, undo, redo and pasted images.
THEOREM FoldsOpen == ASSUME SavedUndrawn PROVE WindowsSpec => []CanUnfold
<1>1. WindowsInit => MapInv
  BY MapStarts DEF WindowsInit
<1> QED BY <1>1, MapStays, MapImplies, PTL DEF WindowsSpec

---------------------------------------------------------------------------
(***************************************************************************)
(* The chat: the running stream, the controller and the last turn of the   *)
(* screen belong together.                                                 *)
(***************************************************************************)

Turn == [asked : Questions, kind : {"assistant", "error"}, from : SUBSET Questions]

Phases == {"none", "asked", "streaming", "over", "stored", "ended"}

ChatTyped ==
  /\ streaming \in BOOLEAN /\ late \in BOOLEAN
  /\ stream \in [Questions -> Phases]
  /\ turns \in Seq(Turn)

\* The stream that runs is that of the question put last: to the end of it, for
\* until then a broken connection still changes the last turn.
SpeaksLast == \A q \in Running : turns # <<>> /\ turns[Len(turns)].asked = q

OwnAnswers == \A i \in DOMAIN turns : turns[i].from \subseteq {turns[i].asked}

ChatInOrder ==
  /\ Running \subseteq {abortRef}
  /\ streaming => Running = {abortRef}
  /\ SpeaksLast
  /\ OwnAnswers
  /\ turns = <<>> => conversation = 0

ChatInv == ChatTyped /\ (~late => ChatInOrder)

\* The property follows from the invariant: a subset of {abortRef} has at most
\* one element.
LEMMA ChatImplies == ChatInv => OneStreamAtATime
<1> SUFFICES ASSUME ChatInv, ~late PROVE OneStreamAtATime
  BY DEF OneStreamAtATime
<1>1. IsFiniteSet({abortRef}) /\ Cardinality({abortRef}) = 1
  BY FS_Singleton
<1>2. Cardinality(Running) <= 1
  <2>1. Running \subseteq {abortRef}
    BY DEF ChatInv, ChatInOrder
  <2> QED BY <1>1, <2>1, FS_Subset
<1> QED BY <1>2 DEF ChatInv, ChatInOrder, OwnAnswers, OneStreamAtATime

\* Replacing the last turn (replaceLast, applyEvent) leaves the others alone, and
\* an answer that goes to its own question keeps the answers apart.
LEMMA LastReplaced ==
  ASSUME turns \in Seq(Turn), turns # <<>>,
         NEW q \in Questions, NEW kind \in {"assistant", "error"}
  PROVE  /\ Last(Answers(q, kind)) \in Seq(Turn)
         /\ Last(Answers(q, kind)) # <<>>
         /\ Len(Last(Answers(q, kind))) = Len(turns)
         /\ Last(Answers(q, kind))[Len(turns)].asked = turns[Len(turns)].asked
         /\ OwnAnswers /\ turns[Len(turns)].asked = q =>
              \A i \in DOMAIN Last(Answers(q, kind)) :
                 Last(Answers(q, kind))[i].from \subseteq {Last(Answers(q, kind))[i].asked}
<1> DEFINE n == Len(turns)
           f == Answers(q, kind)
           new == Last(f)
<1>1. n \in Nat /\ n >= 1 /\ DOMAIN turns = 1 .. n
  OBVIOUS
<1>2. turns[n] \in Turn
  BY <1>1
<1>3. f \in Turn /\ f.asked = turns[n].asked /\ f.from = turns[n].from \union {q}
  BY <1>2 DEF Answers, Turn
<1>4. new = [turns EXCEPT ![n] = f]
  BY DEF Last
<1> HIDE DEF f
<1>5. new \in Seq(Turn) /\ Len(new) = n /\ DOMAIN new = 1 .. n
  BY <1>1, <1>3, <1>4
<1>6. \A i \in DOMAIN turns : new[i] = IF i = n THEN f ELSE turns[i]
  BY <1>4
<1> HIDE DEF new
<1>7. new # <<>>
  BY <1>1, <1>5
<1>8. ASSUME OwnAnswers, turns[n].asked = q
      PROVE  \A i \in DOMAIN new : new[i].from \subseteq {new[i].asked}
  BY <1>1, <1>3, <1>5, <1>6, <1>8 DEF OwnAnswers
<1> QED BY <1>3, <1>5, <1>6, <1>7, <1>8 DEF new, f

\* A step that leaves the turns alone and starts no stream keeps the last speaker.
LEMMA ChatQuiet ==
  ASSUME SpeaksLast, OwnAnswers, UNCHANGED turns, Running' \subseteq Running
  PROVE  SpeaksLast' /\ OwnAnswers'
BY DEF SpeaksLast, OwnAnswers

LEMMA ChatStarts == Init => ChatInv
<1> SUFFICES ASSUME Init PROVE ChatInv
  OBVIOUS
<1>1. turns = <<>> /\ stream = [q \in Questions |-> "none"] /\ streaming = FALSE
      /\ late = FALSE /\ conversation = 0
  BY DEF Init
<1>2. <<>> \in Seq(Turn) /\ DOMAIN <<>> = {}
  OBVIOUS
<1>3. ChatTyped
  BY <1>1, <1>2 DEF ChatTyped, Phases
<1>4. Running = {}
  BY <1>1 DEF Running
<1>5. SpeaksLast /\ OwnAnswers
  BY <1>1, <1>2, <1>4 DEF SpeaksLast, OwnAnswers
<1> QED BY <1>1, <1>3, <1>4, <1>5 DEF ChatInv, ChatInOrder

---------------------------------------------------------------------------
(***************************************************************************)
(* The user's steps.                                                       *)
(***************************************************************************)

\* send appends a turn of its own and, when nothing is running, its stream is the
\* only one.
LEMMA ChatSendKeeps == ChatInv /\ Send => ChatInv'
<1> SUFFICES ASSUME ChatInv, Send PROVE ChatInv'
  OBVIOUS
<1>1. PICK q \in Questions :
        /\ stream[q] = "none"
        /\ streaming' = TRUE /\ abortRef' = q
        /\ turns' = Append(turns, [asked |-> q, kind |-> "assistant", from |-> {}])
        /\ stream' = [stream EXCEPT ![q] = "asked"]
        /\ late' = (late \/ Running # {})
  BY DEF Send
<1> DEFINE t == [asked |-> q, kind |-> "assistant", from |-> {}]
<1>2. t \in Turn /\ t.asked = q /\ t.from = {}
  BY DEF Turn
<1>3. turns \in Seq(Turn) /\ stream \in [Questions -> Phases] /\ late \in BOOLEAN
  BY DEF ChatInv, ChatTyped
<1> HIDE DEF t
<1>4. /\ turns' \in Seq(Turn) /\ turns' # <<>> /\ turns'[Len(turns')] = t
      /\ \A i \in DOMAIN turns' : turns'[i] = t \/ (i \in DOMAIN turns /\ turns'[i] = turns[i])
  <2>1. turns' = Append(turns, t)
    BY <1>1 DEF t
  <2> QED BY <1>2, <1>3, <2>1
<1>5. ChatTyped'
  BY <1>1, <1>3, <1>4 DEF ChatTyped, Phases
<1>6. ASSUME ~late' PROVE ChatInOrder'
  <2>1. ~late /\ Running = {} /\ ChatInOrder
    BY <1>1, <1>6 DEF ChatInv
  <2>2. Running' = {q}
    BY <1>1, <1>3, <2>1 DEF Running
  <2>3. SpeaksLast'
    BY <1>1, <1>2, <1>4, <2>2 DEF SpeaksLast, Running
  <2>4. OwnAnswers'
    BY <1>2, <1>4, <2>1 DEF OwnAnswers, ChatInOrder
  <2> QED BY <1>1, <1>4, <2>2, <2>3, <2>4 DEF ChatInOrder
<1> QED BY <1>5, <1>6 DEF ChatInv

\* abort and reset end the only stream that runs.
LEMMA ChatStopKeeps == ChatInv /\ (Abort \/ Reset) => ChatInv'
<1> SUFFICES ASSUME ChatInv, Abort \/ Reset PROVE ChatInv'
  OBVIOUS
<1>1. stream \in [Questions -> Phases] /\ turns \in Seq(Turn) /\ late \in BOOLEAN
  BY DEF ChatInv, ChatTyped
<1>2. stream' = Stopped /\ streaming' = FALSE
  BY DEF Abort, Reset
<1>3. stream' \in [Questions -> Phases]
  BY <1>1, <1>2 DEF Stopped, Phases
<1>4. turns' \in Seq(Turn)
  <2>1. turns' = turns \/ turns' = <<>>
    BY DEF Abort, Reset
  <2>2. <<>> \in Seq(Turn)
    OBVIOUS
  <2> QED BY <1>1, <2>1, <2>2, Zenon
<1>5. ChatTyped'
  <2>1. late' = late \/ late' = (late \/ \E q \in Running : q # abortRef)
    BY DEF Abort, Reset
  <2>2. late' \in BOOLEAN
    <3>1. ASSUME NEW b \in BOOLEAN, late' = (late \/ b) PROVE late' \in BOOLEAN
      BY <3>1, Zenon
    <3> QED BY <1>1, <2>1, <3>1, Zenon
  <2> QED BY <1>2, <1>3, <1>4, <2>2 DEF ChatTyped
<1>6. ASSUME ~late' PROVE ChatInOrder'
  <2>1. ~late /\ ChatInOrder
    BY <1>1, <1>6 DEF Abort, Reset, ChatInv
  <2>2. Running' = {}
    BY <1>2, <2>1 DEF Running, ChatInOrder, Stopped
  <2>3. SpeaksLast'
    BY <2>2 DEF SpeaksLast, Running
  <2>4. OwnAnswers' /\ (turns' = <<>> => conversation' = 0)
    BY <2>1 DEF Abort, Reset, ChatInOrder, OwnAnswers
  <2> QED BY <1>2, <2>2, <2>3, <2>4 DEF ChatInOrder
<1> QED BY <1>5, <1>6 DEF ChatInv

---------------------------------------------------------------------------
(***************************************************************************)
(* The steps of the handler and the stream.                                *)
(***************************************************************************)

LEMMA ChatServeKeeps == ASSUME ChatInv, NEW q \in Questions, Serve(q) PROVE ChatInv'
<1>1. stream \in [Questions -> Phases] /\ stream[q] = "asked"
      /\ stream' = [stream EXCEPT ![q] = "streaming"]
      /\ UNCHANGED <<streaming, abortRef, turns, late>>
  BY DEF ChatInv, ChatTyped, Serve
<1>2. ChatTyped'
  BY <1>1 DEF ChatInv, ChatTyped, Phases
<1>3. ASSUME ~late' PROVE ChatInOrder'
  <2>1. ChatInOrder
    BY <1>1, <1>3 DEF ChatInv
  <2>2. Running' = Running
    BY <1>1 DEF Running
  <2>3. SpeaksLast' /\ OwnAnswers'
    BY <1>1, <2>1, <2>2, ChatQuiet DEF ChatInOrder
  <2>4. turns' # <<>>
    BY <1>1, <2>1 DEF ChatInOrder, SpeaksLast, Running
  <2> QED BY <1>1, <2>1, <2>2, <2>3, <2>4 DEF ChatInOrder
<1> QED BY <1>2, <1>3 DEF ChatInv

\* What the last turn becomes when its stream breaks off or reports an error.
LEMMA ChatFailureKeeps == ASSUME ChatInv, NEW q \in Questions, Refuse(q) \/ Cut(q) PROVE ChatInv'
<1>1. /\ stream \in [Questions -> Phases] /\ turns \in Seq(Turn) /\ late \in BOOLEAN
      /\ stream[q] \in {"asked", "streaming", "over", "stored"}
      /\ streaming' = FALSE /\ stream' = [stream EXCEPT ![q] = "ended"]
      /\ UNCHANGED <<conversation, late>>
  BY DEF ChatInv, ChatTyped, Refuse, Cut, Finally
<1>2. turns' = IF turns = <<>> THEN <<[asked |-> q, kind |-> "error", from |-> {q}]>>
               ELSE Last(Answers(q, "error"))
  BY DEF Refuse, Cut
<1>3. [asked |-> q, kind |-> "error", from |-> {q}] \in Turn
  BY DEF Turn
<1>4. turns' \in Seq(Turn)
  BY <1>1, <1>2, <1>3, LastReplaced
<1>5. ChatTyped'
  BY <1>1, <1>4 DEF ChatTyped, Phases
<1>6. ASSUME ~late' PROVE ChatInOrder'
  <2>1. ChatInOrder /\ turns # <<>> /\ turns[Len(turns)].asked = q
    BY <1>1, <1>6 DEF ChatInv, ChatInOrder, SpeaksLast, Running
  <2>2. OwnAnswers' /\ turns' # <<>>
    BY <1>1, <1>2, <2>1, LastReplaced DEF ChatInOrder, OwnAnswers
  <2>3. Running' = {}
    BY <1>1, <2>1 DEF Running, ChatInOrder
  <2>4. SpeaksLast'
    BY <2>3 DEF SpeaksLast, Running
  <2> QED BY <1>1, <2>2, <2>3, <2>4 DEF ChatInOrder
<1> QED BY <1>5, <1>6 DEF ChatInv

\* Text and the error event go to the last turn, which is the question's own.
LEMMA ChatAnswerKeeps == ASSUME ChatInv, NEW q \in Questions, Text(q) \/ Over(q) PROVE ChatInv'
<1>1. /\ stream \in [Questions -> Phases] /\ turns \in Seq(Turn)
      /\ streaming \in BOOLEAN /\ late \in BOOLEAN
      /\ stream[q] = "streaming"
      /\ UNCHANGED <<abortRef, conversation, late>>
  BY DEF ChatInv, ChatTyped, Text, Over
<1>2. \/ stream' = stream /\ streaming' = streaming
      \/ stream' = [stream EXCEPT ![q] = "over"] /\ streaming' = FALSE
  BY DEF Text, Over
<1>3. \/ turns' = turns
      \/ \E kind \in {"assistant", "error"} : turns # <<>> /\ turns' = Last(Answers(q, kind))
  BY DEF Text, Over
<1>4. turns' \in Seq(Turn)
  BY <1>1, <1>3, LastReplaced
<1>5. ChatTyped'
  BY <1>1, <1>2, <1>4 DEF ChatTyped, Phases
<1>6. ASSUME ~late' PROVE ChatInOrder'
  <2>1. ChatInOrder /\ turns # <<>> /\ turns[Len(turns)].asked = q
    BY <1>1, <1>6 DEF ChatInv, ChatInOrder, SpeaksLast, Running
  <2>2. Running' = Running /\ Running \subseteq {q}
    BY <1>1, <1>2, <2>1 DEF Running, ChatInOrder
  <2>3. OwnAnswers' /\ turns' # <<>> /\ turns'[Len(turns')].asked = q
    <3>1. CASE turns' = turns
      BY <2>1, <3>1 DEF OwnAnswers, ChatInOrder
    <3>2. ASSUME NEW kind \in {"assistant", "error"}, turns' = Last(Answers(q, kind))
          PROVE  OwnAnswers' /\ turns' # <<>> /\ turns'[Len(turns')].asked = q
      BY <1>1, <2>1, <3>2, LastReplaced DEF OwnAnswers, ChatInOrder
    <3> QED BY <1>3, <3>1, <3>2
  <2>4. SpeaksLast'
    BY <2>2, <2>3 DEF SpeaksLast, Running
  <2> QED BY <1>1, <1>2, <2>1, <2>2, <2>3, <2>4 DEF ChatInOrder
<1> QED BY <1>5, <1>6 DEF ChatInv

LEMMA ChatCloseKeeps == ASSUME ChatInv, NEW q \in Questions, Store(q) \/ End(q) PROVE ChatInv'
<1>1. /\ stream \in [Questions -> Phases] /\ stream[q] \in {"over", "stored"}
      /\ UNCHANGED <<conversation, turns, late>>
      /\ \/ /\ stream' = [stream EXCEPT ![q] = "stored"]
            /\ UNCHANGED <<streaming, abortRef>>
         \/ stream' = [stream EXCEPT ![q] = "ended"] /\ streaming' = FALSE
  BY DEF ChatInv, ChatTyped, Store, End, Finally
<1>2. ChatTyped'
  BY <1>1 DEF ChatInv, ChatTyped, Phases
<1>3. ASSUME ~late' PROVE ChatInOrder'
  <2>1. ChatInOrder /\ Running \subseteq {q}
    BY <1>1, <1>3 DEF ChatInv, ChatInOrder, Running
  <2>2. SpeaksLast' /\ OwnAnswers'
    <3>1. Running' \subseteq Running
      BY <1>1 DEF Running
    <3> QED BY <1>1, <2>1, <3>1, ChatQuiet DEF ChatInOrder
  <2>3. CASE stream' = [stream EXCEPT ![q] = "stored"] /\ UNCHANGED <<streaming, abortRef>>
    <3>1. Running' = Running
      BY <1>1, <2>3 DEF Running
    <3> QED BY <1>1, <2>1, <2>2, <2>3, <3>1 DEF ChatInOrder
  <2>4. CASE stream' = [stream EXCEPT ![q] = "ended"] /\ streaming' = FALSE
    <3>1. Running' = {}
      BY <1>1, <2>1, <2>4 DEF Running
    <3> QED BY <1>1, <2>1, <2>2, <2>4, <3>1 DEF ChatInOrder
  <2> QED BY <1>1, <2>3, <2>4
<1> QED BY <1>2, <1>3 DEF ChatInv

\* No step of any window breaks the invariant.
LEMMA ChatStays == ChatInv /\ [WindowsNext]_wVars => ChatInv'
<1> SUFFICES ASSUME ChatInv, [WindowsNext]_wVars PROVE ChatInv'
  OBVIOUS
<1>1. CASE UNCHANGED vars
  BY <1>1 DEF vars, ChatInv, ChatTyped, ChatInOrder, Running, SpeaksLast, OwnAnswers
<1>2. CASE Next
  <2>1. ASSUME NEW q \in Questions,
               Serve(q) \/ Refuse(q) \/ Text(q) \/ Over(q) \/ Store(q) \/ Cut(q) \/ End(q)
        PROVE  ChatInv'
    BY <2>1, ChatServeKeeps, ChatFailureKeeps, ChatAnswerKeeps, ChatCloseKeeps
  <2> QED BY <1>2, <2>1, ChatSendKeeps, ChatStopKeeps DEF Next
<1>3. Next \/ UNCHANGED vars
  BY DEF WindowsNext, wVars
<1> QED BY <1>1, <1>2, <1>3

\* However many questions are asked and however long their answers are: as long
\* as nobody asks or resets between the last event of an answer and the end of its
\* stream, one stream runs at a time, the stop button holds it, and every answer
\* stands under its own question.
THEOREM AnswersStayApart == WindowsSpec => []OneStreamAtATime
<1>1. WindowsInit => ChatInv
  BY ChatStarts DEF WindowsInit
<1> QED BY <1>1, ChatStays, ChatImplies, PTL DEF WindowsSpec
=============================================================================
