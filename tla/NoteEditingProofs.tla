------------------------- MODULE NoteEditingProofs -------------------------
(***************************************************************************)
(* What the editors of a meeting note keep, for any number of pages, edits *)
(* and requests: only pages in which something was typed write, and a page *)
(* at rest whose saves met nothing shows what the server has.              *)
(***************************************************************************)
EXTENDS NoteEditing, TLAPS

\* Documents whose edits have been made when clients have typed t.
Docs(t) == {d \in SUBSET (Clients \X Nat) : \A e \in d : e[2] <= t[e[1]]}

PageOf(D) == [note : D, saving : {"idle", "saving", "saved", "error"},
              get : {"none", "sent", "served"}, got : D, gets : Nat, closes : Nat]

EditorOf(D) == [shown : BOOLEAN, text : D, marker : SUBSET D, dirty : SUBSET D,
                timer : BOOLEAN]

OrphanOf(D) == [client : Clients, dirty : SUBSET D, marker : SUBSET D]

\* The number of a request plays no part in what follows.
CallOf(D, nrs) == [client : Clients, doc : D, live : BOOLEAN, gone : BOOLEAN,
                   state : {"sent", "done", "failed"}, nr : nrs]

IsCall(m, D) == m \in CallOf(D, {m.nr})

TypedWith(D) ==
  /\ stored \in D
  /\ page \in [Clients -> PageOf(D)]
  /\ editor \in [Clients -> EditorOf(D)]
  /\ orphans \subseteq OrphanOf(D)
  /\ \A m \in calls : IsCall(m, D)

TypeOK ==
  /\ kind \in {"body", "mindmap", "drawio"}
  /\ typed \in [Clients -> Nat]
  /\ crossed \in [Clients -> BOOLEAN]
  /\ TypedWith(Docs(typed))

---------------------------------------------------------------------------
(* Types.                                                                  *)

LEMMA EmptyDoc == \A t : {} \in Docs(t)
  BY DEF Docs

\* Typing makes documents possible and none impossible.
LEMMA DocsGrow ==
  ASSUME NEW t \in [Clients -> Nat], NEW c \in Clients
  PROVE  Docs(t) \subseteq Docs([t EXCEPT ![c] = @ + 1])
<1> DEFINE u == [t EXCEPT ![c] = @ + 1]
<1>1. \A d \in Clients : u[d] \in Nat /\ t[d] \in Nat /\ t[d] <= u[d]
  OBVIOUS
<1> HIDE DEF u
<1>2. ASSUME NEW d \in Docs(t) PROVE d \in Docs(u)
  <2>1. d \in SUBSET (Clients \X Nat)
    BY DEF Docs
  <2>2. ASSUME NEW e \in d PROVE e[2] <= u[e[1]]
    <3>1. e \in Clients \X Nat
      BY <2>1
    <3>2. e[1] \in Clients /\ e[2] \in Nat
      BY <3>1
    <3>3. e[2] <= t[e[1]]
      BY DEF Docs
    <3> QED
      BY <3>2, <3>3, <1>1
  <2> QED
    BY <2>1, <2>2 DEF Docs
<1> QED
  BY <1>2 DEF u

\* The document an edit leaves is one that can be made now, and none that was
\* there before.
LEMMA EditIsNew ==
  ASSUME NEW t \in [Clients -> Nat], NEW c \in Clients, NEW d \in Docs(t)
  PROVE  /\ d \union {<<c, t[c] + 1>>} \in Docs([t EXCEPT ![c] = @ + 1])
         /\ d \union {<<c, t[c] + 1>>} \notin Docs(t)
<1> DEFINE u == [t EXCEPT ![c] = @ + 1]
           n == t[c] + 1
<1>1. /\ n \in Nat /\ t[c] \in Nat /\ ~ n <= t[c]
      /\ u[c] = n
  OBVIOUS
<1>2. <<c, n>>[1] = c /\ <<c, n>>[2] = n
  OBVIOUS
<1>3. d \in Docs(u)
  BY DocsGrow
<1> HIDE DEF u, n
<1>4. d \union {<<c, n>>} \in Docs(u)
  <2>1. d \union {<<c, n>>} \in SUBSET (Clients \X Nat)
    BY <1>1, <1>3 DEF Docs
  <2>2. ASSUME NEW e \in d \union {<<c, n>>} PROVE e[2] <= u[e[1]]
    <3>1. CASE e \in d
      BY <3>1, <1>3 DEF Docs
    <3>2. CASE e = <<c, n>>
      BY <3>2, <1>1, <1>2
    <3> QED
      BY <3>1, <3>2
  <2> QED
    BY <2>1, <2>2 DEF Docs
<1>5. d \union {<<c, n>>} \notin Docs(t)
  <2> SUFFICES ASSUME d \union {<<c, n>>} \in Docs(t) PROVE FALSE
    OBVIOUS
  <2>1. <<c, n>> \in d \union {<<c, n>>}
    OBVIOUS
  <2>2. <<c, n>>[2] <= t[<<c, n>>[1]]
    BY <2>1 DEF Docs
  <2> QED
    BY <2>2, <1>1, <1>2
<1> QED
  BY <1>4, <1>5 DEF u, n

\* More documents, more types.
LEMMA TypedMore ==
  ASSUME NEW D, NEW E, D \subseteq E, TypedWith(D)
  PROVE  TypedWith(E)
<1>1. stored \in E
  BY DEF TypedWith
<1>2. page \in [Clients -> PageOf(E)]
  <2>1. PageOf(D) \subseteq PageOf(E)
    BY DEF PageOf
  <2> QED
    BY <2>1 DEF TypedWith
<1>3. editor \in [Clients -> EditorOf(E)]
  <2>1. SUBSET D \subseteq SUBSET E
    OBVIOUS
  <2>2. EditorOf(D) \subseteq EditorOf(E)
    BY <2>1 DEF EditorOf
  <2> QED
    BY <2>2 DEF TypedWith
<1>4. orphans \subseteq OrphanOf(E)
  <2>1. SUBSET D \subseteq SUBSET E
    OBVIOUS
  <2>2. OrphanOf(D) \subseteq OrphanOf(E)
    BY <2>1 DEF OrphanOf
  <2> QED
    BY <2>2 DEF TypedWith
<1>5. \A m \in calls : IsCall(m, E)
  <2> SUFFICES ASSUME NEW m \in calls PROVE IsCall(m, E)
    OBVIOUS
  <2>1. IsCall(m, D)
    BY DEF TypedWith
  <2> QED
    BY <2>1 DEF IsCall, CallOf
<1> QED
  BY <1>1, <1>2, <1>3, <1>4, <1>5 DEF TypedWith

---------------------------------------------------------------------------
(* What the operators make.                                                *)

LEMMA UnmountedType == \A D : {} \in D => Unmounted \in EditorOf(D)
  BY DEF Unmounted, EditorOf

LEMMA MountedType ==
  ASSUME NEW D, NEW d \in D
  PROVE  Mounted(d) \in EditorOf(D)
<1>1. (kind = "mindmap") \in BOOLEAN
  OBVIOUS
<1>2. (IF kind = "mindmap" THEN {} ELSE {d}) \in SUBSET D
  OBVIOUS
<1> QED
  BY <1>1, <1>2 DEF Mounted, EditorOf

LEMMA TypedType ==
  ASSUME NEW D, NEW d \in D, NEW e \in EditorOf(D)
  PROVE  Typed(e, d) \in EditorOf(D)
<1>1. (IF kind = "drawio" THEN {d} ELSE {}) \in SUBSET D
  OBVIOUS
<1> QED
  BY <1>1 DEF Typed, EditorOf

LEMMA ToSendType ==
  ASSUME NEW D, NEW e \in EditorOf(D)
  PROVE  ToSend(e) \subseteq D
  BY DEF ToSend, EditorOf

LEMMA RememberedType ==
  ASSUME NEW D, NEW d \in D, NEW e \in EditorOf(D)
  PROVE  Remembered(e, d) \in EditorOf(D)
<1>1. {d} \in SUBSET D
  OBVIOUS
<1> QED
  BY <1>1 DEF Remembered, EditorOf

LEMMA AnsweredType ==
  ASSUME NEW D, NEW m, IsCall(m, D), NEW p \in PageOf(D)
  PROVE  Answered(p, m) \in PageOf(D)
<1>1. m.doc \in D
  BY DEF IsCall, CallOf
<1> QED
  BY <1>1 DEF Answered, PageOf

LEMMA RequestType ==
  ASSUME NEW D, NEW c \in Clients, NEW d \in D, NEW live \in BOOLEAN, NEW gone \in BOOLEAN
  PROVE  /\ IsCall(Request(c, d, live, gone), D)
         /\ Request(c, d, live, gone).client = c
         /\ Request(c, d, live, gone).doc = d
         /\ Request(c, d, live, gone).live = live
         /\ Request(c, d, live, gone).gone = gone
         /\ Request(c, d, live, gone).state = "sent"
<1> DEFINE nr == CHOOSE n \in 1 .. MaxCalls + 1 : \A m \in calls : m.nr # n
<1>1. Request(c, d, live, gone)
        = [client |-> c, doc |-> d, live |-> live, gone |-> gone, state |-> "sent", nr |-> nr]
  BY DEF Request
<1> HIDE DEF nr
<1>2. \A q : q = [client |-> c, doc |-> d, live |-> live, gone |-> gone,
                  state |-> "sent", nr |-> nr]
             => /\ IsCall(q, D)
                /\ q.client = c /\ q.doc = d /\ q.live = live /\ q.gone = gone
                /\ q.state = "sent"
  BY DEF IsCall, CallOf
<1> QED
  BY <1>1, <1>2, Zenon

LEMMA RequestFrom == \A c, d, live, gone : Request(c, d, live, gone).client = c
  BY DEF Request

\* What the end of an editor or of a window makes of a request on the wire.
Cut(m, c) == [m EXCEPT !.live = @ /\ m.client # c]
Left(m, c) == [m EXCEPT !.gone = @ \/ m.client = c, !.live = @ /\ m.client # c]

LEMMA CutType ==
  ASSUME NEW D, NEW m, IsCall(m, D), NEW c
  PROVE  /\ IsCall(Cut(m, c), D)
         /\ Cut(m, c).client = m.client
         /\ Cut(m, c).doc = m.doc
         /\ Cut(m, c).gone = m.gone
         /\ Cut(m, c).state = m.state
         /\ m.client # c => Cut(m, c) = m
<1> DEFINE l == m.live /\ m.client # c
           q == [m EXCEPT !.live = l]
<1>1. l \in BOOLEAN
  OBVIOUS
<1>2. Cut(m, c) = q
  BY DEF Cut
<1>3. m.client # c => l = m.live
  BY DEF IsCall, CallOf
<1> HIDE DEF l
<1>4. /\ q.client = m.client /\ q.doc = m.doc /\ q.gone = m.gone /\ q.state = m.state
      /\ q.nr = m.nr /\ q.live = l
      /\ q = [client |-> m.client, doc |-> m.doc, live |-> l, gone |-> m.gone,
              state |-> m.state, nr |-> m.nr]
  BY DEF IsCall, CallOf
<1> HIDE DEF q
<1>5. IsCall(q, D)
  BY <1>1, <1>4 DEF IsCall, CallOf
<1>6. m.client # c => q = m
  BY <1>3, <1>4 DEF IsCall, CallOf
<1> QED
  BY <1>2, <1>4, <1>5, <1>6

LEMMA LeftType ==
  ASSUME NEW D, NEW m, IsCall(m, D), NEW c
  PROVE  /\ IsCall(Left(m, c), D)
         /\ Left(m, c).client = m.client
         /\ m.client # c => Left(m, c) = m
<1> DEFINE l == m.live /\ m.client # c
           g == m.gone \/ m.client = c
           q == [m EXCEPT !.gone = g, !.live = l]
<1>1. l \in BOOLEAN /\ g \in BOOLEAN
  OBVIOUS
<1>2. Left(m, c) = q
  BY DEF Left
<1>3. m.client # c => l = m.live /\ g = m.gone
  <2>1. m.live \in BOOLEAN /\ m.gone \in BOOLEAN
    BY DEF IsCall, CallOf
  <2>2. m.client # c => l = m.live
    BY <2>1, Zenon
  <2>3. m.client # c => g = m.gone
    <3>1. CASE m.gone = TRUE
      BY <3>1
    <3>2. CASE m.gone = FALSE
      BY <3>2
    <3> QED
      BY <2>1, <3>1, <3>2, Zenon
  <2> QED
    BY <2>2, <2>3
<1> HIDE DEF l, g
<1>4. /\ q.client = m.client /\ q.doc = m.doc /\ q.gone = g /\ q.state = m.state
      /\ q.nr = m.nr /\ q.live = l
      /\ q = [client |-> m.client, doc |-> m.doc, live |-> l, gone |-> g,
              state |-> m.state, nr |-> m.nr]
  <2> DEFINE h == [m EXCEPT !.gone = g]
  <2>1. /\ h \in CallOf(D, {m.nr})
        /\ h.client = m.client /\ h.doc = m.doc /\ h.gone = g /\ h.state = m.state
        /\ h.nr = m.nr
    BY <1>1 DEF IsCall, CallOf
  <2>2. q = [h EXCEPT !.live = l]
    OBVIOUS
  <2> HIDE DEF h, q
  <2> QED
    BY <2>1, <2>2 DEF CallOf
<1> HIDE DEF q
<1>5. IsCall(q, D)
  BY <1>1, <1>4 DEF IsCall, CallOf
<1>6. m.client # c => q = m
  BY <1>3, <1>4 DEF IsCall, CallOf
<1> QED
  BY <1>2, <1>4, <1>5, <1>6

\* The server does a request, or it fails.
LEMMA StateType ==
  ASSUME NEW D, NEW m, IsCall(m, D), NEW s \in {"sent", "done", "failed"}
  PROVE  /\ IsCall([m EXCEPT !.state = s], D)
         /\ [m EXCEPT !.state = s].client = m.client
         /\ [m EXCEPT !.state = s].doc = m.doc
         /\ [m EXCEPT !.state = s].live = m.live
         /\ [m EXCEPT !.state = s].gone = m.gone
         /\ [m EXCEPT !.state = s].state = s
<1> DEFINE q == [m EXCEPT !.state = s]
<1>1. /\ q.client = m.client /\ q.doc = m.doc /\ q.gone = m.gone /\ q.state = s
      /\ q.nr = m.nr /\ q.live = m.live
      /\ q = [client |-> m.client, doc |-> m.doc, live |-> m.live, gone |-> m.gone,
              state |-> s, nr |-> m.nr]
  BY DEF IsCall, CallOf
<1> HIDE DEF q
<1>2. IsCall(q, D)
  BY <1>1 DEF IsCall, CallOf
<1> QED
  BY <1>1, <1>2 DEF q

---------------------------------------------------------------------------
(* Types are kept.                                                         *)

D0 == Docs(typed)

\* A step that types nothing keeps the documents there can be.
LEMMA TypedSame ==
  ASSUME TypeOK, kind' = kind, typed' = typed, crossed' \in [Clients -> BOOLEAN],
         stored' \in D0, page' \in [Clients -> PageOf(D0)],
         editor' \in [Clients -> EditorOf(D0)], orphans' \subseteq OrphanOf(D0),
         \A m \in calls' : IsCall(m, D0)
  PROVE  TypeOK'
<1>1. Docs(typed)' = D0
  BY DEF Docs, D0
<1>2. TypedWith(Docs(typed))'
  BY <1>1 DEF TypedWith
<1> QED
  BY <1>2 DEF TypeOK

\* What a typed state has.
LEMMA Held ==
  ASSUME TypeOK
  PROVE  /\ crossed \in [Clients -> BOOLEAN] /\ typed \in [Clients -> Nat]
         /\ stored \in D0 /\ page \in [Clients -> PageOf(D0)]
         /\ editor \in [Clients -> EditorOf(D0)] /\ orphans \subseteq OrphanOf(D0)
         /\ \A m \in calls : IsCall(m, D0) /\ m.client \in Clients
         /\ {} \in D0 /\ Unmounted \in EditorOf(D0)
<1>1. \A m \in calls : IsCall(m, D0) /\ m.client \in Clients
  BY DEF TypeOK, TypedWith, D0, IsCall, CallOf
<1> QED
  BY <1>1, EmptyDoc, UnmountedType DEF TypeOK, TypedWith, D0

\* Sending a document there can be.
LEMMA SendType ==
  ASSUME TypeOK, NEW c \in Clients, NEW d \in D0, NEW live \in BOOLEAN, Send(c, d, live)
  PROVE  /\ \A m \in calls' : IsCall(m, D0)
         /\ page' \in [Clients -> PageOf(D0)]
         /\ crossed' \in [Clients -> BOOLEAN]
<1>1. \A m \in calls' : IsCall(m, D0)
  <2>1. FALSE \in BOOLEAN
    OBVIOUS
  <2>2. IsCall(Request(c, d, live, FALSE), D0)
    BY <2>1, RequestType
  <2> QED
    BY <2>2, Held DEF Send
<1>2. page' \in [Clients -> PageOf(D0)]
  <2>1. page[c] \in PageOf(D0)
    BY Held
  <2>2. [page[c] EXCEPT !.saving = "saving"] \in PageOf(D0)
    BY <2>1 DEF PageOf
  <2>3. page' = [page EXCEPT ![c] = [page[c] EXCEPT !.saving = "saving"]]
    BY DEF Send
  <2> HIDE DEF D0
  <2> QED
    BY <2>2, <2>3, Held
<1>3. crossed' \in [Clients -> BOOLEAN]
  <2>1. (crossed[c] \/ Own(c) # {} \/ page[c].get # "none") \in BOOLEAN
    OBVIOUS
  <2>2. crossed' = [crossed EXCEPT ![c] = crossed[c] \/ Own(c) # {} \/ page[c].get # "none"]
    BY DEF Send
  <2> QED
    BY <2>1, <2>2, Held
<1> QED
  BY <1>1, <1>2, <1>3

LEMMA SaveType ==
  ASSUME TypeOK, NEW c \in Clients, Save(c)
  PROVE  /\ \A m \in calls' : IsCall(m, D0)
         /\ page' \in [Clients -> PageOf(D0)]
         /\ crossed' \in [Clients -> BOOLEAN]
         /\ editor' \in [Clients -> EditorOf(D0)]
<1>1. editor[c] \in EditorOf(D0)
  BY Held
<1>2. CASE ToSend(editor[c]) = {} /\ editor' = [editor EXCEPT ![c].timer = FALSE]
           /\ UNCHANGED <<page, calls, crossed>>
  <2>1. [editor[c] EXCEPT !.timer = FALSE] \in EditorOf(D0)
    BY <1>1 DEF EditorOf
  <2>2. editor' = [editor EXCEPT ![c] = [editor[c] EXCEPT !.timer = FALSE]]
    BY <1>2
  <2>3. editor' \in [Clients -> EditorOf(D0)]
    BY <2>1, <2>2, Held
  <2> QED
    BY <1>2, <2>3, Held
<1>3. ASSUME NEW d \in ToSend(editor[c]), Send(c, d, TRUE),
             editor' = [editor EXCEPT ![c] = Remembered(editor[c], d)]
      PROVE  /\ \A m \in calls' : IsCall(m, D0)
             /\ page' \in [Clients -> PageOf(D0)]
             /\ crossed' \in [Clients -> BOOLEAN]
             /\ editor' \in [Clients -> EditorOf(D0)]
  <2>1. d \in D0
    BY <1>1, ToSendType
  <2>2. Remembered(editor[c], d) \in EditorOf(D0)
    BY <1>1, <2>1, RememberedType
  <2>3. TRUE \in BOOLEAN
    OBVIOUS
  <2>4. /\ \A m \in calls' : IsCall(m, D0)
        /\ page' \in [Clients -> PageOf(D0)]
        /\ crossed' \in [Clients -> BOOLEAN]
    BY <1>3, <2>1, <2>3, SendType
  <2>5. editor' \in [Clients -> EditorOf(D0)]
    BY <1>3, <2>2, Held
  <2> QED
    BY <2>4, <2>5
<1> QED
  BY <1>2, <1>3 DEF Save

LEMMA OpenTabType ==
  ASSUME TypeOK, NEW c \in Clients, OpenTab(c)
  PROVE  TypeOK'
<1>1. page[c] \in PageOf(D0) /\ page[c].note \in D0
  BY Held DEF PageOf
<1>2. Mounted(page[c].note) \in EditorOf(D0)
  BY <1>1, MountedType
<1>3. editor' \in [Clients -> EditorOf(D0)]
  BY <1>2, Held DEF OpenTab
<1>4. crossed' \in [Clients -> BOOLEAN]
  <2>1. crossed' = [crossed EXCEPT ![c] = crossed[c] \/ Unfinished(c)]
    BY DEF OpenTab
  <2>2. (crossed[c] \/ Unfinished(c)) \in BOOLEAN
    OBVIOUS
  <2> QED
    BY <2>1, <2>2, Held
<1>5. kind' = kind /\ typed' = typed /\ stored' = stored /\ page' = page
      /\ orphans' = orphans /\ calls' = calls
  BY DEF OpenTab
<1> QED
  BY <1>3, <1>4, <1>5, Held, TypedSame

LEMMA LeaveTabType ==
  ASSUME TypeOK, NEW c \in Clients, LeaveTab(c)
  PROVE  TypeOK'
<1>1. editor' \in [Clients -> EditorOf(D0)]
  BY Held DEF LeaveTab
<1>2. \A m \in calls' : IsCall(m, D0)
  BY Held, CutType DEF LeaveTab, Disown, Cut
<1>3. orphans' \subseteq OrphanOf(D0)
  <2>1. editor[c] \in EditorOf(D0)
    BY Held
  <2>2. [client |-> c, dirty |-> editor[c].dirty, marker |-> editor[c].marker] \in OrphanOf(D0)
    BY <2>1 DEF EditorOf, OrphanOf
  <2> QED
    BY <2>2, Held DEF LeaveTab
<1>4. kind' = kind /\ typed' = typed /\ stored' = stored /\ page' = page /\ crossed' = crossed
  BY DEF LeaveTab
<1> QED
  BY <1>1, <1>2, <1>3, <1>4, Held, TypedSame

LEMMA EditType ==
  ASSUME TypeOK, NEW c \in Clients, Edit(c)
  PROVE  TypeOK'
<1> DEFINE n == typed[c] + 1
           doc == editor[c].text \union {<<c, n>>}
           D1 == Docs([typed EXCEPT ![c] = @ + 1])
<1>1. editor[c] \in EditorOf(D0) /\ editor[c].text \in Docs(typed)
  BY Held DEF EditorOf, D0
<1>2. doc \in D1
  BY <1>1, Held, EditIsNew
<1>3. typed' = [typed EXCEPT ![c] = @ + 1] /\ typed'[c] = n
  BY Held DEF Edit
<1>4. editor' = [editor EXCEPT ![c] = Typed(editor[c], doc)]
  BY <1>3 DEF Edit
<1>5. D0 \subseteq D1
  BY Held, DocsGrow DEF D0
<1>6. TypedWith(D1)
  BY <1>5, TypedMore DEF TypeOK, D0
<1>7. editor[c] \in EditorOf(D1) /\ editor \in [Clients -> EditorOf(D1)]
  BY <1>6 DEF TypedWith
<1>8. typed' \in [Clients -> Nat] /\ Docs(typed)' = D1
  <2>1. typed' \in [Clients -> Nat]
    BY <1>3, Held
  <2>2. Docs(typed)' = Docs(typed')
    BY DEF Docs
  <2> QED
    BY <2>1, <2>2, <1>3
<1> HIDE DEF doc, n, D1
<1>9. Typed(editor[c], doc) \in EditorOf(D1)
  BY <1>2, <1>7, TypedType
<1>10. editor' \in [Clients -> EditorOf(D1)]
  BY <1>4, <1>7, <1>9
<1>11. /\ UNCHANGED <<kind, stored, page, orphans, calls, crossed>>
       /\ stored' \in D1 /\ page' \in [Clients -> PageOf(D1)] /\ orphans' \subseteq OrphanOf(D1)
       /\ \A m \in calls' : IsCall(m, D1)
  BY <1>6 DEF TypedWith, Edit
<1>12. TypedWith(Docs(typed))'
  BY <1>8, <1>10, <1>11 DEF TypedWith
<1> QED
  BY <1>8, <1>11, <1>12 DEF TypeOK

LEMMA FireOrphanType ==
  ASSUME TypeOK, FireOrphan
  PROVE  TypeOK'
<1> PICK o \in orphans : 
    /\ orphans' = orphans \ {o}
    /\ \/ o.dirty \subseteq o.marker /\ UNCHANGED <<page, calls, crossed>>
       \/ \E doc \in o.dirty \ o.marker : Send(o.client, doc, FALSE)
    /\ UNCHANGED <<kind, stored, editor, typed>>
  BY DEF FireOrphan
<1>1. o \in OrphanOf(D0)
  BY Held
<1>2. o.client \in Clients /\ o.dirty \in SUBSET D0
  BY <1>1 DEF OrphanOf
<1>3. /\ \A m \in calls' : IsCall(m, D0)
      /\ page' \in [Clients -> PageOf(D0)]
      /\ crossed' \in [Clients -> BOOLEAN]
  <2>1. CASE UNCHANGED <<page, calls, crossed>>
    BY <2>1, Held
  <2>2. CASE \E doc \in o.dirty \ o.marker : Send(o.client, doc, FALSE)
    <3> PICK doc \in o.dirty \ o.marker : Send(o.client, doc, FALSE)
      BY <2>2
    <3>1. doc \in D0 /\ FALSE \in BOOLEAN
      BY <1>2
    <3> QED
      BY <1>2, <3>1, SendType
  <2> QED
    BY <2>1, <2>2
<1>4. orphans' \subseteq OrphanOf(D0)
  BY Held
<1> QED
  BY <1>3, <1>4, Held, TypedSame

LEMMA SavingType ==
  ASSUME TypeOK, NEW c \in Clients, Fire(c) \/ ClickSave(c)
  PROVE  TypeOK'
<1>1. Save(c) /\ UNCHANGED <<kind, stored, orphans, typed>>
  BY DEF Fire, ClickSave
<1> QED
  BY <1>1, SaveType, Held, TypedSame

LEMMA LandType ==
  ASSUME TypeOK, NEW m \in calls, Land(m)
  PROVE  TypeOK'
<1>1. IsCall(m, D0) /\ m.doc \in D0
  BY Held DEF IsCall, CallOf
<1>2. IsCall([m EXCEPT !.state = "done"], D0)
  BY <1>1, StateType
<1>3. \A q \in calls' : IsCall(q, D0)
  BY <1>2, Held DEF Land
<1>4. crossed' \in [Clients -> BOOLEAN]
  <2>1. \A c \in Clients : (crossed[c] \/ c # m.client) \in BOOLEAN
    OBVIOUS
  <2> QED
    BY <2>1 DEF Land
<1>5. stored' = m.doc /\ UNCHANGED <<kind, page, editor, orphans, typed>>
  BY DEF Land
<1> QED
  BY <1>1, <1>3, <1>4, <1>5, Held, TypedSame

LEMMA FailType ==
  ASSUME TypeOK, NEW m \in calls, Fail(m)
  PROVE  TypeOK'
<1>1. IsCall(m, D0)
  BY Held
<1>2. IsCall([m EXCEPT !.state = "failed"], D0)
  BY <1>1, StateType
<1>3. \A q \in calls' : IsCall(q, D0)
  BY <1>2, Held DEF Fail
<1>4. UNCHANGED <<kind, stored, page, editor, orphans, typed, crossed>>
  BY DEF Fail
<1> QED
  BY <1>3, <1>4, Held, TypedSame

LEMMA AnswerType ==
  ASSUME TypeOK, NEW m \in calls, Answer(m)
  PROVE  TypeOK'
<1>1. IsCall(m, D0) /\ m.client \in Clients /\ m.doc \in D0
  BY Held DEF IsCall, CallOf
<1>2. page' \in [Clients -> PageOf(D0)]
  <2>1. Answered(page[m.client], m) \in PageOf(D0)
    BY <1>1, Held, AnsweredType
  <2>2. page' = IF m.gone THEN page
                ELSE [page EXCEPT ![m.client] = Answered(page[m.client], m)]
    BY DEF Answer
  <2> QED
    BY <2>1, <2>2, Held
<1>3. editor' \in [Clients -> EditorOf(D0)]
  <2>1. editor[m.client] \in EditorOf(D0) /\ {m.doc} \in SUBSET D0
    BY <1>1, Held
  <2>2. [editor[m.client] EXCEPT !.marker = {m.doc}] \in EditorOf(D0)
    BY <2>1 DEF EditorOf
  <2>3. editor' = IF kind = "drawio" /\ m.live
                  THEN [editor EXCEPT ![m.client] = [editor[m.client] EXCEPT !.marker = {m.doc}]]
                  ELSE editor
    BY DEF Answer
  <2> QED
    BY <2>2, <2>3, Held
<1>4. \A q \in calls' : IsCall(q, D0)
  BY Held DEF Answer
<1>5. UNCHANGED <<kind, stored, orphans, typed, crossed>>
  BY DEF Answer
<1> QED
  BY <1>2, <1>3, <1>4, <1>5, Held, TypedSame

LEMMA GetType ==
  ASSUME TypeOK, NEW c \in Clients, Refetch(c) \/ ServeGet(c) \/ TakeGet(c)
  PROVE  TypeOK'
<1>1. page[c] \in PageOf(D0) /\ page[c].got \in D0 /\ stored \in D0 /\ {} \in D0
  BY Held DEF PageOf
<1>2. page' \in [Clients -> PageOf(D0)] /\ crossed' \in [Clients -> BOOLEAN]
  <2>1. CASE Refetch(c)
    <3>0. \A n \in Nat : [page[c] EXCEPT !.get = "sent", !.gets = n] \in PageOf(D0)
      BY <1>1 DEF PageOf
    <3>1. [page[c] EXCEPT !.get = "sent", !.gets = page[c].gets + 1] \in PageOf(D0)
      <4>1. page[c].gets + 1 \in Nat
        BY <1>1 DEF PageOf
      <4> QED
        BY <3>0, <4>1
    <3>2. page' = [page EXCEPT ![c] = [page[c] EXCEPT !.get = "sent", !.gets = page[c].gets + 1]]
      BY <2>1, Held DEF Refetch
    <3>3. crossed' = [crossed EXCEPT ![c] = crossed[c] \/ Own(c) # {}]
      BY <2>1 DEF Refetch
    <3>4. (crossed[c] \/ Own(c) # {}) \in BOOLEAN
      OBVIOUS
    <3> QED
      BY <3>1, <3>2, <3>3, <3>4, Held
  <2>2. CASE ServeGet(c)
    <3>1. [page[c] EXCEPT !.get = "served", !.got = stored] \in PageOf(D0)
      BY <1>1 DEF PageOf
    <3>2. page' = [page EXCEPT ![c] = [page[c] EXCEPT !.get = "served", !.got = stored]]
      BY <2>2, Held DEF ServeGet
    <3> QED
      BY <2>2, <3>1, <3>2, Held DEF ServeGet
  <2>3. CASE TakeGet(c)
    <3>1. [page[c] EXCEPT !.get = "none", !.note = page[c].got, !.got = {}] \in PageOf(D0)
      BY <1>1 DEF PageOf
    <3>2. page' = [page EXCEPT ![c] = [page[c] EXCEPT !.get = "none", !.note = page[c].got,
                                                      !.got = {}]]
      BY <2>3, Held DEF TakeGet
    <3> QED
      BY <2>3, <3>1, <3>2, Held DEF TakeGet
  <2> QED
    BY <2>1, <2>2, <2>3
<1>3. UNCHANGED <<kind, stored, editor, orphans, calls, typed>>
  BY DEF Refetch, ServeGet, TakeGet
<1> QED
  BY <1>2, <1>3, Held, TypedSame

LEMMA CloseWindowType ==
  ASSUME TypeOK, NEW c \in Clients, CloseWindow(c)
  PROVE  TypeOK'
<1>1. page[c] \in PageOf(D0) /\ editor[c] \in EditorOf(D0)
  BY Held
<1>2. \A m \in calls' : IsCall(m, D0)
  <2> DEFINE flushed == IF kind = "drawio" /\ editor[c].shown THEN ToSend(editor[c]) ELSE {}
  <2>1. calls' = {Left(m, c) : m \in calls} \union {Request(c, doc, FALSE, TRUE) : doc \in flushed}
    BY DEF CloseWindow, Left
  <2>2. flushed \subseteq D0
    BY <1>1, ToSendType
  <2> HIDE DEF flushed
  <2>3. \A m \in calls : IsCall(Left(m, c), D0)
    BY Held, LeftType
  <2>4. TRUE \in BOOLEAN /\ FALSE \in BOOLEAN
    OBVIOUS
  <2>5. \A d \in flushed : IsCall(Request(c, d, FALSE, TRUE), D0)
    BY <2>2, <2>4, RequestType
  <2> QED
    BY <2>1, <2>3, <2>5
<1>3. page' \in [Clients -> PageOf(D0)]
  <2>1. page' = [page EXCEPT ![c] = [FreshPage(stored) EXCEPT !.gets = page[c].gets,
                                                             !.closes = page[c].closes + 1]]
    BY DEF CloseWindow
  <2>2. page[c].gets \in Nat /\ page[c].closes + 1 \in Nat
    BY <1>1 DEF PageOf
  <2>3. FreshPage(stored) \in PageOf(D0)
    BY Held DEF FreshPage, PageOf
  <2>4. \A p \in PageOf(D0), x, y \in Nat : [p EXCEPT !.gets = x, !.closes = y] \in PageOf(D0)
    BY DEF PageOf
  <2>5. [FreshPage(stored) EXCEPT !.gets = page[c].gets, !.closes = page[c].closes + 1]
          \in PageOf(D0)
    BY <2>2, <2>3, <2>4
  <2> QED
    BY <2>1, <2>5, Held
<1>4. editor' \in [Clients -> EditorOf(D0)]
  BY Held DEF CloseWindow
<1>5. orphans' \subseteq OrphanOf(D0)
  BY Held DEF CloseWindow
<1>6. crossed' \in [Clients -> BOOLEAN]
  <2>1. crossed' = [crossed EXCEPT ![c] = (\E m \in calls' : m.client = c)]
    BY DEF CloseWindow
  <2>2. (\E m \in calls' : m.client = c) \in BOOLEAN
    OBVIOUS
  <2> QED
    BY <2>1, <2>2, Held
<1>7. UNCHANGED <<kind, stored, typed>>
  BY DEF CloseWindow
<1> QED
  BY <1>2, <1>3, <1>4, <1>5, <1>6, <1>7, Held, TypedSame

LEMMA StepTyped == TypeOK /\ [Next]_vars => TypeOK'
<1> SUFFICES ASSUME TypeOK, [Next]_vars PROVE TypeOK'
  OBVIOUS
<1>1. CASE Next
  BY <1>1, OpenTabType, LeaveTabType, EditType, SavingType, GetType, CloseWindowType,
     FireOrphanType, LandType, FailType, AnswerType DEF Next
<1>2. CASE UNCHANGED vars
  <2>1. UNCHANGED <<kind, stored, page, editor, orphans, calls, typed, crossed>>
    BY <1>2 DEF vars
  <2> QED
    BY <2>1, Held, TypedSame
<1> QED
  BY <1>1, <1>2

LEMMA InitTyped == Init => TypeOK
<1> SUFFICES ASSUME Init PROVE TypeOK
  OBVIOUS
<1>1. kind \in {"body", "mindmap", "drawio"}
  BY NoteAssumption DEF Init
<1>2. {} \in Docs(typed)
  BY EmptyDoc
<1>3. TypedWith(Docs(typed))
  <2>1. FreshPage({}) \in PageOf(Docs(typed))
    BY <1>2 DEF FreshPage, PageOf
  <2>2. Unmounted \in EditorOf(Docs(typed))
    BY <1>2, UnmountedType
  <2> QED
    BY <1>2, <2>1, <2>2 DEF Init, TypedWith
<1> QED
  BY <1>1, <1>3 DEF Init, TypeOK

---------------------------------------------------------------------------
(***************************************************************************)
(* Only pages in which something was typed write.                          *)
(***************************************************************************)

\* An editor in which nothing was typed has nothing to send.
Untouched(e) == IF kind = "drawio" THEN e.dirty = {} ELSE e.text \in e.marker

\* A page in which nothing was typed has sent nothing and left nothing behind.
Unwritten(c) ==
  /\ \A m \in calls : m.client # c
  /\ \A o \in orphans : o.client = c => o.dirty = {}
  /\ editor[c].shown => Untouched(editor[c])

WInv ==
  kind # "mindmap" =>
    \A c \in Clients : /\ editor[c].timer => editor[c].shown
                       /\ typed[c] = 0 => Unwritten(c)

\* A page whose editor, edits, requests and left timers are as they were, or
\* that has typed, stays as it was.
LEMMA UnwrittenSame ==
  ASSUME TypeOK, WInv, kind' = kind, kind # "mindmap", NEW d \in Clients,
         editor'[d] = editor[d], typed' = typed,
         \A m \in calls' : m.client = d => \E n \in calls : n.client = d,
         \A o \in orphans' : o.client = d => o \in orphans
  PROVE  (/\ editor[d].timer => editor[d].shown
          /\ typed[d] = 0 => Unwritten(d))'
  BY DEF WInv, Unwritten, Untouched

\* What is not on a silent page's hands was not sent by it.
LEMMA SaveSilent ==
  ASSUME TypeOK, NEW c \in Clients, Save(c), kind # "mindmap",
         editor[c].timer => editor[c].shown, editor[c].shown,
         typed[c] = 0 => Unwritten(c), UNCHANGED <<kind, stored, orphans, typed>>
  PROVE  (/\ editor[c].timer => editor[c].shown
          /\ typed[c] = 0 => Unwritten(c))'
<1>1. editor[c] \in EditorOf(D0)
  BY Held
<1>2. editor'[c] \in EditorOf(D0) /\ editor'[c].timer = FALSE
      /\ editor'[c].shown = editor[c].shown
      /\ editor'[c].text = editor[c].text /\ editor'[c].dirty = editor[c].dirty
  <2>1. CASE editor' = [editor EXCEPT ![c].timer = FALSE]
    BY <1>1, <2>1, Held DEF EditorOf
  <2>2. ASSUME NEW d \in ToSend(editor[c]),
               editor' = [editor EXCEPT ![c] = Remembered(editor[c], d)]
        PROVE  editor'[c] \in EditorOf(D0) /\ editor'[c].timer = FALSE
               /\ editor'[c].shown = editor[c].shown
               /\ editor'[c].text = editor[c].text /\ editor'[c].dirty = editor[c].dirty
    <3>1. d \in D0
      BY <1>1, ToSendType
    <3>2. Remembered(editor[c], d) \in EditorOf(D0)
      BY <1>1, <3>1, RememberedType
    <3>3. editor'[c] = Remembered(editor[c], d)
      BY <2>2, Held
    <3> QED
      BY <1>1, <3>2, <3>3 DEF Remembered, EditorOf
  <2> QED
    BY <2>1, <2>2 DEF Save
<1>3. ASSUME typed[c] = 0 PROVE Unwritten(c)'
  <2>1. ToSend(editor[c]) = {}
    BY <1>1, <1>3 DEF Unwritten, Untouched, ToSend, EditorOf
  <2>2. editor' = [editor EXCEPT ![c].timer = FALSE] /\ UNCHANGED calls
    BY <2>1 DEF Save
  <2>3. editor'[c].marker = editor[c].marker
    BY <1>1, <2>2, Held DEF EditorOf
  <2> QED
    BY <1>2, <1>3, <2>2, <2>3 DEF Unwritten, Untouched
<1> QED
  BY <1>2, <1>3

LEMMA SavingSilent ==
  ASSUME TypeOK, WInv, NEW c \in Clients, Fire(c) \/ ClickSave(c)
  PROVE  WInv'
<1> SUFFICES ASSUME kind # "mindmap", NEW d \in Clients
             PROVE  (/\ editor[d].timer => editor[d].shown
                     /\ typed[d] = 0 => Unwritten(d))'
  BY DEF WInv, Fire, ClickSave
<1>1. Save(c) /\ UNCHANGED <<kind, stored, orphans, typed>> /\ editor[c].shown
  BY DEF Fire, ClickSave, WInv
<1>2. CASE d = c
  BY <1>1, <1>2, SaveSilent DEF WInv
<1>3. CASE d # c
  <2>1. editor'[d] = editor[d]
    BY <1>1, <1>3, Held DEF Save
  <2>2. ASSUME NEW m \in calls', m.client = d PROVE \E n \in calls : n.client = d
    <3>1. CASE UNCHANGED calls
      BY <2>2, <3>1
    <3>2. ASSUME NEW x \in ToSend(editor[c]), Send(c, x, TRUE) PROVE m \in calls
      <4>1. Request(c, x, TRUE, FALSE).client = c
        BY RequestFrom
      <4> QED
        BY <1>3, <2>2, <3>2, <4>1 DEF Send
    <3> QED
      BY <1>1, <2>2, <3>1, <3>2 DEF Save
  <2> QED
    BY <1>1, <2>1, <2>2, UnwrittenSame
<1> QED
  BY <1>2, <1>3

\* The request an answer or a failure leaves is its page's, as before.
LEMMA SameSender ==
  ASSUME TypeOK, NEW m \in calls, NEW s \in {"sent", "done", "failed"},
         calls' = (calls \ {m}) \union {[m EXCEPT !.state = s]}, NEW d, NEW q \in calls',
         q.client = d
  PROVE  \E n \in calls : n.client = d
<1>1. IsCall(m, D0)
  BY Held
<1>2. [m EXCEPT !.state = s].client = m.client
  BY <1>1, StateType
<1>3. CASE q \in calls
  BY <1>3
<1>4. CASE q = [m EXCEPT !.state = s]
  BY <1>2, <1>4
<1> QED
  BY <1>3, <1>4

LEMMA OpenTabSilent ==
  ASSUME TypeOK, WInv, NEW c \in Clients, OpenTab(c)
  PROVE  WInv'
<1> SUFFICES ASSUME kind # "mindmap", NEW d \in Clients
             PROVE  (/\ editor[d].timer => editor[d].shown
                     /\ typed[d] = 0 => Unwritten(d))'
  BY DEF WInv, OpenTab
<1>1. editor' = [editor EXCEPT ![c] = Mounted(page[c].note)]
      /\ UNCHANGED <<kind, stored, page, orphans, calls, typed>>
  BY DEF OpenTab
<1>2. CASE d = c
  <2>1. editor'[c] = Mounted(page[c].note)
    BY <1>1, Held
  <2>2. /\ Mounted(page[c].note).shown /\ Mounted(page[c].note).dirty = {}
        /\ Mounted(page[c].note).text \in Mounted(page[c].note).marker
    BY DEF Mounted
  <2> QED
    BY <1>1, <1>2, <2>1, <2>2 DEF WInv, Unwritten, Untouched
<1>3. CASE d # c
  <2>1. editor'[d] = editor[d]
    BY <1>1, <1>3, Held
  <2> QED
    BY <1>1, <2>1, UnwrittenSame
<1> QED
  BY <1>2, <1>3

LEMMA LeaveTabSilent ==
  ASSUME TypeOK, WInv, NEW c \in Clients, LeaveTab(c)
  PROVE  WInv'
<1> SUFFICES ASSUME kind # "mindmap", NEW d \in Clients
             PROVE  (/\ editor[d].timer => editor[d].shown
                     /\ typed[d] = 0 => Unwritten(d))'
  BY DEF WInv, LeaveTab
<1>1. /\ editor' = [editor EXCEPT ![c] = Unmounted] /\ kind' = kind /\ typed' = typed
      /\ editor[c].shown
      /\ orphans' = IF kind = "drawio" /\ editor[c].timer
                    THEN orphans \union {[client |-> c, dirty |-> editor[c].dirty,
                                          marker |-> editor[c].marker]}
                    ELSE orphans
  BY DEF LeaveTab
<1>2. \A m \in calls' : \E n \in calls : n.client = m.client
  <2>1. calls' = {Cut(m, c) : m \in calls}
    BY DEF LeaveTab, Disown, Cut
  <2>2. \A m \in calls : Cut(m, c).client = m.client
    BY Held, CutType
  <2> QED
    BY <2>1, <2>2
<1>3. CASE d = c
  <2>1. editor'[c] = Unmounted /\ ~ Unmounted.shown /\ ~ Unmounted.timer
    BY <1>1, Held DEF Unmounted
  <2>2. ASSUME typed[c] = 0, NEW o \in orphans', o.client = c PROVE o.dirty = {}
    BY <1>1, <2>2 DEF WInv, Unwritten, Untouched
  <2> QED
    BY <1>1, <1>2, <1>3, <2>1, <2>2 DEF WInv, Unwritten
<1>4. CASE d # c
  <2>1. editor'[d] = editor[d]
    BY <1>1, <1>4, Held
  <2>2. \A o \in orphans' : o.client = d => o \in orphans
    BY <1>1, <1>4
  <2> QED
    BY <1>1, <1>2, <2>1, <2>2, UnwrittenSame
<1> QED
  BY <1>3, <1>4

LEMMA EditSilent ==
  ASSUME TypeOK, WInv, NEW c \in Clients, Edit(c)
  PROVE  WInv'
<1> SUFFICES ASSUME kind # "mindmap", NEW d \in Clients
             PROVE  (/\ editor[d].timer => editor[d].shown
                     /\ typed[d] = 0 => Unwritten(d))'
  BY DEF WInv, Edit
<1> DEFINE doc == editor[c].text \union {<<c, typed'[c]>>}
<1>1. /\ editor' = [editor EXCEPT ![c] = Typed(editor[c], doc)]
      /\ UNCHANGED <<kind, stored, page, orphans, calls, crossed>>
      /\ typed' = [typed EXCEPT ![c] = @ + 1] /\ editor[c].shown
  BY DEF Edit
<1> HIDE DEF doc
<1>2. CASE d = c
  <2>1. editor'[c] = Typed(editor[c], doc) /\ editor[c] \in EditorOf(D0)
    BY <1>1, Held
  <2>2. Typed(editor[c], doc).shown = editor[c].shown
    BY <2>1 DEF Typed, EditorOf
  <2>3. typed[c] \in Nat /\ typed'[c] = typed[c] + 1
    BY <1>1, Held
  <2>4. typed'[c] # 0
    BY <2>3
  <2> QED
    BY <1>1, <1>2, <2>1, <2>2, <2>4
<1>3. CASE d # c
  <2>1. editor'[d] = editor[d] /\ typed'[d] = typed[d]
    BY <1>1, <1>3, Held
  <2> QED
    BY <1>1, <2>1 DEF WInv, Unwritten, Untouched
<1> QED
  BY <1>2, <1>3

LEMMA FireOrphanSilent ==
  ASSUME TypeOK, WInv, FireOrphan
  PROVE  WInv'
<1> SUFFICES ASSUME kind # "mindmap", NEW d \in Clients
             PROVE  (/\ editor[d].timer => editor[d].shown
                     /\ typed[d] = 0 => Unwritten(d))'
  BY DEF WInv, FireOrphan
<1> PICK o \in orphans : 
    /\ orphans' = orphans \ {o}
    /\ \/ o.dirty \subseteq o.marker /\ UNCHANGED <<page, calls, crossed>>
       \/ \E doc \in o.dirty \ o.marker : Send(o.client, doc, FALSE)
    /\ UNCHANGED <<kind, stored, editor, typed>>
  BY DEF FireOrphan
<1>1. CASE UNCHANGED calls
  BY <1>1, UnwrittenSame
<1>2. CASE \E doc \in o.dirty \ o.marker : Send(o.client, doc, FALSE)
  <2> PICK doc \in o.dirty \ o.marker : Send(o.client, doc, FALSE)
    BY <1>2
  <2>3. Request(o.client, doc, FALSE, FALSE).client = o.client
    BY RequestFrom
  <2>4. CASE d = o.client
    <3>1. typed[d] # 0
      BY <2>4 DEF WInv, Unwritten
    <3> QED
      BY <3>1 DEF WInv
  <2>5. CASE d # o.client
    <3>1. \A m \in calls' : m.client = d => m \in calls
      BY <2>3, <2>5 DEF Send
    <3> QED
      BY <3>1, UnwrittenSame
  <2> QED
    BY <2>4, <2>5
<1> QED
  BY <1>1, <1>2

LEMMA WireSilent ==
  ASSUME TypeOK, WInv, NEW m \in calls, Land(m) \/ Fail(m)
  PROVE  WInv'
<1> SUFFICES ASSUME kind # "mindmap", NEW d \in Clients
             PROVE  (/\ editor[d].timer => editor[d].shown
                     /\ typed[d] = 0 => Unwritten(d))'
  BY DEF WInv, Land, Fail
<1>1. UNCHANGED <<kind, page, editor, orphans, typed>>
  BY DEF Land, Fail
<1>2. \A q \in calls' : q.client = d => \E n \in calls : n.client = d
  BY SameSender DEF Land, Fail
<1> QED
  BY <1>1, <1>2, UnwrittenSame

LEMMA AnswerSilent ==
  ASSUME TypeOK, WInv, NEW m \in calls, Answer(m)
  PROVE  WInv'
<1> SUFFICES ASSUME kind # "mindmap", NEW d \in Clients
             PROVE  (/\ editor[d].timer => editor[d].shown
                     /\ typed[d] = 0 => Unwritten(d))'
  BY DEF WInv, Answer
<1>1. UNCHANGED <<kind, stored, orphans, typed, crossed>> /\ calls' = calls \ {m}
      /\ m.client \in Clients
  BY Held DEF Answer
<1>2. CASE d = m.client
  <2>1. typed[d] # 0
    BY <1>2 DEF WInv, Unwritten
  <2>2. editor'[d].timer = editor[d].timer /\ editor'[d].shown = editor[d].shown
    BY <1>1, <1>2, Held DEF Answer, EditorOf
  <2> QED
    BY <1>1, <2>1, <2>2 DEF WInv
<1>3. CASE d # m.client
  <2>1. editor'[d] = editor[d]
    BY <1>1, <1>3, Held DEF Answer
  <2> QED
    BY <1>1, <2>1, UnwrittenSame
<1> QED
  BY <1>2, <1>3

LEMMA GetSilent ==
  ASSUME TypeOK, WInv, NEW c \in Clients, Refetch(c) \/ ServeGet(c) \/ TakeGet(c)
  PROVE  WInv'
<1>1. UNCHANGED <<kind, stored, editor, orphans, calls, typed>>
  BY DEF Refetch, ServeGet, TakeGet
<1> QED
  BY <1>1 DEF WInv, Unwritten, Untouched

LEMMA CloseWindowSilent ==
  ASSUME TypeOK, WInv, NEW c \in Clients, CloseWindow(c)
  PROVE  WInv'
<1> SUFFICES ASSUME kind # "mindmap", NEW d \in Clients
             PROVE  (/\ editor[d].timer => editor[d].shown
                     /\ typed[d] = 0 => Unwritten(d))'
  BY DEF WInv, CloseWindow
<1> DEFINE flushed == IF kind = "drawio" /\ editor[c].shown THEN ToSend(editor[c]) ELSE {}
<1>1. /\ calls' = {Left(m, c) : m \in calls} \union {Request(c, doc, FALSE, TRUE) : doc \in flushed}
      /\ editor' = [editor EXCEPT ![c] = Unmounted] /\ kind' = kind /\ typed' = typed
      /\ orphans' = {o \in orphans : o.client # c}
  BY DEF CloseWindow, Left
<1>2. \A m \in calls : Left(m, c).client = m.client
  BY Held, LeftType
<1>4. \A doc \in flushed : Request(c, doc, FALSE, TRUE).client = c
  BY DEF Request
<1>5. typed[c] = 0 => flushed = {}
  BY DEF WInv, Unwritten, Untouched, ToSend
<1> HIDE DEF flushed
<1>6. CASE d = c
  <2>1. editor'[c] = Unmounted /\ ~ Unmounted.shown /\ ~ Unmounted.timer
    BY <1>1, Held DEF Unmounted
  <2>2. ASSUME typed[c] = 0, NEW m \in calls' PROVE m.client # c
    <3>1. Unwritten(c)
      BY <2>2 DEF WInv
    <3>2. \A q \in calls : q.client # c
      BY <3>1 DEF Unwritten
    <3>3. flushed = {}
      BY <1>5, <2>2
    <3>4. PICK q \in calls : m = Left(q, c)
      BY <1>1, <2>2, <3>3
    <3> QED
      BY <1>2, <3>2, <3>4
  <2> QED
    BY <1>1, <1>6, <2>1, <2>2 DEF Unwritten
<1>7. CASE d # c
  <2>1. editor'[d] = editor[d]
    BY <1>1, <1>7, Held
  <2>2. \A m \in calls' : m.client = d => \E n \in calls : n.client = d
    BY <1>1, <1>2, <1>4, <1>7
  <2> QED
    BY <1>1, <2>1, <2>2, UnwrittenSame
<1> QED
  BY <1>6, <1>7

LEMMA StepSilent == TypeOK /\ WInv /\ [Next]_vars => WInv'
<1> SUFFICES ASSUME TypeOK, WInv, [Next]_vars PROVE WInv'
  OBVIOUS
<1>1. CASE Next
  BY <1>1, OpenTabSilent, LeaveTabSilent, EditSilent, SavingSilent, GetSilent,
     CloseWindowSilent, FireOrphanSilent, WireSilent, AnswerSilent DEF Next
<1>2. CASE UNCHANGED vars
  BY <1>2 DEF vars, WInv, Unwritten, Untouched
<1> QED
  BY <1>1, <1>2

\* Only pages in which something was typed write to the note: looking at it,
\* switching its tabs and pressing save send nothing (OnlyWritersWrite).
THEOREM WritersAlone == Spec => []OnlyWritersWrite
<1>1. Init => WInv
  BY DEF Init, WInv, Unwritten, Unmounted
<1>2. TypeOK /\ WInv => OnlyWritersWrite
  <2> SUFFICES ASSUME TypeOK, WInv, kind # "mindmap", NEW m \in calls PROVE typed[m.client] > 0
    BY DEF OnlyWritersWrite
  <2>1. m.client \in Clients /\ typed[m.client] \in Nat
    BY Held
  <2>2. typed[m.client] # 0
    BY <2>1 DEF WInv, Unwritten
  <2> QED
    BY <2>1, <2>2
<1> QED
  BY <1>1, <1>2, InitTyped, StepTyped, StepSilent, PTL DEF Spec

---------------------------------------------------------------------------
(***************************************************************************)
(* A page whose saves met nothing.                                         *)
(*                                                                         *)
(* Such a page has at most one save on the wire.  When it has none, its    *)
(* cached note is what the server has, or the chip says "error"; the       *)
(* editor of the tab then remembers what the server has, and shows it      *)
(* unless its timer runs.  When it has one, the save is the editor's own   *)
(* and carries what is shown, or the timer runs: for a drawio editor, what *)
(* is shown by then was never remembered, because it holds the last edit.  *)
(***************************************************************************)

\* The page and its requests.
Clean(c) ==
  /\ \A m, n \in Own(c) : m = n
  /\ \A m \in Own(c) : ~ m.gone /\ (m.state = "done" => stored = m.doc)
  /\ page[c].get # "none" => Own(c) = {}
  /\ page[c].get = "served" => page[c].got = stored
  /\ Own(c) = {} /\ page[c].saving # "error" => page[c].note = stored

\* m is a save of the editor e.
Mine(e, m) ==
  /\ m.live
  /\ ~ e.timer => e.text = m.doc
  /\ kind = "drawio" => e.dirty # {} /\ (e.timer => e.text \notin e.marker)
  /\ kind # "drawio" => e.marker = {m.doc}

\* The editor of a clean page.
Open(c) ==
  /\ \A o \in orphans : o.client # c
  /\ \A m \in Own(c) : Mine(editor[c], m)
  /\ Own(c) = {} /\ ~ editor[c].timer => editor[c].text \in editor[c].marker
  /\ Own(c) = {} /\ page[c].saving # "error" => editor[c].marker \subseteq {stored}
  /\ kind = "drawio" => /\ editor[c].dirty \subseteq {editor[c].text}
                        /\ editor[c].dirty = {} => editor[c].text \in editor[c].marker

Calm(c) == ~ crossed[c] => Clean(c) /\ (editor[c].shown => Open(c))

QInv == \A c \in Clients : Calm(c)

\* A page that a step leaves alone.
LEMMA CalmSame ==
  ASSUME NEW d \in Clients, Calm(d), kind' = kind, stored' = stored,
         page'[d] = page[d], editor'[d] = editor[d], Own(d)' = Own(d),
         \A o \in orphans' : o.client = d => o \in orphans,
         crossed'[d] = crossed[d]
  PROVE  Calm(d)'
<1>1. Clean(d) => Clean(d)'
  BY DEF Clean
<1>2. Open(d) => Open(d)'
  BY DEF Open, Mine
<1> QED
  BY <1>1, <1>2 DEF Calm

\* The page behind another page's save is crossed.
LEMMA CalmCrossed == ASSUME NEW d, crossed'[d] = TRUE PROVE Calm(d)'
  BY DEF Calm

LEMMA OpenTabCalm ==
  ASSUME TypeOK, QInv, NEW c \in Clients, OpenTab(c)
  PROVE  QInv'
<1>1. /\ editor' = [editor EXCEPT ![c] = Mounted(page[c].note)]
      /\ crossed' = [crossed EXCEPT ![c] = crossed[c] \/ Unfinished(c)]
      /\ UNCHANGED <<kind, stored, page, orphans, calls, typed>>
  BY DEF OpenTab
<1>2. ASSUME NEW d \in Clients PROVE Own(d)' = Own(d)
  BY <1>1 DEF Own
<1>3. ASSUME NEW d \in Clients, d # c PROVE Calm(d)'
  <2>1. editor'[d] = editor[d] /\ crossed'[d] = crossed[d]
    BY <1>1, <1>3, Held
  <2> QED
    BY <1>1, <1>2, <2>1, CalmSame DEF QInv
<1>4. Calm(c)'
  <2> SUFFICES ASSUME ~ crossed'[c] PROVE Clean(c)' /\ Open(c)'
    BY DEF Calm
  <2>1. ~ crossed[c] /\ ~ Unfinished(c)
    BY <1>1, Held
  <2>2. Own(c) = {} /\ \A o \in orphans : o.client # c
    BY <2>1 DEF Unfinished
  <2>3. Clean(c)
    BY <2>1 DEF QInv, Calm
  <2>4. Clean(c)'
    BY <1>1, <1>2, <2>3 DEF Clean
  <2>5. editor'[c] = Mounted(page[c].note)
    BY <1>1, Held
  <2> DEFINE e == Mounted(page[c].note)
  <2>6. /\ e.text = page[c].note /\ e.dirty = {}
        /\ e.marker \subseteq {page[c].note}
        /\ ~ e.timer => e.text \in e.marker
        /\ kind = "drawio" => e.text \in e.marker
    BY DEF Mounted
  <2> HIDE DEF e
  <2>7. page[c].saving # "error" => page[c].note = stored
    BY <2>2, <2>3 DEF Clean
  <2>8. editor'[c] = e
    BY <2>5 DEF e
  <2>9. Own(c)' = {} /\ UNCHANGED <<kind, stored, page, orphans>>
    BY <1>1, <1>2, <2>2
  <2>10. Open(c)'
    BY <2>2, <2>6, <2>7, <2>8, <2>9 DEF Open
  <2> QED
    BY <2>4, <2>10
<1> QED
  BY <1>3, <1>4 DEF QInv

LEMMA LeaveTabCalm ==
  ASSUME TypeOK, QInv, NEW c \in Clients, LeaveTab(c)
  PROVE  QInv'
<1>1. /\ editor' = [editor EXCEPT ![c] = Unmounted]
      /\ calls' = {Cut(m, c) : m \in calls}
      /\ orphans' = IF kind = "drawio" /\ editor[c].timer
                    THEN orphans \union {[client |-> c, dirty |-> editor[c].dirty,
                                          marker |-> editor[c].marker]}
                    ELSE orphans
      /\ UNCHANGED <<kind, stored, page, typed, crossed>>
  BY DEF LeaveTab, Disown, Cut
<1>2. \A m \in calls : /\ Cut(m, c).client = m.client /\ Cut(m, c).doc = m.doc
                       /\ Cut(m, c).gone = m.gone /\ Cut(m, c).state = m.state
                       /\ m.client # c => Cut(m, c) = m
  BY Held, CutType
<1>3. ASSUME NEW d \in Clients, d # c PROVE Calm(d)'
  <2>1. editor'[d] = editor[d]
    BY <1>1, <1>3, Held
  <2>2. Own(d)' = Own(d)
    <3>1. ASSUME NEW m \in Own(d)' PROVE m \in Own(d)
      <4>1. PICK q \in calls : m = Cut(q, c)
        BY <1>1 DEF Own
      <4> QED
        BY <1>2, <1>3, <4>1 DEF Own
    <3>2. ASSUME NEW m \in Own(d) PROVE m \in Own(d)'
      <4>1. m \in calls /\ m.client = d
        BY DEF Own
      <4>2. Cut(m, c) = m
        BY <1>2, <1>3, <4>1
      <4>3. m \in calls'
        BY <1>1, <4>1, <4>2
      <4> QED
        BY <4>1, <4>3 DEF Own
    <3> QED
      BY <3>1, <3>2
  <2>3. \A o \in orphans' : o.client = d => o \in orphans
    BY <1>1, <1>3
  <2> QED
    BY <1>1, <2>1, <2>2, <2>3, CalmSame DEF QInv
<1>4. Calm(c)'
  <2>1. editor'[c] = Unmounted /\ ~ Unmounted.shown
    BY <1>1, Held DEF Unmounted
  <2> SUFFICES ASSUME ~ crossed[c] PROVE Clean(c)'
    BY <1>1, <2>1 DEF Calm
  <2>2. Clean(c)
    BY DEF QInv, Calm
  <2>3. \A m \in Own(c)' : \E q \in Own(c) : m = Cut(q, c)
    BY <1>1, <1>2 DEF Own
  <2>4. \A q \in Own(c) : Cut(q, c) \in Own(c)'
    BY <1>1, <1>2 DEF Own
  <2>5. Own(c)' = {} <=> Own(c) = {}
    BY <2>3, <2>4
  <2>6. \A m, n \in Own(c)' : m = n
    BY <2>2, <2>3 DEF Clean
  <2>7. \A m \in Own(c)' : ~ m.gone /\ (m.state = "done" => stored = m.doc)
    BY <1>2, <2>2, <2>3 DEF Clean, Own
  <2> QED
    BY <1>1, <2>2, <2>5, <2>6, <2>7 DEF Clean
<1> QED
  BY <1>3, <1>4 DEF QInv

LEMMA EditCalm ==
  ASSUME TypeOK, QInv, NEW c \in Clients, Edit(c)
  PROVE  QInv'
<1> DEFINE doc == editor[c].text \union {<<c, typed'[c]>>}
<1>1. /\ editor' = [editor EXCEPT ![c] = Typed(editor[c], doc)]
      /\ UNCHANGED <<kind, stored, page, orphans, calls, crossed>>
      /\ typed' = [typed EXCEPT ![c] = @ + 1] /\ editor[c].shown
  BY DEF Edit
<1>2. ASSUME NEW d \in Clients PROVE Own(d)' = Own(d)
  BY <1>1 DEF Own
<1>3. editor[c] \in EditorOf(D0) /\ editor[c].text \in D0 /\ editor[c].marker \in SUBSET D0
  BY Held DEF EditorOf
<1>4. doc \notin editor[c].marker
  <2>1. typed'[c] = typed[c] + 1
    BY <1>1, Held
  <2>2. editor[c].text \union {<<c, typed[c] + 1>>} \notin Docs(typed)
    BY <1>3, Held, EditIsNew DEF D0
  <2> QED
    BY <1>3, <2>1, <2>2 DEF D0
<1> HIDE DEF doc
<1>5. ASSUME NEW d \in Clients, d # c PROVE Calm(d)'
  <2>1. editor'[d] = editor[d]
    BY <1>1, <1>5, Held
  <2> QED
    BY <1>1, <1>2, <2>1, CalmSame DEF QInv
<1>6. Calm(c)'
  <2> DEFINE e == Typed(editor[c], doc)
  <2>1. editor'[c] = e
    BY <1>1, Held
  <2>2. /\ e.text = doc /\ e.timer /\ e.marker = editor[c].marker
        /\ kind = "drawio" => e.dirty = {doc}
    BY <1>3 DEF Typed, EditorOf
  <2> HIDE DEF e
  <2> SUFFICES ASSUME ~ crossed[c] PROVE Clean(c)' /\ Open(c)'
    BY <1>1 DEF Calm
  <2>3. Clean(c) /\ Open(c)
    BY <1>1 DEF QInv, Calm
  <2>4. Clean(c)'
    BY <1>1, <1>2, <2>3 DEF Clean
  <2>5. \A m \in Own(c) : Mine(e, m)
    BY <1>4, <2>2, <2>3 DEF Open, Mine
  <2>6. \A m \in Own(c)' : Mine(editor[c], m)'
    BY <1>1, <1>2, <2>1, <2>5 DEF Mine
  <2>7. Open(c)'
    BY <1>1, <1>2, <2>1, <2>2, <2>3, <2>6 DEF Open
  <2> QED
    BY <2>4, <2>7
<1> QED
  BY <1>5, <1>6 DEF QInv

\* What sending does to the pages.
LEMMA SendOwn ==
  ASSUME TypeOK, NEW c \in Clients, NEW x \in D0, NEW live \in BOOLEAN, Send(c, x, live)
  PROVE  /\ Own(c)' = Own(c) \union {Request(c, x, live, FALSE)}
         /\ page'[c].get = page[c].get
         /\ \A d \in Clients : d # c => /\ Own(d)' = Own(d)
                                        /\ page'[d] = page[d]
                                        /\ crossed'[d] = crossed[d]
         /\ ~ crossed'[c] => ~ crossed[c] /\ Own(c) = {} /\ page[c].get = "none"
<1>1. Request(c, x, live, FALSE).client = c
  BY RequestFrom
<1>2. Own(c)' = Own(c) \union {Request(c, x, live, FALSE)}
  BY <1>1 DEF Own, Send
<1>3. page[c] \in PageOf(D0) /\ page \in [Clients -> PageOf(D0)]
  BY Held
<1>4. page'[c].get = page[c].get
  BY <1>3 DEF Send, PageOf
<1>5. \A d \in Clients : d # c => /\ page'[d] = page[d] /\ crossed'[d] = crossed[d]
  BY Held DEF Send
<1>6. \A d \in Clients : d # c => Own(d)' = Own(d)
  BY <1>1 DEF Own, Send
<1>7. crossed'[c] = (crossed[c] \/ Own(c) # {} \/ page[c].get # "none")
  BY Held DEF Send
<1> QED
  BY <1>2, <1>4, <1>5, <1>6, <1>7

\* The one request of a clean page.
LEMMA SentClean ==
  ASSUME TypeOK, NEW c \in Clients, NEW x \in D0, NEW live \in BOOLEAN, Send(c, x, live),
         ~ crossed'[c]
  PROVE  Clean(c)'
<1> DEFINE r == Request(c, x, live, FALSE)
<1>1. Own(c)' = {r} /\ page'[c].get = "none"
  <2>1. /\ Own(c)' = Own(c) \union {r} /\ page'[c].get = page[c].get
        /\ Own(c) = {} /\ page[c].get = "none"
    BY SendOwn, Zenon
  <2> QED
    BY <2>1
<1>2. ~ r.gone /\ r.state # "done"
  BY DEF Request
<1> HIDE DEF r
<1>3. \A m, n \in Own(c)' : m = n
  BY <1>1
<1>4. \A m \in Own(c)' : ~ m.gone /\ (m.state = "done" => stored' = m.doc)
  BY <1>1, <1>2
<1>5. Own(c)' # {} /\ ~ page'[c].get = "served" /\ ~ page'[c].get # "none"
  BY <1>1
<1> QED
  BY <1>3, <1>4, <1>5, Zenon DEF Clean

LEMMA SaveCalm ==
  ASSUME TypeOK, QInv, NEW c \in Clients, Save(c), UNCHANGED <<kind, stored, orphans, typed>>
  PROVE  Calm(c)'
<1>1. editor[c] \in EditorOf(D0)
  BY Held
<1>2. CASE /\ ToSend(editor[c]) = {}
           /\ editor' = [editor EXCEPT ![c].timer = FALSE]
           /\ UNCHANGED <<page, calls, crossed>>
  <2> DEFINE e == editor'[c]
  <2>1. /\ e.shown = editor[c].shown /\ e.text = editor[c].text
        /\ e.marker = editor[c].marker /\ e.dirty = editor[c].dirty
        /\ e.timer = FALSE
    BY <1>1, <1>2, Held DEF EditorOf
  <2> HIDE DEF e
  <2>2. Own(c)' = Own(c)
    BY <1>2 DEF Own
  <2> SUFFICES ASSUME ~ crossed[c] PROVE Clean(c)' /\ (editor[c].shown => Open(c)')
    BY <1>2, <2>1 DEF Calm, e
  <2>3. Clean(c)'
    BY <1>2, <2>2 DEF QInv, Calm, Clean
  <2>4. ASSUME editor[c].shown PROVE Open(c)'
    <3>1. Open(c)
      BY <2>4 DEF QInv, Calm
    <3>2. kind = "drawio" => editor[c].dirty \subseteq editor[c].marker
      BY <1>2 DEF ToSend
    <3>3. kind # "drawio" => editor[c].text \in editor[c].marker
      BY <1>2 DEF ToSend
    <3>4. ASSUME NEW m \in Own(c) PROVE Mine(e, m)
      <4>1. Mine(editor[c], m)
        BY <3>1 DEF Open
      <4>2. e.text = m.doc
        <5>1. CASE ~ editor[c].timer
          BY <4>1, <5>1, <2>1 DEF Mine
        <5>2. CASE editor[c].timer /\ kind = "drawio"
          BY <3>1, <3>2, <4>1, <5>2 DEF Open, Mine
        <5>3. CASE editor[c].timer /\ kind # "drawio"
          BY <2>1, <3>3, <4>1, <5>3 DEF Mine
        <5> QED
          BY <5>1, <5>2, <5>3
      <4> QED
        BY <2>1, <4>1, <4>2 DEF Mine
    <3>5. \A m \in Own(c)' : Mine(editor[c], m)'
      BY <2>2, <3>4 DEF Mine, e
    <3>6. e.text \in e.marker \/ Own(c) # {}
      BY <2>1, <3>1, <3>2, <3>3 DEF Open
    <3> QED
      BY <1>2, <2>1, <2>2, <3>1, <3>5, <3>6 DEF Open, e
  <2> QED
    BY <2>3, <2>4
<1>3. ASSUME NEW x \in ToSend(editor[c]), Send(c, x, TRUE),
             editor' = [editor EXCEPT ![c] = Remembered(editor[c], x)]
      PROVE  Calm(c)'
  <2> DEFINE e == Remembered(editor[c], x)
             r == Request(c, x, TRUE, FALSE)
  <2>1. editor'[c] = e
    BY <1>3, Held
  <2>2. /\ e.shown = editor[c].shown /\ e.text = editor[c].text
        /\ e.dirty = editor[c].dirty /\ e.timer = FALSE
        /\ kind # "drawio" => e.marker = {x}
    BY <1>1 DEF Remembered, EditorOf
  <2> HIDE DEF e
  <2>3. x \in D0 /\ TRUE \in BOOLEAN
    BY <1>1, <1>3, ToSendType
  <2>4. r.live /\ r.doc = x
    BY DEF Request
  <2> HIDE DEF r
  <2> SUFFICES ASSUME ~ crossed'[c] PROVE Clean(c)' /\ (e.shown => Open(c)')
    BY <2>1 DEF Calm
  <2>5. Clean(c)'
    BY <1>3, <2>3, SentClean
  <2>6. ~ crossed[c] /\ Own(c)' = {r}
    BY <1>3, <2>3, SendOwn DEF r
  <2>7. ASSUME e.shown PROVE Open(c)'
    <3>1. Open(c)
      BY <2>2, <2>6, <2>7 DEF QInv, Calm
    <3>2. x = e.text /\ (kind = "drawio" => e.dirty # {})
      BY <1>3, <2>2, <3>1 DEF ToSend, Open
    <3>3. Mine(e, r)
      BY <2>2, <2>4, <3>2 DEF Mine
    <3>4. \A m \in Own(c)' : Mine(editor[c], m)'
      BY <2>1, <2>6, <3>3 DEF Mine
    <3> QED
      BY <2>1, <2>2, <2>6, <3>1, <3>2, <3>4 DEF Open
  <2> QED
    BY <2>5, <2>7
<1> QED
  BY <1>2, <1>3 DEF Save

LEMMA SavingCalm ==
  ASSUME TypeOK, QInv, NEW c \in Clients, Fire(c) \/ ClickSave(c)
  PROVE  QInv'
<1>1. Save(c) /\ UNCHANGED <<kind, stored, orphans, typed>>
  BY DEF Fire, ClickSave
<1>2. ASSUME NEW d \in Clients, d # c PROVE Calm(d)'
  <2>1. editor'[d] = editor[d]
    BY <1>1, <1>2, Held DEF Save
  <2>2. Own(d)' = Own(d) /\ page'[d] = page[d] /\ crossed'[d] = crossed[d]
    <3>1. CASE UNCHANGED <<page, calls, crossed>>
      BY <3>1 DEF Own
    <3>2. ASSUME NEW x \in ToSend(editor[c]), Send(c, x, TRUE)
          PROVE  Own(d)' = Own(d) /\ page'[d] = page[d] /\ crossed'[d] = crossed[d]
      <4>1. editor[c] \in EditorOf(D0)
        BY Held
      <4>2. x \in D0 /\ TRUE \in BOOLEAN
        BY <4>1, <3>2, ToSendType
      <4> QED
        BY <1>2, <3>2, <4>2, SendOwn
    <3> QED
      BY <1>1, <3>1, <3>2 DEF Save
  <2> QED
    BY <1>1, <2>1, <2>2, CalmSame DEF QInv
<1>3. Calm(c)'
  BY <1>1, SaveCalm
<1> QED
  BY <1>2, <1>3 DEF QInv

LEMMA FireOrphanCalm ==
  ASSUME TypeOK, QInv, FireOrphan
  PROVE  QInv'
<1> PICK o \in orphans : 
    /\ orphans' = orphans \ {o}
    /\ \/ o.dirty \subseteq o.marker /\ UNCHANGED <<page, calls, crossed>>
       \/ \E doc \in o.dirty \ o.marker : Send(o.client, doc, FALSE)
    /\ UNCHANGED <<kind, stored, editor, typed>>
  BY DEF FireOrphan
<1>1. CASE UNCHANGED <<page, calls, crossed>>
  <2>1. \A d \in Clients : Own(d)' = Own(d)
    BY <1>1 DEF Own
  <2> QED
    BY <1>1, <2>1, CalmSame DEF QInv
<1>2. CASE \E doc \in o.dirty \ o.marker : Send(o.client, doc, FALSE)
  <2> PICK doc \in o.dirty \ o.marker : Send(o.client, doc, FALSE)
    BY <1>2
  <2>1. o \in OrphanOf(D0)
    BY Held
  <2>2. o.client \in Clients /\ doc \in D0 /\ FALSE \in BOOLEAN
    BY <2>1 DEF OrphanOf
  <2>3. ASSUME NEW d \in Clients, d # o.client PROVE Calm(d)'
    <3>1. Own(d)' = Own(d) /\ page'[d] = page[d] /\ crossed'[d] = crossed[d]
      BY <2>2, <2>3, SendOwn
    <3> QED
      BY <3>1, CalmSame DEF QInv
  <2>4. Calm(o.client)'
    <3> SUFFICES ASSUME ~ crossed'[o.client] PROVE Clean(o.client)' /\ ~ editor[o.client].shown
      BY DEF Calm
    <3>1. Clean(o.client)'
      BY <2>2, SentClean
    <3>2. ~ crossed[o.client]
      BY <2>2, SendOwn
    <3> QED
      BY <2>2, <3>1, <3>2 DEF QInv, Calm, Open
  <2> QED
    BY <2>3, <2>4 DEF QInv
<1> QED
  BY <1>1, <1>2

\* A request of a clean page that changes its state.
LEMMA WireOwn ==
  ASSUME TypeOK, NEW m \in calls, NEW s \in {"sent", "done", "failed"},
         calls' = (calls \ {m}) \union {[m EXCEPT !.state = s]}
  PROVE  /\ \A d \in Clients : d # m.client => Own(d)' = Own(d)
         /\ (\A x, y \in Own(m.client) : x = y)
              => Own(m.client)' = {[m EXCEPT !.state = s]}
<1> DEFINE q == [m EXCEPT !.state = s]
<1>1. IsCall(m, D0)
  BY Held
<1>2. q.client = m.client
  BY <1>1, StateType
<1> HIDE DEF q
<1>3. calls' = (calls \ {m}) \union {q}
  BY DEF q
<1>4. \A d \in Clients : d # m.client => Own(d)' = Own(d)
  BY <1>2, <1>3 DEF Own
<1>5. (\A x, y \in Own(m.client) : x = y) => Own(m.client)' = {q}
  BY <1>2, <1>3 DEF Own
<1> QED
  BY <1>4, <1>5 DEF q

LEMMA LandCalm ==
  ASSUME TypeOK, QInv, NEW m \in calls, Land(m)
  PROVE  QInv'
<1> DEFINE c == m.client
           q == [m EXCEPT !.state = "done"]
<1>1. /\ stored' = m.doc /\ m.state = "sent"
      /\ calls' = (calls \ {m}) \union {q}
      /\ UNCHANGED <<kind, page, editor, orphans, typed>>
      /\ \A d \in Clients : crossed'[d] = (crossed[d] \/ d # c)
  BY DEF Land
<1>2. IsCall(m, D0) /\ c \in Clients
  BY Held
<1>3. q.doc = m.doc /\ q.live = m.live /\ q.gone = m.gone /\ q.state = "done"
  BY <1>2, StateType
<1>4. ASSUME NEW d \in Clients, d # c PROVE Calm(d)'
  BY <1>1, <1>4, CalmCrossed
<1>5. Calm(c)'
  <2> SUFFICES ASSUME ~ crossed'[c] PROVE Clean(c)' /\ (editor[c].shown => Open(c)')
    BY <1>1 DEF Calm
  <2>1. ~ crossed[c]
    BY <1>1, <1>2
  <2>2. Clean(c) /\ (editor[c].shown => Open(c))
    BY <1>2, <2>1 DEF QInv, Calm
  <2>3. m \in Own(c)
    BY DEF Own
  <2>4. Own(c)' = {q}
    BY <1>1, <2>2, WireOwn DEF Clean
  <2> HIDE DEF q
  <2>5. Clean(c)'
    <3>1. \A x, y \in Own(c)' : x = y
      BY <2>4
    <3>2. ~ m.gone
      BY <2>2, <2>3 DEF Clean
    <3>3. \A x \in Own(c)' : ~ x.gone /\ (x.state = "done" => stored' = x.doc)
      BY <1>1, <1>3, <2>4, <3>2
    <3>4. page[c].get = "none"
      BY <2>2, <2>3 DEF Clean
    <3>5. Own(c)' # {} /\ ~ page'[c].get # "none" /\ ~ page'[c].get = "served"
      BY <1>1, <2>4, <3>4
    <3> QED
      BY <3>1, <3>3, <3>5, Zenon DEF Clean
  <2>6. ASSUME Open(c) PROVE Open(c)'
    <3>1. Mine(editor[c], m)
      BY <2>3, <2>6 DEF Open
    <3>2. Mine(editor[c], q)'
      BY <1>1, <1>3, <3>1 DEF Mine
    <3>3. \A x \in Own(c)' : Mine(editor[c], x)'
      BY <2>4, <3>2 DEF Mine
    <3> QED
      BY <1>1, <2>4, <2>6, <3>3 DEF Open
  <2> QED
    BY <2>2, <2>5, <2>6
<1> QED
  BY <1>4, <1>5 DEF QInv

LEMMA FailCalm ==
  ASSUME TypeOK, QInv, NEW m \in calls, Fail(m)
  PROVE  QInv'
<1> DEFINE c == m.client
           q == [m EXCEPT !.state = "failed"]
<1>1. /\ calls' = (calls \ {m}) \union {q}
      /\ UNCHANGED <<kind, stored, page, editor, orphans, typed, crossed>>
  BY DEF Fail
<1>2. IsCall(m, D0) /\ c \in Clients
  BY Held
<1>3. q.doc = m.doc /\ q.live = m.live /\ q.gone = m.gone /\ q.state = "failed"
  BY <1>2, StateType
<1>4. ASSUME NEW d \in Clients, d # c PROVE Calm(d)'
  <2>1. Own(d)' = Own(d)
    BY <1>1, <1>4, WireOwn
  <2> QED
    BY <1>1, <2>1, CalmSame DEF QInv
<1>5. Calm(c)'
  <2> SUFFICES ASSUME ~ crossed[c] PROVE Clean(c)' /\ (editor[c].shown => Open(c)')
    BY <1>1 DEF Calm
  <2>2. Clean(c) /\ (editor[c].shown => Open(c))
    BY <1>2 DEF QInv, Calm
  <2>3. m \in Own(c)
    BY DEF Own
  <2>4. Own(c)' = {q}
    BY <1>1, <2>2, WireOwn DEF Clean
  <2> HIDE DEF q
  <2>5. Clean(c)'
    <3>1. \A x, y \in Own(c)' : x = y
      BY <2>4
    <3>2. ~ m.gone
      BY <2>2, <2>3 DEF Clean
    <3>3. \A x \in Own(c)' : ~ x.gone /\ (x.state = "done" => stored' = x.doc)
      BY <1>1, <1>3, <2>4, <3>2
    <3>4. page[c].get = "none"
      BY <2>2, <2>3 DEF Clean
    <3>5. Own(c)' # {} /\ ~ page'[c].get # "none" /\ ~ page'[c].get = "served"
      BY <1>1, <2>4, <3>4
    <3> QED
      BY <3>1, <3>3, <3>5, Zenon DEF Clean
  <2>6. ASSUME Open(c) PROVE Open(c)'
    <3>1. Mine(editor[c], m)
      BY <2>3, <2>6 DEF Open
    <3>2. Mine(editor[c], q)'
      BY <1>1, <1>3, <3>1 DEF Mine
    <3>3. \A x \in Own(c)' : Mine(editor[c], x)'
      BY <2>4, <3>2 DEF Mine
    <3> QED
      BY <1>1, <2>4, <2>6, <3>3 DEF Open
  <2> QED
    BY <2>2, <2>5, <2>6
<1> QED
  BY <1>4, <1>5 DEF QInv

LEMMA AnswerCalm ==
  ASSUME TypeOK, QInv, NEW m \in calls, Answer(m)
  PROVE  QInv'
<1> DEFINE c == m.client
<1>1. /\ calls' = calls \ {m} /\ m.state \in {"done", "failed"}
      /\ page' = IF m.gone THEN page ELSE [page EXCEPT ![c] = Answered(page[c], m)]
      /\ editor' = IF kind = "drawio" /\ m.live
                   THEN [editor EXCEPT ![c] = [editor[c] EXCEPT !.marker = {m.doc}]] ELSE editor
      /\ UNCHANGED <<kind, stored, orphans, typed, crossed>>
  BY DEF Answer
<1>2. c \in Clients /\ page[c] \in PageOf(D0) /\ editor[c] \in EditorOf(D0)
  BY Held
<1>3. ASSUME NEW d \in Clients, d # c PROVE Calm(d)'
  <2>1. Own(d)' = Own(d)
    BY <1>1, <1>3 DEF Own
  <2>2. page'[d] = page[d] /\ editor'[d] = editor[d]
    BY <1>1, <1>2, <1>3, Held
  <2> QED
    BY <1>1, <2>1, <2>2, CalmSame DEF QInv
<1>4. Calm(c)'
  <2>1. m \in Own(c)
    BY DEF Own
  <2>2. /\ editor'[c].shown = editor[c].shown /\ editor'[c].text = editor[c].text
        /\ editor'[c].dirty = editor[c].dirty /\ editor'[c].timer = editor[c].timer
        /\ editor'[c].marker = IF kind = "drawio" /\ m.live THEN {m.doc} ELSE editor[c].marker
    <3>1. CASE kind = "drawio" /\ m.live
      <4>1. editor'[c] = [editor[c] EXCEPT !.marker = {m.doc}]
        BY <1>1, <1>2, <3>1, Held
      <4> QED
        BY <1>2, <3>1, <4>1 DEF EditorOf
    <3>2. CASE ~ (kind = "drawio" /\ m.live)
      BY <1>1, <3>2
    <3> QED
      BY <3>1, <3>2
  <2> SUFFICES ASSUME ~ crossed[c] PROVE Clean(c)' /\ (editor[c].shown => Open(c)')
    BY <1>1, <2>2 DEF Calm
  <2>3. Clean(c) /\ (editor[c].shown => Open(c))
    BY <1>2 DEF QInv, Calm
  <2>4. Own(c)' = {}
    BY <1>1, <2>3 DEF Own, Clean
  <2>5. ~ m.gone /\ (m.state = "done" => stored = m.doc) /\ page[c].get = "none"
    BY <2>1, <2>3 DEF Clean
  <2>6. page'[c] = Answered(page[c], m)
    BY <1>1, <1>2, <2>5, Held
  <2>7. /\ page'[c].get = page[c].get
        /\ page'[c].saving # "error" => m.state = "done" /\ page'[c].note = m.doc
    <3>1. CASE m.state = "done"
      BY <1>2, <2>6, <3>1 DEF Answered, PageOf
    <3>2. CASE m.state = "failed"
      <4>1. page'[c] = [page[c] EXCEPT !.saving = "error"]
        BY <2>6, <3>2 DEF Answered
      <4> QED
        BY <1>2, <4>1 DEF PageOf
    <3> QED
      BY <1>1, <3>1, <3>2
  <2>8. Clean(c)'
    BY <1>1, <2>4, <2>5, <2>7 DEF Clean
  <2>9. ASSUME Open(c) PROVE Open(c)'
    <3>1. Mine(editor[c], m)
      BY <2>1, <2>9 DEF Open
    <3>2. editor'[c].marker = {m.doc}
      BY <2>2, <3>1 DEF Mine
    <3>3. ~ editor[c].timer => editor[c].text = m.doc
      BY <3>1 DEF Mine
    <3>4. kind = "drawio" => editor[c].dirty # {} /\ editor[c].dirty \subseteq {editor[c].text}
      BY <2>9, <3>1 DEF Mine, Open
    <3>5. \A o \in orphans : o.client # c
      BY <2>9 DEF Open
    <3>6. page'[c].saving # "error" => {m.doc} \subseteq {stored}
      BY <2>5, <2>7
    <3> QED
      BY <1>1, <2>2, <2>4, <3>2, <3>3, <3>4, <3>5, <3>6 DEF Open
  <2> QED
    BY <2>3, <2>8, <2>9
<1> QED
  BY <1>3, <1>4 DEF QInv

LEMMA GetCalm ==
  ASSUME TypeOK, QInv, NEW c \in Clients, Refetch(c) \/ ServeGet(c) \/ TakeGet(c)
  PROVE  QInv'
<1>1. UNCHANGED <<kind, stored, editor, orphans, calls, typed>>
  BY DEF Refetch, ServeGet, TakeGet
<1>2. \A d \in Clients : Own(d)' = Own(d)
  BY <1>1 DEF Own
<1>3. page[c] \in PageOf(D0) /\ page \in [Clients -> PageOf(D0)]
      /\ crossed \in [Clients -> BOOLEAN]
  BY Held
<1>4. ASSUME NEW d \in Clients, d # c PROVE Calm(d)'
  <2>1. page'[d] = page[d] /\ crossed'[d] = crossed[d]
    BY <1>3, <1>4 DEF Refetch, ServeGet, TakeGet
  <2> QED
    BY <1>1, <1>2, <2>1, CalmSame DEF QInv
<1>5. page'[c].saving = page[c].saving
  BY <1>3 DEF Refetch, ServeGet, TakeGet, PageOf
<1>6. ~ crossed'[c] => ~ crossed[c]
  BY <1>3 DEF Refetch, ServeGet, TakeGet
<1>7. ASSUME ~ crossed'[c] PROVE Clean(c)'
  <2>1. Clean(c)
    BY <1>6, <1>7 DEF QInv, Calm
  <2>2. CASE Refetch(c)
    <3>1. page'[c].get = "sent" /\ page'[c].note = page[c].note
      BY <1>3, <2>2 DEF Refetch, PageOf
    <3>2. Own(c) = {}
      BY <1>3, <1>7, <2>2 DEF Refetch
    <3> QED
      BY <1>1, <1>2, <1>5, <2>1, <3>1, <3>2 DEF Clean
  <2>3. CASE ServeGet(c)
    <3>1. page'[c].got = stored /\ page'[c].note = page[c].note /\ page[c].get # "none"
      BY <1>3, <2>3 DEF ServeGet, PageOf
    <3> QED
      BY <1>1, <1>2, <1>5, <2>1, <3>1 DEF Clean
  <2>4. CASE TakeGet(c)
    <3>1. page'[c].get = "none" /\ page'[c].note = page[c].got /\ page[c].get = "served"
      BY <1>3, <2>4 DEF TakeGet, PageOf
    <3> QED
      BY <1>1, <1>2, <1>5, <2>1, <3>1 DEF Clean
  <2> QED
    BY <2>2, <2>3, <2>4
<1>8. Open(c) => Open(c)'
  BY <1>1, <1>2, <1>5 DEF Open, Mine
<1> QED
  BY <1>1, <1>4, <1>6, <1>7, <1>8 DEF QInv, Calm

LEMMA CloseWindowCalm ==
  ASSUME TypeOK, QInv, NEW c \in Clients, CloseWindow(c)
  PROVE  QInv'
<1> DEFINE flushed == IF kind = "drawio" /\ editor[c].shown THEN ToSend(editor[c]) ELSE {}
           p == [FreshPage(stored) EXCEPT !.gets = page[c].gets, !.closes = page[c].closes + 1]
<1>1. /\ calls' = {Left(m, c) : m \in calls} \union {Request(c, doc, FALSE, TRUE) : doc \in flushed}
      /\ editor' = [editor EXCEPT ![c] = Unmounted]
      /\ orphans' = {o \in orphans : o.client # c}
      /\ page' = [page EXCEPT ![c] = p]
      /\ crossed' = [crossed EXCEPT ![c] = \E m \in calls' : m.client = c]
      /\ UNCHANGED <<kind, stored, typed>>
  BY DEF CloseWindow, Left
<1>2. p.note = stored /\ p.get = "none"
  <2>1. \A x, y : LET f == [FreshPage(stored) EXCEPT !.gets = x, !.closes = y]
                 IN  f.note = stored /\ f.get = "none"
    BY DEF FreshPage
  <2> QED
    BY <2>1
<1>3. \A m \in calls : Left(m, c).client = m.client /\ (m.client # c => Left(m, c) = m)
  BY Held, LeftType
<1>4. \A doc \in flushed : Request(c, doc, FALSE, TRUE).client = c
  BY DEF Request
<1> HIDE DEF flushed, p
<1>5. ASSUME NEW d \in Clients, d # c PROVE Calm(d)'
  <2>1. page'[d] = page[d] /\ editor'[d] = editor[d] /\ crossed'[d] = crossed[d]
    BY <1>1, <1>5, Held
  <2>2. Own(d)' = Own(d)
    <3>1. ASSUME NEW m \in Own(d)' PROVE m \in Own(d)
      <4>1. m \in calls' /\ m.client = d
        BY DEF Own
      <4>2. PICK q \in calls : m = Left(q, c)
        BY <1>1, <1>4, <1>5, <4>1
      <4> QED
        BY <1>3, <1>5, <4>1, <4>2 DEF Own
    <3>2. ASSUME NEW m \in Own(d) PROVE m \in Own(d)'
      <4>1. m \in calls /\ m.client = d
        BY DEF Own
      <4>2. Left(m, c) = m
        BY <1>3, <1>5, <4>1
      <4>3. m \in calls'
        BY <1>1, <4>1, <4>2
      <4> QED
        BY <4>1, <4>3 DEF Own
    <3> QED
      BY <3>1, <3>2
  <2> QED
    BY <1>1, <2>1, <2>2, CalmSame DEF QInv
<1>6. Calm(c)'
  <2>1. editor'[c] = Unmounted /\ ~ Unmounted.shown /\ page'[c] = p
    BY <1>1, Held DEF Unmounted
  <2> SUFFICES ASSUME ~ crossed'[c] PROVE Clean(c)'
    BY <2>1 DEF Calm
  <2>2. Own(c)' = {}
    BY <1>1, Held DEF Own
  <2> QED
    BY <1>1, <1>2, <2>1, <2>2 DEF Clean
<1> QED
  BY <1>5, <1>6 DEF QInv

LEMMA StepCalm == TypeOK /\ QInv /\ [Next]_vars => QInv'
<1> SUFFICES ASSUME TypeOK, QInv, [Next]_vars PROVE QInv'
  OBVIOUS
<1>1. CASE Next
  BY <1>1, OpenTabCalm, LeaveTabCalm, EditCalm, SavingCalm, GetCalm,
     CloseWindowCalm, FireOrphanCalm, LandCalm, FailCalm, AnswerCalm DEF Next
<1>2. CASE UNCHANGED vars
  <2>1. UNCHANGED <<kind, stored, page, editor, orphans, calls, crossed>>
    BY <1>2 DEF vars
  <2>2. \A d \in Clients : Own(d)' = Own(d)
    BY <2>1 DEF Own
  <2> QED
    BY <2>1, <2>2, CalmSame DEF QInv
<1> QED
  BY <1>1, <1>2

LEMMA InitCalm == Init => QInv
<1> SUFFICES ASSUME Init, NEW c \in Clients PROVE Clean(c) /\ ~ editor[c].shown
  BY DEF QInv, Calm
<1>1. Own(c) = {} /\ stored = {} /\ page[c] = FreshPage({}) /\ editor[c] = Unmounted
  BY DEF Init, Own
<1>2. FreshPage({}).note = {} /\ FreshPage({}).get = "none" /\ ~ Unmounted.shown
  BY DEF FreshPage, Unmounted
<1> QED
  BY <1>1, <1>2 DEF Clean

\* A page at rest whose chip does not say "error" shows what the server has, and
\* so will the next tab it opens, unless a save of it met another save, a mount,
\* a refetch or another page's save (QuietMeansSaved).
THEOREM RestMeansSaved == Spec => []QuietMeansSaved
<1>1. QInv => QuietMeansSaved
  <2> SUFFICES ASSUME QInv, NEW c \in Clients, Quiet(c), ~ crossed[c], page[c].saving # "error"
               PROVE  stored = editor[c].text /\ page[c].note = stored
    BY DEF QuietMeansSaved
  <2>1. Clean(c) /\ Open(c) /\ Own(c) = {} /\ ~ editor[c].timer
    BY DEF QInv, Calm, Quiet
  <2>2. page[c].note = stored
    BY <2>1 DEF Clean
  <2>3. editor[c].text \in editor[c].marker /\ editor[c].marker \subseteq {stored}
    BY <2>1 DEF Open
  <2> QED
    BY <2>2, <2>3
<1> QED
  BY <1>1, InitTyped, InitCalm, StepTyped, StepCalm, PTL DEF Spec

=============================================================================
