------------------------------ MODULE Mindmap ------------------------------
(***************************************************************************)
(* The mindmap tab of a meeting note: nodes and lines, subtrees folded     *)
(* away, and the two stacks of snapshots behind undo and redo.  React Flow *)
(* is given only the nodes and lines that are not hidden, so what it       *)
(* deletes or connects is visible; the snapshots, and the drop of a node   *)
(* onto another, work on everything.  Positions, labels and colours are    *)
(* left out, the steps that push a snapshot for them are not.              *)
(***************************************************************************)
EXTENDS Naturals, Sequences, FiniteSets

CONSTANTS MaxNodes,    \* nodes are 1 .. MaxNodes, in the order they are made
          MaxPast,     \* snapshots kept, 100 in the code
          MaxSteps,
          Saved        \* maps a note may have been saved with

VARIABLES map,       \* nodes, edges and the nodes folded (shut)
          past, future,
          image,     \* pasted image being compressed, with the map its closure saw
          made,      \* nodes made so far
          drawn,     \* a line was drawn by hand (history)
          steps

vars == <<map, past, future, image, made, drawn, steps>>

Ids == 1 .. MaxNodes

Init ==
  /\ map \in Saved
  /\ past = <<>> /\ future = <<>> /\ image = {} /\ drawn = FALSE /\ steps = 0
  /\ made = Cardinality(map.nodes)

---------------------------------------------------------------------------
ChildrenOf(n, edges) == {m \in Ids : <<n, m>> \in edges}

ParentsOf(n, edges) == {m \in Ids : <<m, n>> \in edges}

\* Breadth first, the nodes already visited left out.
Below(n, edges) ==
  LET below[k \in Ids] ==
        IF k = 1 THEN ChildrenOf(n, edges)
        ELSE below[k - 1] \union UNION {ChildrenOf(m, edges) : m \in below[k - 1]}
  IN  below

DescendantsOf(n, edges) == Below(n, edges)[MaxNodes]

Hidden(m) == UNION {DescendantsOf(n, m.edges) : n \in m.nodes \intersect m.shut}

Visible(m) == m.nodes \ Hidden(m)

VisibleEdges(m) == {e \in m.edges : {e[1], e[2]} \intersect Hidden(m) = {}}

Trimmed(s) == IF Len(s) > MaxPast THEN Tail(s) ELSE s

\* pushHistory: the map its closure saw becomes the last snapshot.
PushHistory(snap) == past' = Trimmed(Append(past, snap)) /\ future' = <<>>

Step == steps < MaxSteps /\ steps' = steps + 1

New == made + 1

---------------------------------------------------------------------------
\* A node without a parent: the toolbar, or a double click on the pane.
AddNode ==
  /\ Step /\ New \in Ids
  /\ PushHistory(map)
  /\ map' = [map EXCEPT !.nodes = @ \union {New}]
  /\ made' = New
  /\ UNCHANGED <<image, drawn>>

\* Tab: the selected node may be one that was folded away afterwards.
AddChildOf(p) ==
  /\ Step /\ New \in Ids /\ p \in map.nodes
  /\ PushHistory(map)
  /\ map' = [map EXCEPT !.nodes = @ \union {New}, !.edges = @ \union {<<p, New>>}]
  /\ made' = New
  /\ UNCHANGED <<image, drawn>>

\* Shift+Tab: the sibling hangs below the first parent, if there is one.
AddSiblingOf(s) ==
  /\ Step /\ New \in Ids /\ s \in map.nodes
  /\ PushHistory(map)
  /\ \/ /\ ParentsOf(s, map.edges) = {}
        /\ map' = [map EXCEPT !.nodes = @ \union {New}]
     \/ \E p \in ParentsOf(s, map.edges) :
          map' = [map EXCEPT !.nodes = @ \union {New}, !.edges = @ \union {<<p, New>>}]
  /\ made' = New
  /\ UNCHANGED <<image, drawn>>

\* Mutated form of Reparent: a node may be dropped onto its own descendant.
ReparentAnywhere(d, t) ==
  /\ Step /\ d \in Visible(map) /\ t \in map.nodes \ {d}
  /\ PushHistory(map)
  /\ map' = [map EXCEPT !.edges = {e \in @ : e[2] # d} \union {<<t, d>>}]
  /\ UNCHANGED <<image, made, drawn>>

\* A node released over another, which may be hidden, becomes its child.
Reparent(d, t) ==
  /\ Step /\ d \in Visible(map) /\ t \in map.nodes \ {d}
  /\ t \notin DescendantsOf(d, map.edges)
  /\ PushHistory(map)
  /\ map' = [map EXCEPT !.edges = {e \in @ : e[2] # d} \union {<<t, d>>}]
  /\ UNCHANGED <<image, made, drawn>>

\* A line drawn from handle to handle; addEdge drops one that is there.
OnConnect(a, b) ==
  /\ Step /\ {a, b} \subseteq Visible(map) /\ a # b
  /\ PushHistory(map)
  /\ map' = [map EXCEPT !.edges = @ \union {<<a, b>>}]
  /\ drawn' = TRUE
  /\ UNCHANGED <<image, made>>

\* The context menu.
DeleteNode(n) ==
  /\ Step /\ n \in Visible(map)
  /\ PushHistory(map)
  /\ map' = [nodes |-> map.nodes \ {n}, shut |-> map.shut \ {n},
             edges |-> {e \in map.edges : n \notin {e[1], e[2]}}]
  /\ UNCHANGED <<image, made, drawn>>

\* Backspace and Delete: React Flow removes the node and the lines it knows.
KeyDelete(n) ==
  /\ Step /\ n \in Visible(map)
  /\ map' = [nodes |-> map.nodes \ {n}, shut |-> map.shut \ {n},
             edges |-> {e \in map.edges : ~(e \in VisibleEdges(map) /\ n \in {e[1], e[2]})}]
  /\ UNCHANGED <<past, future, image, made, drawn>>

KeyDeleteEdge(e) ==
  /\ Step /\ e \in VisibleEdges(map)
  /\ map' = [map EXCEPT !.edges = @ \ {e}]
  /\ UNCHANGED <<past, future, image, made, drawn>>

\* The toggle is there while the node has children.
ToggleCollapse(n) ==
  /\ Step /\ n \in Visible(map) /\ ChildrenOf(n, map.edges) # {}
  /\ map' = [map EXCEPT !.shut = IF n \in @ THEN @ \ {n} ELSE @ \union {n}]
  /\ UNCHANGED <<past, future, image, made, drawn>>

\* Colours and automatic layout.
Restyle ==
  /\ Step /\ PushHistory(map)
  /\ UNCHANGED <<map, image, made, drawn>>

---------------------------------------------------------------------------
Undo ==
  /\ Step /\ past # <<>>
  /\ map' = past[Len(past)]
  /\ past' = SubSeq(past, 1, Len(past) - 1)
  /\ future' = Append(future, map)
  /\ UNCHANGED <<image, made, drawn>>

Redo ==
  /\ Step /\ future # <<>>
  /\ map' = future[Len(future)]
  /\ future' = SubSeq(future, 1, Len(future) - 1)
  /\ past' = Append(past, map)
  /\ UNCHANGED <<image, made, drawn>>

\* The handler keeps the map it saw until the image is compressed.
Paste ==
  /\ Step /\ image = {}
  /\ image' = {map}
  /\ UNCHANGED <<map, past, future, made, drawn>>

\* Onto the selected node, or as a node of its own.
Compressed(seen) ==
  /\ image' = image \ {seen}
  /\ PushHistory(seen)
  /\ \/ seen.nodes # {} /\ UNCHANGED <<map, made>>
     \/ /\ New \in Ids /\ made' = New
        /\ map' = [map EXCEPT !.nodes = @ \union {New}]
  /\ UNCHANGED <<drawn, steps>>

Next ==
  \/ AddNode \/ Restyle \/ Undo \/ Redo \/ Paste
  \/ \E seen \in image : Compressed(seen)
  \/ \E n \in map.nodes : \/ AddChildOf(n) \/ AddSiblingOf(n)
                          \/ DeleteNode(n) \/ KeyDelete(n) \/ ToggleCollapse(n)
  \/ \E n, m \in map.nodes : Reparent(n, m) \/ OnConnect(n, m)
  \/ \E e \in map.edges : KeyDeleteEdge(e)

Spec == Init /\ [][Next]_vars

---------------------------------------------------------------------------
(***************************************************************************)
(* Properties.                                                             *)
(***************************************************************************)

\* What a user folded away can be unfolded again: above every hidden node
\* there is a folded node that is on the screen.  It holds through drops,
\* deletions, undo, redo and late pastes as long as no line is drawn by hand,
\* because every snapshot is a forest: nothing is dropped below itself.
CanUnfold ==
  drawn \/ \A n \in map.nodes \intersect Hidden(map) :
             \E top \in Visible(map) \intersect map.shut :
               n \in DescendantsOf(top, map.edges)

===========================================================================
