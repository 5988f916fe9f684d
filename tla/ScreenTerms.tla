---------------------------- MODULE ScreenTerms ----------------------------
(***************************************************************************)
(* The words in which the screens of the frontend are written down: what a *)
(* component asks the server for (useQuery), what it lets the user do      *)
(* (useMutation, or an async handler that calls the API), which requests   *)
(* that takes, and which cached answers it refreshes when it succeeds.     *)
(*                                                                         *)
(* A resource is named by the path of its collection.  A token of a query  *)
(* key is its literal, "id" for the identity of one row, or "filter" for   *)
(* any other value of the component's state.                               *)
(***************************************************************************)
EXTENDS Integers, Sequences, FiniteSets, SequencesExt

---------------------------------------------------------------------------
(* One request to the server, by its effect.                               *)

Request(verb, r) == [verb |-> verb, of |-> r, twin |-> "made"]

Make(r)   == Request("make", r)            \* a new row of r
Add(r)    == Request("add", r)             \* a new part of a row of r: a file, a line
Change(r) == Request("change", r)          \* other values in a row of r or in its parts
Drop(r)   == Request("drop", r)            \* a row of r less
Probe     == Request("probe", "nothing")   \* nothing a screen shows

\* What the handler does when the very thing is there already.  Make and Add by
\* themselves make another one.
Unique(w)  == [w EXCEPT !.twin = "refused"]   \* a unique constraint refuses it
Checked(w) == [w EXCEPT !.twin = "checked"]   \* refused by a look before the insert, no more
Kept(w)    == [w EXCEPT !.twin = "kept"]      \* what is there is the answer
Upsert(w)  == [w EXCEPT !.twin = "written"]   \* what is there is written over

\* Requests that leave one more thing on the server.
Makes(w) == w.verb \in {"make", "add"}

---------------------------------------------------------------------------
(* A way through an operation: waves of requests.  The requests of a wave  *)
(* fly together, and a wave is sent when the one before it is answered.    *)

One(w)      == << <<w>> >>
Each(w)     == << <<w>>, <<w>> >>    \* for (...) await ...: two items
Together(w) == << <<w, w>> >>        \* Promise.all: two items

\* One request after the other for the sections that were edited, in order.
SomeOf(ws) ==
  {[i \in 1..Cardinality(S) |-> <<ws[SetToSortSeq(S, <)[i]]>>] :
       S \in SUBSET (1..Len(ws)) \ {{}}}

---------------------------------------------------------------------------
(* A query: its key, the resources whose rows it lists (many), the         *)
(* resource of which it shows one row (one), and when mounting asks again: *)
(* when the answer is old, every time, or on a clock as well.              *)

Rows(key, shown)         == [key |-> key, one |-> {},  many |-> shown, asks |-> "old"]
Row(key, r)              == [key |-> key, one |-> {r}, many |-> {},    asks |-> "old"]
RowWith(key, r, details) == [key |-> key, one |-> {r}, many |-> details, asks |-> "old"]
Fresh(query)             == [query EXCEPT !.asks = "always"]
Polled(query)            == [query EXCEPT !.asks = "clock"]

\* The request changes what the query would answer.
Hits(w, query) ==
  w.of \in query.many \/ (w.of \in query.one /\ (w.verb # "make" \/ w.twin = "written"))

\* One of the keys is a prefix of the query's key: how a refresh finds it.
Covers(keys, query) == \E k \in keys : IsPrefix(k, query.key)

---------------------------------------------------------------------------
(* An operation: its ways, the keys it refreshes when it succeeds, those   *)
(* it writes the answer to (setQueryData), and whether it leaves the page. *)
(* How it starts is the screen's: "guarded" by a button that is disabled   *)
(* while the operation runs, "asked" by a dialog or a choice of files that *)
(* is new every time, or "open".                                           *)

Op(ways, keys) ==
  [ways |-> ways, refreshes |-> keys, sets |-> {}, leaves |-> FALSE, press |-> "open"]
Setting(op, keys) == [op EXCEPT !.sets = keys]
Leaving(op) == [op EXCEPT !.leaves = TRUE]

Screen(press, queries, ops) ==
  [queries |-> queries, ops |-> [o \in DOMAIN ops |-> [ops[o] EXCEPT !.press = press[o]]]]
View(queries) == [queries |-> queries, ops |-> <<>>]

=============================================================================
