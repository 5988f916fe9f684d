------------------------------ MODULE Screens ------------------------------
(***************************************************************************)
(* One operation of one screen, and one query mounted on the same page     *)
(* that shows what the operation writes.  The user starts the operation    *)
(* more than once and may look away and come back; the server does or      *)
(* refuses each request, and its answers may be lost; the cache of         *)
(* react-query decides when the query is asked again.                      *)
(*                                                                         *)
(* The screens themselves are data: the modules that define them translate *)
(* one component each.  Operations that look the same to the query share   *)
(* their states, so that every operation of every page is checked against  *)
(* every query of its page.                                                *)
(***************************************************************************)
EXTENDS ScreenTerms

CONSTANTS
  Places,     \* the pages: sets of screens mounted together
  Unrefreshed,\* <<screen, operation, key>>: written to and not refreshed
  Repeatable, \* <<screen, operation>>: makes a thing, and can be pressed again
              \* before the user is done with it
  Piecewise,  \* <<screen, operation>>: makes a thing with one of several requests
  MaxTries,   \* how often the user starts the operation
  MaxVisits   \* how often the user comes back to the page

ASSUME ScreensAssumption ==
  /\ MaxTries \in Nat \ {0}
  /\ MaxVisits \in Nat
  /\ \A place \in Places : \A s \in place : \A o \in DOMAIN s.ops :
       /\ s.ops[o].press \in {"open", "guarded", "asked"}
       /\ s.ops[o].leaves \in BOOLEAN
       /\ \A way \in s.ops[o].ways :
            way \in Seq(Seq([verb : {"make", "add", "change", "drop", "probe"}, of : STRING,
                             twin : {"made", "refused", "checked", "kept", "written"}]))

VARIABLES
  case,    \* what the query sees of the operation: it never changes
  tries,   \* the attempts: the wave each is at, its requests, what the last one
           \* of them answered, how it ended and what the user meant by it
  made,    \* things made: <<aim, wave, item, attempt>>
  stored,  \* writes the query shows that the server has done
  cache,   \* the query's entry: [seen, marked, aged]
  get,     \* its request: [at |-> "idle" | "asked" | "read", seen]
  here,    \* the page is mounted
  visits,
  odd      \* what went wrong on the way: {"refused", "lost", "raced"}

vars == <<case, tries, made, stored, cache, get, here, visits, odd>>

NotLoaded == -1
Idle      == [at |-> "idle", seen |-> NotLoaded]
Asked     == [at |-> "asked", seen |-> NotLoaded]

---------------------------------------------------------------------------
(* The cases: an operation, a way through it and a query of the same page. *)

Plan(way, query) ==
  [i \in 1..Len(way) |->
     [j \in 1..Len(way[i]) |-> [makes |-> Makes(way[i][j]), hits |-> Hits(way[i][j], query),
                                twin |-> way[i][j].twin]]]

Case(screen, o, way, query) ==
  LET op == screen.ops[o]
  IN [press   |-> op.press,
      plan    |-> Plan(way, query),
      refresh |-> Covers(op.refreshes, query),
      set     |-> Covers(op.sets, query),
      leaves  |-> op.leaves,
      asks    |-> query.asks,
      known   |-> <<screen, o, query.key>> \in Unrefreshed,
      repeats |-> <<screen, o>> \in Repeatable,
      pieces  |-> <<screen, o>> \in Piecewise]

\* A page whose screens only write is paired with a query that shows nothing.
NoQuery == Rows(<<>>, {})

QueriesOf(place) == UNION {s.queries : s \in place} \cup {NoQuery}

Cases ==
  UNION {UNION {UNION {{Case(s, o, way, q) : way \in s.ops[o].ways, q \in QueriesOf(place)}
                       : o \in DOMAIN s.ops} : s \in place} : place \in Places}

Interesting(c) ==
  \E i \in DOMAIN c.plan : \E j \in DOMAIN c.plan[i] : c.plan[i][j].makes \/ c.plan[i][j].hits

Init ==
  /\ case \in {c \in Cases : Interesting(c)}
  /\ tries = <<>>
  /\ made = {}
  /\ stored = 0
  /\ cache = [seen |-> NotLoaded, marked |-> FALSE, aged |-> FALSE]
  /\ get = Asked
  /\ here = TRUE
  /\ visits = 0
  /\ odd = {}

---------------------------------------------------------------------------
(* The user.                                                               *)

Running(t) == tries[t].ends = "no"
Busy       == \E t \in DOMAIN tries : Running(t)

\* The requests of a wave that have just been sent.
SentWave(i) == [j \in DOMAIN case.plan[i] |-> "sent"]

NewAim == Len(tries) + 1

\* What every attempt so far has failed at.
FailedAims ==
  {tries[t].aim : t \in {t \in DOMAIN tries :
     \A s \in DOMAIN tries : tries[s].aim = tries[t].aim => tries[s].ends = "badly"}}

\* What the user may mean by a press.  A dialog or a choice of files is about
\* something new, or about what has failed: the same file may be chosen again.  A
\* button means the same thing until that has succeeded and, when success leaves
\* the page, until the page is gone.
AimsOfPress ==
  IF case.press = "asked" THEN {NewAim} \cup FailedAims
  ELSE IF tries = <<>> \/ (Last(tries).ends = "well" /\ ~ case.leaves) THEN {NewAim}
  ELSE {Last(tries).aim}

Disabled == case.press = "guarded" /\ Busy

Press ==
  /\ here
  /\ Len(tries) < MaxTries
  /\ ~ Disabled
  /\ \E aim \in AimsOfPress :
       tries' = Append(tries, [wave |-> 1, requests |-> SentWave(1), saw |-> NotLoaded,
                               ends |-> "no", aim |-> aim])
  /\ UNCHANGED <<case, made, stored, cache, get, here, visits, odd>>

\* The page is left: the query keeps its entry, and a request on its way.
Leave ==
  /\ here
  /\ here' = FALSE
  /\ UNCHANGED <<case, tries, made, stored, cache, get, visits, odd>>

Wanted == cache.seen = NotLoaded \/ cache.marked \/ cache.aged \/ case.asks = "always"

Return ==
  /\ ~ here /\ visits < MaxVisits
  /\ here' = TRUE
  /\ visits' = visits + 1
  /\ get' = IF Wanted /\ get.at = "idle" THEN Asked ELSE get
  /\ UNCHANGED <<case, tries, made, stored, cache, odd>>

---------------------------------------------------------------------------
(* The requests of an attempt.                                             *)

Sends(t, j) == case.plan[tries[t].wave][j]

SameThing(a, b) == a[1] = b[1] /\ a[2] = b[2] /\ a[3] = b[3]

Thing(t, j) == <<tries[t].aim, tries[t].wave, j, t>>

\* What the request is to make is there: an attempt at the same has made it.
There(t, j) == Sends(t, j).makes /\ \E x \in made : SameThing(x, Thing(t, j))

\* The server does the request.  Where the handler looks first, it has not found
\* the thing, which may be there by now.
Serve(t, j) ==
  LET r == Sends(t, j)
  IN /\ tries[t].requests[j] = IF r.twin = "checked" THEN "passed" ELSE "sent"
     /\ r.twin = "refused" => ~ There(t, j)
     /\ stored' = IF r.hits /\ ~ (r.twin = "kept" /\ There(t, j)) THEN stored + 1 ELSE stored
     /\ tries' = [tries EXCEPT ![t].requests[j] = "done", ![t].saw = stored']
     /\ made' = IF r.makes /\ ~ (r.twin \in {"kept", "written"} /\ There(t, j))
                  THEN made \cup {Thing(t, j)} ELSE made
     /\ UNCHANGED <<case, cache, get, here, visits, odd>>

\* The handler looks for the thing and does not find it.
Pass(t, j) ==
  /\ Sends(t, j).twin = "checked" /\ ~ There(t, j)
  /\ tries[t].requests[j] = "sent"
  /\ tries' = [tries EXCEPT ![t].requests[j] = "passed"]
  /\ UNCHANGED <<case, made, stored, cache, get, here, visits, odd>>

\* It finds the thing there already and says so.
TurnAway(t, j) ==
  /\ Sends(t, j).twin \in {"refused", "checked"} /\ There(t, j)
  /\ tries[t].requests[j] = "sent"
  /\ tries' = [tries EXCEPT ![t].requests[j] = "refused", ![t].ends = "badly"]
  /\ odd' = odd \cup {"refused"}
  /\ UNCHANGED <<case, made, stored, cache, get, here, visits>>

\* The server refuses it for reasons of its own, or does it and the answer is lost.
Fails(t, j) ==
  /\ Running(t)
  /\ \/ tries[t].requests[j] \in {"sent", "passed"} /\ odd' = odd \cup {"refused"}
     \/ tries[t].requests[j] = "done" /\ odd' = odd \cup {"lost"}
  /\ tries' = [tries EXCEPT ![t].requests[j] = IF @ = "done" THEN "lost" ELSE "refused",
                            ![t].ends = "badly"]
  /\ UNCHANGED <<case, made, stored, cache, get, here, visits>>

AllDone(t) == \A j \in DOMAIN tries[t].requests : tries[t].requests[j] = "done"

\* The wave is answered and the next one is sent.
Continue(t) ==
  /\ Running(t) /\ AllDone(t)
  /\ tries[t].wave < Len(case.plan)
  /\ tries' = [tries EXCEPT ![t].wave = @ + 1, ![t].requests = SentWave(tries[t].wave + 1)]
  /\ UNCHANGED <<case, made, stored, cache, get, here, visits, odd>>

\* Mutated form of Refreshed: the entry is marked and nothing is asked.
RefreshedLater ==
  /\ cache' = [cache EXCEPT !.marked = TRUE]
  /\ UNCHANGED <<get, odd>>

\* Refreshing marks the entry and, where it is mounted, asks again: a request
\* on its way is dropped when there is an answer to show meanwhile, and waited
\* for when there is none.
Refreshed ==
  /\ cache' = [cache EXCEPT !.marked = TRUE]
  /\ get' = IF here /\ (get.at = "idle" \/ cache.seen # NotLoaded) THEN Asked ELSE get
  /\ odd' = IF get.at # "idle" /\ (~ here \/ cache.seen = NotLoaded)
              THEN odd \cup {"raced"} ELSE odd

\* The answer of the attempt becomes the entry, older than the server's row or
\* not; a request on its way stays.
Written(t) ==
  /\ cache' = [seen |-> tries[t].saw, marked |-> case.refresh, aged |-> FALSE]
  /\ get' = IF case.refresh /\ here THEN Asked ELSE get
  /\ odd' = IF ~ (case.refresh /\ here) /\ (get.at # "idle" \/ tries[t].saw # stored)
              THEN odd \cup {"raced"} ELSE odd

\* The operation has succeeded.
Settle(t) ==
  /\ Running(t) /\ AllDone(t)
  /\ tries[t].wave = Len(case.plan)
  /\ tries' = [tries EXCEPT ![t].ends = "well"]
  /\ IF case.set THEN Written(t)
     ELSE IF case.refresh THEN Refreshed
     ELSE UNCHANGED <<cache, get, odd>>
  /\ UNCHANGED <<case, made, stored, here, visits>>

\* An operation that leaves the page does so after it has succeeded.
Navigate ==
  /\ here /\ case.leaves
  /\ \E t \in DOMAIN tries : tries[t].ends = "well"
  /\ here' = FALSE
  /\ UNCHANGED <<case, tries, made, stored, cache, get, visits, odd>>

---------------------------------------------------------------------------
(* The query.                                                              *)

Read ==
  /\ get.at = "asked"
  /\ get' = [at |-> "read", seen |-> stored]
  /\ UNCHANGED <<case, tries, made, stored, cache, here, visits, odd>>

Land ==
  /\ get.at = "read"
  /\ cache' = [seen |-> get.seen, marked |-> FALSE, aged |-> FALSE]
  /\ get' = Idle
  /\ UNCHANGED <<case, tries, made, stored, here, visits, odd>>

\* The answer passes its staleTime: the next mount asks again.
Age ==
  /\ cache.seen # NotLoaded /\ ~ cache.aged
  /\ ~ here
  /\ cache' = [cache EXCEPT !.aged = TRUE]
  /\ UNCHANGED <<case, tries, made, stored, get, here, visits, odd>>

\* refetchInterval: a mounted query is asked again on a clock.
Poll ==
  /\ case.asks = "clock" /\ here /\ get.at = "idle"
  /\ get' = Asked
  /\ UNCHANGED <<case, tries, made, stored, cache, here, visits, odd>>

---------------------------------------------------------------------------

Requests == UNION {{<<t, j>> : j \in DOMAIN tries[t].requests} : t \in DOMAIN tries}

Server == \E r \in Requests : \/ Serve(r[1], r[2])
                            \/ Pass(r[1], r[2]) \/ TurnAway(r[1], r[2])
Client == \E t \in DOMAIN tries : Continue(t) \/ Settle(t)

Next ==
  \/ Press \/ Leave \/ Return
  \/ Server \/ (\E r \in Requests : Fails(r[1], r[2]))
  \/ Client \/ Navigate
  \/ Read \/ Land \/ Age \/ Poll

\* Requests are answered, the browser reacts to answers, clocks run.
Fairness == WF_vars(Server) /\ WF_vars(Client) /\ WF_vars(Read) /\ WF_vars(Land) /\ WF_vars(Poll)

Spec == Init /\ [][Next]_vars /\ Fairness

---------------------------------------------------------------------------

Quiet ==
  /\ ~ Busy
  /\ get.at = "idle"
  /\ \A r \in Requests : tries[r[1]].requests[r[2]] \notin {"sent", "passed"}

\* The operation has left the page, or is about to.
Gone == case.leaves /\ \E t \in DOMAIN tries : tries[t].ends = "well"

\* A page that is open and has nothing on its way shows all that its user has
\* written with it, unless the code does not refresh that query, an attempt
\* failed half way, or the query's answer was on its way when the operation
\* succeeded and was not asked for again.
OwnWritesShown ==
  (Quiet /\ here /\ ~ Gone) => (cache.seen = stored \/ odd # {} \/ case.known)

\* Whatever the user means to make is made once, however often the button is
\* pressed and whatever is refused, unless the answer to the request that made it
\* was lost.  The pages that do not keep to this are listed: those that can be
\* pressed again, and those that make it with one of several requests and start
\* again from the first when another of them failed.
MadeOnce ==
  \A a, b \in made : SameThing(a, b) /\ a[4] < b[4] =>
    LET first == tries[a[4]]
    IN  \/ case.repeats
        \/ case.pieces /\ first.ends = "badly"
        \/ first.wave = a[2] /\ first.requests[a[3]] = "lost"

\* What is stale when nothing is on its way stays so until the page is visited
\* again.  A page that polls has no such excuse.
Stuck == case.asks # "clock" /\ (odd # {} \/ case.known)

\* What was started comes to an end, and the page, when it stays open, then
\* shows it: one that polls whatever was refused, lost or raced, and whatever its
\* operations refresh.
Converges ==
  Busy ~> \/ ~ Busy /\ (Gone \/ cache.seen = stored \/ Stuck)
          \/ ~ here

=============================================================================
