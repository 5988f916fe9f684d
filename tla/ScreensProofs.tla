--------------------------- MODULE ScreensProofs ---------------------------
(***************************************************************************)
(* What a page shows and makes, for any set of screens, any number of      *)
(* presses and any number of visits.                                       *)
(***************************************************************************)
EXTENDS Screens, SequenceTheorems, TLAPS

Twins == {"made", "refused", "checked", "kept", "written"}

\* One request of a plan: does it make a thing, does the query show what it writes,
\* and what becomes of it when the thing is there.
Step == [makes : BOOLEAN, hits : BOOLEAN, twin : Twins]

ShapeOf(c) ==
  /\ c.plan \in Seq(Seq(Step))
  /\ c.press \in {"open", "guarded", "asked"}
  /\ c.leaves \in BOOLEAN /\ c.refresh \in BOOLEAN /\ c.set \in BOOLEAN
  /\ c.known \in BOOLEAN
  /\ Interesting(c)

States == {"sent", "passed", "done", "refused", "lost"}

Try == [wave : Nat, requests : Seq(States), saw : Int, ends : {"no", "well", "badly"},
        aim : Nat]

\* An attempt is at a wave of its plan and has that wave's requests.
AtWave(u) ==
  /\ u.wave \in DOMAIN case.plan
  /\ DOMAIN u.requests = DOMAIN case.plan[u.wave]

\* One that has succeeded has all its answers; one that has failed is why
\* something is odd.
HasEnded(u) ==
  /\ u.ends = "well" => \A j \in DOMAIN u.requests : u.requests[j] = "done"
  /\ u.ends = "badly" =>
       \E j \in DOMAIN u.requests : /\ u.requests[j] \in {"refused", "lost"}
                                    /\ u.requests[j] \in odd

Attempts == \A t \in DOMAIN tries : AtWave(tries[t]) /\ HasEnded(tries[t])

TypeOK ==
  /\ ShapeOf(case)
  /\ tries \in Seq(Try)
  /\ made \subseteq Nat \X Nat \X Nat \X Nat
  /\ stored \in Nat
  /\ cache \in [seen : Int, marked : BOOLEAN, aged : BOOLEAN]
  /\ get \in [at : {"idle", "asked", "read"}, seen : Int]
  /\ here \in BOOLEAN
  /\ visits \in Nat
  /\ odd \subseteq {"refused", "lost", "raced"}

TInv == TypeOK /\ Attempts

---------------------------------------------------------------------------
(* The shape of a case.                                                    *)

Verbs == {"make", "add", "change", "drop", "probe"}
Words == [verb : Verbs, of : STRING, twin : Twins]
Ways == Seq(Seq(Words))

LEMMA PlanShape ==
  ASSUME NEW way \in Ways, NEW q
  PROVE  Plan(way, q) \in Seq(Seq(Step))
<1> DEFINE n == Len(way)
           step(w) == [makes |-> Makes(w), hits |-> Hits(w, q), twin |-> w.twin]
           wave(i) == [j \in 1..Len(way[i]) |-> step(way[i][j])]
<1>1. n \in Nat /\ \A i \in 1..n : way[i] \in Seq(Words)
  BY DEF Ways
<1>2. \A w : Makes(w) \in BOOLEAN /\ Hits(w, q) \in BOOLEAN
  BY DEF Makes, Hits
<1>3. ASSUME NEW i \in 1..n PROVE wave(i) \in Seq(Step)
  <2>1. Len(way[i]) \in Nat
    BY <1>1
  <2>2. \A j \in 1..Len(way[i]) : way[i][j].twin \in Twins
    <3>1. \A w \in Words : w.twin \in Twins
      BY DEF Words
    <3>2. \A j \in 1..Len(way[i]) : way[i][j] \in Words
      BY <1>1
    <3> QED
      BY <3>1, <3>2
  <2>3. \A j \in 1..Len(way[i]) : step(way[i][j]) \in Step
    BY <1>2, <2>2 DEF Step
  <2> HIDE DEF step
  <2> QED
    BY <2>1, <2>3
<1>4. Plan(way, q) = [i \in 1..n |-> wave(i)]
  BY DEF Plan
<1> HIDE DEF wave, n
<1> QED
  BY <1>1, <1>3, <1>4

LEMMA CaseShape ==
  ASSUME NEW c \in Cases, Interesting(c)
  PROVE  ShapeOf(c)
<1>1. PICK place \in Places : \E s \in place : \E o \in DOMAIN s.ops :
         \E way \in s.ops[o].ways, q \in QueriesOf(place) : c = Case(s, o, way, q)
  BY DEF Cases
<1>2. PICK s \in place : \E o \in DOMAIN s.ops :
         \E way \in s.ops[o].ways, q \in QueriesOf(place) : c = Case(s, o, way, q)
  BY <1>1
<1>3. PICK o \in DOMAIN s.ops :
         \E way \in s.ops[o].ways, q \in QueriesOf(place) : c = Case(s, o, way, q)
  BY <1>2
<1>4. PICK way \in s.ops[o].ways : \E r \in QueriesOf(place) : c = Case(s, o, way, r)
  BY <1>3
<1>5. PICK q \in QueriesOf(place) : c = Case(s, o, way, q)
  BY <1>4
<1>6. /\ s.ops[o].press \in {"open", "guarded", "asked"} /\ s.ops[o].leaves \in BOOLEAN
      /\ way \in Ways
  BY ScreensAssumption DEF Ways, Words, Verbs, Twins
<1>7. Plan(way, q) \in Seq(Seq(Step))
  BY <1>6, PlanShape
<1>8. /\ c.press = s.ops[o].press /\ c.plan = Plan(way, q) /\ c.leaves = s.ops[o].leaves
      /\ c.refresh = Covers(s.ops[o].refreshes, q) /\ c.set = Covers(s.ops[o].sets, q)
      /\ c.known = (<<s, o, q.key>> \in Unrefreshed)
  BY <1>5 DEF Case
<1>9. \A k : Covers(k, q) \in BOOLEAN
  BY DEF Covers
<1>10. c.refresh \in BOOLEAN /\ c.set \in BOOLEAN
  BY <1>8, <1>9
<1>11. c.known \in BOOLEAN
  BY <1>8
<1> QED
  BY <1>6, <1>7, <1>8, <1>10, <1>11 DEF ShapeOf

---------------------------------------------------------------------------
(* What the steps do to the attempts.                                      *)

\* The attempt u, one of whose requests is now at s.
Moved(u, j, s) == [u EXCEPT !.requests = [u.requests EXCEPT ![j] = s]]

LEMMA MovedType ==
  ASSUME NEW u \in Try, NEW j \in DOMAIN u.requests, NEW s \in States
  PROVE  /\ Moved(u, j, s) \in Try
         /\ Moved(u, j, s).wave = u.wave
         /\ Moved(u, j, s).aim = u.aim
         /\ Moved(u, j, s).ends = u.ends
         /\ Moved(u, j, s).saw = u.saw
         /\ Moved(u, j, s).requests = [u.requests EXCEPT ![j] = s]
         /\ DOMAIN Moved(u, j, s).requests = DOMAIN u.requests
<1> DEFINE r == [u.requests EXCEPT ![j] = s]
<1>1. u.requests \in Seq(States)
  BY DEF Try
<1>2. r \in Seq(States) /\ DOMAIN r = DOMAIN u.requests
  BY <1>1
<1> HIDE DEF r
<1>3. Moved(u, j, s) = [u EXCEPT !.requests = r]
  BY DEF Moved, r
<1>4. /\ [u EXCEPT !.requests = r] \in Try
      /\ [u EXCEPT !.requests = r].wave = u.wave
      /\ [u EXCEPT !.requests = r].aim = u.aim
      /\ [u EXCEPT !.requests = r].ends = u.ends
      /\ [u EXCEPT !.requests = r].saw = u.saw
      /\ [u EXCEPT !.requests = r].requests = r
  BY <1>2 DEF Try
<1> QED
  BY <1>2, <1>3, <1>4 DEF r

LEMMA PutTry ==
  ASSUME NEW ts \in Seq(Try), NEW t \in DOMAIN ts, NEW u \in Try
  PROVE  /\ [ts EXCEPT ![t] = u] \in Seq(Try)
         /\ DOMAIN [ts EXCEPT ![t] = u] = DOMAIN ts
         /\ Len([ts EXCEPT ![t] = u]) = Len(ts)
         /\ [ts EXCEPT ![t] = u][t] = u
         /\ \A s \in DOMAIN ts : s # t => [ts EXCEPT ![t] = u][s] = ts[s]
  OBVIOUS

Sent(u) == [u EXCEPT !.wave = @ + 1, !.requests = SentWave(u.wave + 1)]
Put(u, e) == [u EXCEPT !.ends = e]
Saw(u, x) == [u EXCEPT !.saw = x]

\* What the actions write, one field of one attempt after the other.
LEMMA ServeForm ==
  ASSUME TypeOK, NEW t \in DOMAIN tries, NEW j, Serve(t, j)
  PROVE  tries' = [tries EXCEPT ![t] = Saw(Moved(tries[t], j, "done"), stored')]
  BY Zenon DEF Serve, Saw, Moved

LEMMA FailsForm ==
  ASSUME TypeOK, NEW t \in DOMAIN tries, NEW j, Fails(t, j)
  PROVE  tries' = [tries EXCEPT ![t] = Put(Moved(tries[t], j,
                     IF tries[t].requests[j] = "done" THEN "lost" ELSE "refused"), "badly")]
  BY Zenon DEF Fails, Put, Moved

LEMMA PassForm ==
  ASSUME TypeOK, NEW t \in DOMAIN tries, NEW j, Pass(t, j)
  PROVE  tries' = [tries EXCEPT ![t] = Moved(tries[t], j, "passed")]
  BY Zenon DEF Pass, Moved

LEMMA TurnAwayForm ==
  ASSUME TypeOK, NEW t \in DOMAIN tries, NEW j, TurnAway(t, j)
  PROVE  tries' = [tries EXCEPT ![t] = Put(Moved(tries[t], j, "refused"), "badly")]
  BY Zenon DEF TurnAway, Put, Moved

LEMMA ContinueForm ==
  ASSUME TypeOK, NEW t \in DOMAIN tries, Continue(t)
  PROVE  tries' = [tries EXCEPT ![t] = Sent(tries[t])]
  BY Zenon DEF Continue, Sent

LEMMA SettleForm ==
  ASSUME TypeOK, NEW t \in DOMAIN tries, Settle(t)
  PROVE  tries' = [tries EXCEPT ![t] = Put(tries[t], "well")]
  BY Zenon DEF Settle, Put

LEMMA TriesAt ==
  ASSUME TypeOK
  PROVE  /\ DOMAIN tries = 1..Len(tries) /\ Len(tries) \in Nat
         /\ \A t \in DOMAIN tries : tries[t] \in Try
  BY DEF TypeOK

LEMMA RequestsAre ==
  ASSUME NEW r \in Requests
  PROVE  r[1] \in DOMAIN tries /\ r[2] \in DOMAIN tries[r[1]].requests
  BY DEF Requests

\* A wave that is sent.
LEMMA SentWaveType ==
  ASSUME TypeOK, NEW i \in DOMAIN case.plan
  PROVE  /\ SentWave(i) \in Seq(States)
         /\ DOMAIN SentWave(i) = DOMAIN case.plan[i]
<1>1. case.plan[i] \in Seq(Step)
  BY DEF TypeOK, ShapeOf
<1>2. DOMAIN case.plan[i] = 1..Len(case.plan[i]) /\ Len(case.plan[i]) \in Nat
  BY <1>1
<1> QED
  BY <1>2 DEF SentWave, States

LEMMA ServeStep ==
  ASSUME TypeOK, NEW t \in DOMAIN tries, NEW j \in DOMAIN tries[t].requests, Serve(t, j)
  PROVE  /\ stored' \in Nat
         /\ tries' \in Seq(Try) /\ DOMAIN tries' = DOMAIN tries /\ Len(tries') = Len(tries)
         /\ \A s \in DOMAIN tries : s # t => tries'[s] = tries[s]
         /\ tries[t].requests[j] \in {"sent", "passed"}
         /\ tries'[t].wave = tries[t].wave /\ tries'[t].aim = tries[t].aim
         /\ tries'[t].ends = tries[t].ends
         /\ tries'[t].requests = [tries[t].requests EXCEPT ![j] = "done"]
         /\ DOMAIN tries'[t].requests = DOMAIN tries[t].requests
<1> DEFINE v == Moved(tries[t], j, "done")
           u == Saw(v, stored')
<1>1. stored' \in Nat
  BY DEF Serve, TypeOK
<1>2. "done" \in States /\ tries[t] \in Try
  BY TriesAt DEF States
<1>3. /\ v \in Try
      /\ v.wave = tries[t].wave /\ v.aim = tries[t].aim /\ v.ends = tries[t].ends
      /\ v.requests = [tries[t].requests EXCEPT ![j] = "done"]
      /\ DOMAIN v.requests = DOMAIN tries[t].requests
  BY <1>2, MovedType
<1> HIDE DEF v
<1>4. /\ u \in Try
      /\ u.wave = v.wave /\ u.aim = v.aim /\ u.ends = v.ends /\ u.requests = v.requests
  BY <1>1, <1>3 DEF Saw, Try
<1>5. tries' = [tries EXCEPT ![t] = u]
  BY ServeForm DEF v
<1> HIDE DEF u
<1>6. tries \in Seq(Try)
  BY DEF TypeOK
<1>7. /\ tries' \in Seq(Try) /\ DOMAIN tries' = DOMAIN tries /\ Len(tries') = Len(tries)
      /\ tries'[t] = u
      /\ \A s \in DOMAIN tries : s # t => tries'[s] = tries[s]
  BY <1>4, <1>5, <1>6, PutTry
<1>8. tries[t].requests[j] \in {"sent", "passed"}
  BY DEF Serve
<1> QED
  BY <1>1, <1>3, <1>4, <1>7, <1>8

LEMMA PassStep ==
  ASSUME TypeOK, NEW t \in DOMAIN tries, NEW j \in DOMAIN tries[t].requests, Pass(t, j)
  PROVE  /\ tries' \in Seq(Try) /\ DOMAIN tries' = DOMAIN tries /\ Len(tries') = Len(tries)
         /\ \A s \in DOMAIN tries : s # t => tries'[s] = tries[s]
         /\ tries[t].requests[j] = "sent"
         /\ tries'[t].wave = tries[t].wave /\ tries'[t].aim = tries[t].aim
         /\ tries'[t].ends = tries[t].ends
         /\ tries'[t].requests = [tries[t].requests EXCEPT ![j] = "passed"]
         /\ DOMAIN tries'[t].requests = DOMAIN tries[t].requests
<1> DEFINE u == Moved(tries[t], j, "passed")
<1>1. "passed" \in States /\ tries[t] \in Try
  BY TriesAt DEF States
<1>2. /\ u \in Try
      /\ u.wave = tries[t].wave /\ u.aim = tries[t].aim /\ u.ends = tries[t].ends
      /\ u.requests = [tries[t].requests EXCEPT ![j] = "passed"]
      /\ DOMAIN u.requests = DOMAIN tries[t].requests
  BY <1>1, MovedType
<1>3. tries' = [tries EXCEPT ![t] = u] /\ tries \in Seq(Try)
  BY PassForm DEF TypeOK
<1>4. tries[t].requests[j] = "sent"
  BY DEF Pass
<1> HIDE DEF u
<1>5. /\ tries' \in Seq(Try) /\ DOMAIN tries' = DOMAIN tries /\ Len(tries') = Len(tries)
      /\ tries'[t] = u
      /\ \A s \in DOMAIN tries : s # t => tries'[s] = tries[s]
  BY <1>2, <1>3, PutTry
<1> QED
  BY <1>2, <1>4, <1>5

LEMMA TurnAwayStep ==
  ASSUME TypeOK, NEW t \in DOMAIN tries, NEW j \in DOMAIN tries[t].requests, TurnAway(t, j)
  PROVE  /\ tries' \in Seq(Try) /\ DOMAIN tries' = DOMAIN tries /\ Len(tries') = Len(tries)
         /\ \A s \in DOMAIN tries : s # t => tries'[s] = tries[s]
         /\ tries[t].requests[j] = "sent" /\ tries'[t].ends = "badly"
         /\ odd' = odd \union {"refused"}
         /\ tries'[t].wave = tries[t].wave /\ tries'[t].aim = tries[t].aim
         /\ tries'[t].requests = [tries[t].requests EXCEPT ![j] = "refused"]
         /\ DOMAIN tries'[t].requests = DOMAIN tries[t].requests
<1> DEFINE v == Moved(tries[t], j, "refused")
           u == Put(v, "badly")
<1>1. "refused" \in States /\ tries[t] \in Try
  BY TriesAt DEF States
<1>2. /\ v \in Try
      /\ v.wave = tries[t].wave /\ v.aim = tries[t].aim
      /\ v.requests = [tries[t].requests EXCEPT ![j] = "refused"]
      /\ DOMAIN v.requests = DOMAIN tries[t].requests
  BY <1>1, MovedType
<1>3. tries' = [tries EXCEPT ![t] = u] /\ tries \in Seq(Try)
  BY TurnAwayForm DEF TypeOK
<1>4. tries[t].requests[j] = "sent" /\ odd' = odd \union {"refused"}
  BY DEF TurnAway
<1> HIDE DEF v
<1>5. /\ u \in Try
      /\ u.wave = v.wave /\ u.aim = v.aim /\ u.ends = "badly" /\ u.requests = v.requests
  BY <1>2 DEF Put, Try
<1> HIDE DEF u
<1>6. /\ tries' \in Seq(Try) /\ DOMAIN tries' = DOMAIN tries /\ Len(tries') = Len(tries)
      /\ tries'[t] = u
      /\ \A s \in DOMAIN tries : s # t => tries'[s] = tries[s]
  BY <1>3, <1>5, PutTry
<1> QED
  BY <1>2, <1>4, <1>5, <1>6

LEMMA FailsStep ==
  ASSUME TypeOK, NEW t \in DOMAIN tries, NEW j \in DOMAIN tries[t].requests, Fails(t, j)
  PROVE  /\ tries' \in Seq(Try) /\ DOMAIN tries' = DOMAIN tries /\ Len(tries') = Len(tries)
         /\ \A s \in DOMAIN tries : s # t => tries'[s] = tries[s]
         /\ tries[t].ends = "no" /\ tries'[t].ends = "badly"
         /\ tries'[t].wave = tries[t].wave /\ tries'[t].aim = tries[t].aim
         /\ DOMAIN tries'[t].requests = DOMAIN tries[t].requests
         /\ \/ tries[t].requests[j] \in {"sent", "passed"} /\ odd' = odd \union {"refused"}
               /\ tries'[t].requests = [tries[t].requests EXCEPT ![j] = "refused"]
            \/ tries[t].requests[j] = "done" /\ odd' = odd \union {"lost"}
               /\ tries'[t].requests = [tries[t].requests EXCEPT ![j] = "lost"]
<1> DEFINE s == IF tries[t].requests[j] = "done" THEN "lost" ELSE "refused"
           v == Moved(tries[t], j, s)
           u == Put(v, "badly")
<1>1. s \in States /\ tries[t] \in Try
  BY TriesAt DEF States
<1>2. \/ /\ tries[t].requests[j] \in {"sent", "passed"}
         /\ odd' = odd \union {"refused"} /\ s = "refused"
      \/ tries[t].requests[j] = "done" /\ odd' = odd \union {"lost"} /\ s = "lost"
  BY DEF Fails
<1>3. tries' = [tries EXCEPT ![t] = u] /\ tries[t].ends = "no"
  BY FailsForm DEF Fails, Running
<1> HIDE DEF s
<1>4. /\ v \in Try
      /\ v.wave = tries[t].wave /\ v.aim = tries[t].aim
      /\ v.requests = [tries[t].requests EXCEPT ![j] = s]
      /\ DOMAIN v.requests = DOMAIN tries[t].requests
  BY <1>1, MovedType
<1> HIDE DEF v
<1>5. /\ u \in Try
      /\ u.wave = v.wave /\ u.aim = v.aim /\ u.ends = "badly" /\ u.requests = v.requests
  BY <1>4 DEF Put, Try
<1> HIDE DEF u
<1>6. tries \in Seq(Try)
  BY DEF TypeOK
<1>7. /\ tries' \in Seq(Try) /\ DOMAIN tries' = DOMAIN tries /\ Len(tries') = Len(tries)
      /\ tries'[t] = u
      /\ \A k \in DOMAIN tries : k # t => tries'[k] = tries[k]
  BY <1>3, <1>5, <1>6, PutTry
<1> QED
  BY <1>2, <1>3, <1>4, <1>5, <1>7

LEMMA ContinueStep ==
  ASSUME TypeOK, NEW t \in DOMAIN tries, tries[t].wave \in DOMAIN case.plan, Continue(t)
  PROVE  /\ tries' \in Seq(Try) /\ DOMAIN tries' = DOMAIN tries /\ Len(tries') = Len(tries)
         /\ \A s \in DOMAIN tries : s # t => tries'[s] = tries[s]
         /\ tries[t].ends = "no" /\ tries'[t].ends = "no"
         /\ tries'[t].aim = tries[t].aim
         /\ tries'[t].wave \in DOMAIN case.plan /\ tries'[t].wave > 1
         /\ DOMAIN tries'[t].requests = DOMAIN case.plan[tries'[t].wave]
<1> DEFINE w == tries[t].wave + 1
           r == SentWave(w)
           u == [tries[t] EXCEPT !.wave = w, !.requests = r]
<1>1. tries[t] \in Try /\ tries[t].wave \in Nat /\ w \in Nat
  BY TriesAt DEF Try
<1>2. w \in DOMAIN case.plan /\ w > 1
  <2>1. DOMAIN case.plan = 1..Len(case.plan) /\ Len(case.plan) \in Nat
    BY DEF TypeOK, ShapeOf
  <2>2. tries[t].wave < Len(case.plan)
    BY DEF Continue
  <2> QED
    BY <1>1, <2>1, <2>2
<1>3. tries' = [tries EXCEPT ![t] = u] /\ tries[t].ends = "no"
  BY ContinueForm DEF Continue, Running, Sent
<1> HIDE DEF w
<1>4. r \in Seq(States) /\ DOMAIN r = DOMAIN case.plan[w]
  BY <1>2, SentWaveType
<1> HIDE DEF r
<1>5. /\ u \in Try
      /\ u.wave = w /\ u.aim = tries[t].aim /\ u.ends = tries[t].ends /\ u.requests = r
  BY <1>1, <1>2, <1>4 DEF Try
<1> HIDE DEF u
<1>6. tries \in Seq(Try)
  BY DEF TypeOK
<1>7. /\ tries' \in Seq(Try) /\ DOMAIN tries' = DOMAIN tries /\ Len(tries') = Len(tries)
      /\ tries'[t] = u
      /\ \A k \in DOMAIN tries : k # t => tries'[k] = tries[k]
  BY <1>3, <1>5, <1>6, PutTry
<1> QED
  BY <1>2, <1>3, <1>4, <1>5, <1>7

LEMMA SettleStep ==
  ASSUME TypeOK, NEW t \in DOMAIN tries, Settle(t)
  PROVE  /\ tries' \in Seq(Try) /\ DOMAIN tries' = DOMAIN tries /\ Len(tries') = Len(tries)
         /\ \A s \in DOMAIN tries : s # t => tries'[s] = tries[s]
         /\ tries[t].ends = "no" /\ tries'[t].ends = "well"
         /\ \A j \in DOMAIN tries[t].requests : tries[t].requests[j] = "done"
         /\ tries'[t].aim = tries[t].aim /\ tries'[t].wave = tries[t].wave
         /\ tries'[t].requests = tries[t].requests
<1> DEFINE u == Put(tries[t], "well")
<1>1. tries[t] \in Try
  BY TriesAt
<1>2. tries' = [tries EXCEPT ![t] = u] /\ tries[t].ends = "no" /\ AllDone(t)
  BY SettleForm DEF Settle, Running
<1>3. /\ u \in Try
      /\ u.wave = tries[t].wave /\ u.aim = tries[t].aim /\ u.ends = "well"
      /\ u.requests = tries[t].requests
  BY <1>1 DEF Put, Try
<1> HIDE DEF u
<1>4. tries \in Seq(Try)
  BY DEF TypeOK
<1>5. /\ tries' \in Seq(Try) /\ DOMAIN tries' = DOMAIN tries /\ Len(tries') = Len(tries)
      /\ tries'[t] = u
      /\ \A k \in DOMAIN tries : k # t => tries'[k] = tries[k]
  BY <1>2, <1>3, <1>4, PutTry
<1> QED
  BY <1>2, <1>3, <1>5 DEF AllDone

LEMMA PressStep ==
  ASSUME TypeOK, Press
  PROVE  /\ tries' \in Seq(Try) /\ Len(tries') = Len(tries) + 1
         /\ \A s \in DOMAIN tries : s \in DOMAIN tries' /\ tries'[s] = tries[s]
         /\ tries'[Len(tries) + 1].ends = "no"
         /\ tries'[Len(tries) + 1].wave = 1 /\ 1 \in DOMAIN case.plan
         /\ DOMAIN tries'[Len(tries) + 1].requests = DOMAIN case.plan[1]
         /\ tries'[Len(tries) + 1].aim \in AimsOfPress
         /\ AimsOfPress \subseteq Nat
<1>1. 1 \in DOMAIN case.plan
  <2>1. case.plan \in Seq(Seq(Step)) /\ \E i \in DOMAIN case.plan : TRUE
    BY DEF TypeOK, ShapeOf, Interesting
  <2> QED
    BY <2>1
<1>2. AimsOfPress \subseteq Nat
  <2>1. NewAim \in Nat
    BY TriesAt DEF NewAim
  <2>2. FailedAims \subseteq Nat
    BY TriesAt DEF FailedAims, Try
  <2>3. CASE tries = <<>>
    BY <2>1, <2>2, <2>3 DEF AimsOfPress
  <2>4. CASE tries # <<>>
    <3>1. Len(tries) \in DOMAIN tries
      BY <2>4 DEF TypeOK
    <3>2. Last(tries) \in Try
      BY <3>1, TriesAt DEF Last
    <3> QED
      BY <2>1, <2>2, <3>2 DEF AimsOfPress, Try
  <2> QED
    BY <2>3, <2>4
<1>3. PICK a \in AimsOfPress :
        tries' = Append(tries, [wave |-> 1, requests |-> SentWave(1), saw |-> NotLoaded,
                                ends |-> "no", aim |-> a])
  BY DEF Press
<1> DEFINE r == SentWave(1)
           u == [wave |-> 1, requests |-> r, saw |-> NotLoaded, ends |-> "no", aim |-> a]
<1>4. r \in Seq(States) /\ DOMAIN r = DOMAIN case.plan[1]
  BY <1>1, SentWaveType
<1>5. a \in Nat
  BY <1>2
<1> HIDE DEF r
<1>6. NotLoaded \in Int
  BY DEF NotLoaded
<1>7. u \in Try
  BY <1>4, <1>5, <1>6 DEF Try
<1>8. u.ends = "no" /\ u.wave = 1 /\ u.requests = r /\ u.aim = a
  OBVIOUS
<1> HIDE DEF u
<1>9. tries \in Seq(Try) /\ tries' = Append(tries, u)
  BY <1>3 DEF TypeOK, u, r
<1>10. /\ tries' \in Seq(Try) /\ Len(tries') = Len(tries) + 1
       /\ tries'[Len(tries) + 1] = u
       /\ \A s \in DOMAIN tries : s \in DOMAIN tries' /\ tries'[s] = tries[s]
  BY <1>7, <1>9
<1>11. u.aim \in AimsOfPress
  BY <1>3, <1>8
<1> QED
  BY <1>1, <1>2, <1>4, <1>8, <1>10, <1>11

\* What the server may do with a request.
LEMMA ServerStep ==
  ASSUME Server
  PROVE  \E t \in DOMAIN tries : \E j \in DOMAIN tries[t].requests :
           Serve(t, j) \/ Pass(t, j) \/ TurnAway(t, j)
<1> PICK r \in Requests : Serve(r[1], r[2]) \/ Pass(r[1], r[2]) \/ TurnAway(r[1], r[2])
  BY DEF Server
<1>1. r[1] \in DOMAIN tries /\ r[2] \in DOMAIN tries[r[1]].requests
  BY RequestsAre
<1> QED
  BY <1>1

---------------------------------------------------------------------------
(* Types, and how attempts end.                                            *)

\* An attempt that is as it was, when nothing odd is forgotten.
LEMMA AttemptSame ==
  ASSUME NEW s, NEW s2, AtWave(tries[s]), HasEnded(tries[s]), case' = case, odd \subseteq odd',
         tries'[s2] = tries[s]
  PROVE  (AtWave(tries[s2]) /\ HasEnded(tries[s2]))'
  BY DEF AtWave, HasEnded

\* What is odd comes from these three.
LEMMA OddType ==
  ASSUME TypeOK, [Next]_vars
  PROVE  odd \subseteq odd' /\ odd' \subseteq {"refused", "lost", "raced"} /\ case' = case
<1>1. odd \subseteq {"refused", "lost", "raced"}
  BY DEF TypeOK
<1>2. CASE UNCHANGED vars
  BY <1>1, <1>2 DEF vars
<1>3. CASE UNCHANGED <<case, odd>>
  BY <1>1, <1>3
<1>4. ASSUME NEW r \in Requests, Fails(r[1], r[2])
      PROVE  odd \subseteq odd' /\ odd' \subseteq {"refused", "lost", "raced"} /\ case' = case
  BY <1>1, <1>4 DEF Fails
<1>5. ASSUME NEW t \in DOMAIN tries, Settle(t)
      PROVE  odd \subseteq odd' /\ odd' \subseteq {"refused", "lost", "raced"} /\ case' = case
  BY <1>1, <1>5 DEF Settle, Written, Refreshed
<1>6. ASSUME NEW r \in Requests, TurnAway(r[1], r[2])
      PROVE  odd \subseteq odd' /\ odd' \subseteq {"refused", "lost", "raced"} /\ case' = case
  BY <1>1, <1>6 DEF TurnAway
<1> QED
  BY <1>2, <1>3, <1>4, <1>5, <1>6 DEF Next, Press, Leave, Return, Server, Serve, Pass, Client,
     Continue, Navigate, Read, Land, Age, Poll

\* The query's entry and its request.
LEMMA CacheType ==
  ASSUME TypeOK, [Next]_vars
  PROVE  /\ cache' \in [seen : Int, marked : BOOLEAN, aged : BOOLEAN]
         /\ get' \in [at : {"idle", "asked", "read"}, seen : Int]
<1> DEFINE C == [seen : Int, marked : BOOLEAN, aged : BOOLEAN]
           G == [at : {"idle", "asked", "read"}, seen : Int]
<1>1. cache \in C /\ get \in G /\ stored \in Int
  BY DEF TypeOK
<1>2. Asked \in G /\ Idle \in G
  BY DEF Asked, Idle, NotLoaded
<1>3. CASE UNCHANGED <<cache, get>>
  BY <1>1, <1>3
<1>4. CASE cache' = cache /\ get' \in {Asked, get}
  BY <1>1, <1>2, <1>4
<1>5. CASE Read
  BY <1>1, <1>5 DEF Read
<1>6. CASE Land
  BY <1>1, <1>2, <1>6 DEF Land
<1>7. CASE Age
  BY <1>1, <1>7 DEF Age
<1>8. ASSUME NEW t \in DOMAIN tries, Settle(t) PROVE cache' \in C /\ get' \in G
  <2>1. CASE Written(t)
    <3>1. tries[t].saw \in Int /\ case.refresh \in BOOLEAN
      BY TriesAt DEF Try, TypeOK, ShapeOf
    <3> QED
      BY <1>1, <1>2, <2>1, <3>1 DEF Written
  <2>2. CASE Refreshed
    BY <1>1, <1>2, <2>2 DEF Refreshed
  <2>3. CASE UNCHANGED <<cache, get, odd>>
    BY <1>1, <2>3
  <2> QED
    BY <1>8, <2>1, <2>2, <2>3 DEF Settle
<1> HIDE DEF C, G
<1>9. CASE UNCHANGED vars
  BY <1>3, <1>9 DEF vars
<1>10. CASE Return \/ Poll
  BY <1>4, <1>10 DEF Return, Poll
<1>11. CASE Press \/ Leave \/ Server \/ (\E r \in Requests : Fails(r[1], r[2])) \/ Navigate
            \/ \E t \in DOMAIN tries : Continue(t)
  BY <1>3, <1>11 DEF Press, Leave, Server, Serve, Pass, TurnAway, Fails, Navigate, Continue
<1> QED
  BY <1>5, <1>6, <1>7, <1>8, <1>9, <1>10, <1>11 DEF Next, Client, C, G

\* A step that leaves the attempts, the things made and the writes alone.
LEMMA AloneTyped ==
  ASSUME TInv, [Next]_vars, UNCHANGED <<tries, made, stored>>,
         here' \in BOOLEAN, visits' \in Nat
  PROVE  TInv'
<1>1. odd \subseteq odd' /\ odd' \subseteq {"refused", "lost", "raced"} /\ case' = case
  BY OddType DEF TInv
<1>2. TypeOK'
  BY <1>1, CacheType DEF TInv, TypeOK, ShapeOf, Interesting
<1>3. Attempts'
  BY <1>1, AttemptSame DEF TInv, Attempts
<1> QED
  BY <1>2, <1>3 DEF TInv

\* A step that changes the attempt t.
LEMMA OneTyped ==
  ASSUME TInv, [Next]_vars, NEW t \in DOMAIN tries,
         tries' \in Seq(Try), DOMAIN tries' = DOMAIN tries,
         \A s \in DOMAIN tries : s # t => tries'[s] = tries[s],
         (AtWave(tries[t]) /\ HasEnded(tries[t]))',
         made' \subseteq Nat \X Nat \X Nat \X Nat, stored' \in Nat,
         UNCHANGED <<here, visits>>
  PROVE  TInv'
<1>1. odd \subseteq odd' /\ odd' \subseteq {"refused", "lost", "raced"} /\ case' = case
  BY OddType DEF TInv
<1>2. TypeOK'
  BY <1>1, CacheType DEF TInv, TypeOK, ShapeOf, Interesting
<1>3. ASSUME NEW s \in DOMAIN tries PROVE (AtWave(tries[s]) /\ HasEnded(tries[s]))'
  <2>1. CASE s = t
    BY <2>1
  <2>2. CASE s # t
    <3>1. tries'[s] = tries[s]
      BY <2>2
    <3>2. AtWave(tries[s]) /\ HasEnded(tries[s])
      BY DEF TInv, Attempts
    <3> QED
      BY <1>1, <3>1, <3>2, AttemptSame
  <2> QED
    BY <2>1, <2>2
<1>4. Attempts'
  BY <1>3 DEF Attempts
<1> QED
  BY <1>2, <1>4 DEF TInv

LEMMA ServeTyped ==
  ASSUME TInv, [Next]_vars, NEW t \in DOMAIN tries, NEW j \in DOMAIN tries[t].requests,
         Serve(t, j)
  PROVE  TInv'
<1>1. TypeOK /\ AtWave(tries[t]) /\ HasEnded(tries[t])
  BY DEF TInv, Attempts
<1>2. /\ stored' \in Nat
      /\ tries' \in Seq(Try) /\ DOMAIN tries' = DOMAIN tries
      /\ \A s \in DOMAIN tries : s # t => tries'[s] = tries[s]
      /\ tries[t].requests[j] \in {"sent", "passed"}
      /\ tries'[t].wave = tries[t].wave /\ tries'[t].ends = tries[t].ends
      /\ tries'[t].requests = [tries[t].requests EXCEPT ![j] = "done"]
      /\ DOMAIN tries'[t].requests = DOMAIN tries[t].requests
  BY <1>1, ServeStep
<1>3. case' = case /\ odd' = odd /\ here' = here /\ visits' = visits
  BY DEF Serve
<1>4. AtWave(tries[t])'
  BY <1>1, <1>2, <1>3 DEF AtWave
<1>5. HasEnded(tries[t])'
  <2>1. \A k \in DOMAIN tries[t].requests :
          tries'[t].requests[k] = IF k = j THEN "done" ELSE tries[t].requests[k]
    BY <1>2
  <2> QED
    BY <1>1, <1>2, <1>3, <2>1 DEF HasEnded
<1>6. made' \subseteq Nat \X Nat \X Nat \X Nat
  <2>1. tries[t] \in Try /\ t \in Nat
    BY <1>1, TriesAt
  <2>2. DOMAIN tries[t].requests \subseteq Nat
    BY <2>1 DEF Try
  <2>3. <<tries[t].aim, tries[t].wave, j, t>> \in Nat \X Nat \X Nat \X Nat
    BY <2>1, <2>2 DEF Try
  <2> QED
    BY <1>1, <2>3 DEF Serve, Thing, TypeOK
<1> QED
  BY <1>2, <1>3, <1>4, <1>5, <1>6, OneTyped

LEMMA PassTyped ==
  ASSUME TInv, [Next]_vars, NEW t \in DOMAIN tries, NEW j \in DOMAIN tries[t].requests,
         Pass(t, j)
  PROVE  TInv'
<1>1. TypeOK /\ AtWave(tries[t]) /\ HasEnded(tries[t])
  BY DEF TInv, Attempts
<1>2. /\ tries' \in Seq(Try) /\ DOMAIN tries' = DOMAIN tries
      /\ \A s \in DOMAIN tries : s # t => tries'[s] = tries[s]
      /\ tries[t].requests[j] = "sent"
      /\ tries'[t].wave = tries[t].wave /\ tries'[t].ends = tries[t].ends
      /\ tries'[t].requests = [tries[t].requests EXCEPT ![j] = "passed"]
      /\ DOMAIN tries'[t].requests = DOMAIN tries[t].requests
  BY <1>1, PassStep
<1>3. case' = case /\ odd' = odd /\ UNCHANGED <<made, stored, here, visits>>
  BY DEF Pass
<1>4. AtWave(tries[t])'
  BY <1>1, <1>2, <1>3 DEF AtWave
<1>5. HasEnded(tries[t])'
  <2>1. \A k \in DOMAIN tries[t].requests :
          tries'[t].requests[k] = IF k = j THEN "passed" ELSE tries[t].requests[k]
    BY <1>2
  <2> QED
    BY <1>1, <1>2, <1>3, <2>1 DEF HasEnded
<1> QED
  BY <1>1, <1>2, <1>3, <1>4, <1>5, OneTyped DEF TypeOK

LEMMA TurnAwayTyped ==
  ASSUME TInv, [Next]_vars, NEW t \in DOMAIN tries, NEW j \in DOMAIN tries[t].requests,
         TurnAway(t, j)
  PROVE  TInv'
<1>1. TypeOK /\ AtWave(tries[t])
  BY DEF TInv, Attempts
<1>2. /\ tries' \in Seq(Try) /\ DOMAIN tries' = DOMAIN tries
      /\ \A s \in DOMAIN tries : s # t => tries'[s] = tries[s]
      /\ tries'[t].ends = "badly" /\ tries'[t].wave = tries[t].wave
      /\ odd' = odd \union {"refused"}
      /\ tries'[t].requests = [tries[t].requests EXCEPT ![j] = "refused"]
      /\ DOMAIN tries'[t].requests = DOMAIN tries[t].requests
  BY <1>1, TurnAwayStep
<1>3. case' = case /\ UNCHANGED <<made, stored, here, visits>>
  BY DEF TurnAway
<1>4. AtWave(tries[t])'
  BY <1>1, <1>2, <1>3 DEF AtWave
<1>5. HasEnded(tries[t])'
  <2>1. tries'[t].requests[j] = "refused" /\ "refused" \in odd'
    BY <1>2
  <2> QED
    BY <1>2, <2>1 DEF HasEnded
<1> QED
  BY <1>1, <1>2, <1>3, <1>4, <1>5, OneTyped DEF TypeOK

LEMMA FailsTyped ==
  ASSUME TInv, [Next]_vars, NEW t \in DOMAIN tries, NEW j \in DOMAIN tries[t].requests,
         Fails(t, j)
  PROVE  TInv'
<1>1. TypeOK /\ AtWave(tries[t])
  BY DEF TInv, Attempts
<1>2. /\ tries' \in Seq(Try) /\ DOMAIN tries' = DOMAIN tries
      /\ \A s \in DOMAIN tries : s # t => tries'[s] = tries[s]
      /\ tries'[t].ends = "badly" /\ tries'[t].wave = tries[t].wave
      /\ DOMAIN tries'[t].requests = DOMAIN tries[t].requests
      /\ \/ odd' = odd \union {"refused"}
            /\ tries'[t].requests = [tries[t].requests EXCEPT ![j] = "refused"]
         \/ odd' = odd \union {"lost"}
            /\ tries'[t].requests = [tries[t].requests EXCEPT ![j] = "lost"]
  BY <1>1, FailsStep
<1>3. case' = case /\ UNCHANGED <<made, stored, here, visits>>
  BY DEF Fails
<1>4. AtWave(tries[t])'
  BY <1>1, <1>2, <1>3 DEF AtWave
<1>5. HasEnded(tries[t])'
  <2>1. tries'[t].requests[j] \in {"refused", "lost"} /\ tries'[t].requests[j] \in odd'
    BY <1>2
  <2> QED
    BY <1>2, <2>1 DEF HasEnded
<1> QED
  BY <1>1, <1>2, <1>3, <1>4, <1>5, OneTyped DEF TypeOK

LEMMA ContinueTyped ==
  ASSUME TInv, [Next]_vars, NEW t \in DOMAIN tries, Continue(t)
  PROVE  TInv'
<1>1. TypeOK /\ tries[t].wave \in DOMAIN case.plan
  BY DEF TInv, Attempts, AtWave
<1>2. /\ tries' \in Seq(Try) /\ DOMAIN tries' = DOMAIN tries
      /\ \A s \in DOMAIN tries : s # t => tries'[s] = tries[s]
      /\ tries'[t].ends = "no"
      /\ tries'[t].wave \in DOMAIN case.plan
      /\ DOMAIN tries'[t].requests = DOMAIN case.plan[tries'[t].wave]
  BY <1>1, ContinueStep
<1>3. case' = case /\ UNCHANGED <<made, stored, here, visits>>
  BY DEF Continue
<1>4. (AtWave(tries[t]) /\ HasEnded(tries[t]))'
  BY <1>2, <1>3 DEF AtWave, HasEnded
<1> QED
  BY <1>1, <1>2, <1>3, <1>4, OneTyped DEF TypeOK

LEMMA SettleTyped ==
  ASSUME TInv, [Next]_vars, NEW t \in DOMAIN tries, Settle(t)
  PROVE  TInv'
<1>1. TypeOK /\ AtWave(tries[t])
  BY DEF TInv, Attempts
<1>2. /\ tries' \in Seq(Try) /\ DOMAIN tries' = DOMAIN tries
      /\ \A s \in DOMAIN tries : s # t => tries'[s] = tries[s]
      /\ tries'[t].ends = "well" /\ tries'[t].wave = tries[t].wave
      /\ \A j \in DOMAIN tries[t].requests : tries[t].requests[j] = "done"
      /\ tries'[t].requests = tries[t].requests
  BY <1>1, SettleStep
<1>3. case' = case /\ UNCHANGED <<made, stored, here, visits>>
  BY DEF Settle
<1>4. (AtWave(tries[t]) /\ HasEnded(tries[t]))'
  BY <1>1, <1>2, <1>3 DEF AtWave, HasEnded
<1> QED
  BY <1>1, <1>2, <1>3, <1>4, OneTyped DEF TypeOK

LEMMA PressTyped ==
  ASSUME TInv, [Next]_vars, Press
  PROVE  TInv'
<1> DEFINE n == Len(tries) + 1
<1>1. TypeOK /\ DOMAIN tries = 1..Len(tries) /\ Len(tries) \in Nat
  BY TriesAt DEF TInv
<1>2. /\ tries' \in Seq(Try) /\ Len(tries') = n
      /\ \A s \in DOMAIN tries : s \in DOMAIN tries' /\ tries'[s] = tries[s]
      /\ tries'[n].ends = "no" /\ tries'[n].wave = 1 /\ 1 \in DOMAIN case.plan
      /\ DOMAIN tries'[n].requests = DOMAIN case.plan[1]
  BY <1>1, PressStep
<1>3. case' = case /\ UNCHANGED <<made, stored, here, visits, odd>>
  BY DEF Press
<1>4. DOMAIN tries' = 1..n
  BY <1>2
<1>5. TypeOK'
  BY <1>1, <1>2, <1>3, CacheType DEF TypeOK, ShapeOf, Interesting
<1>6. ASSUME NEW s \in DOMAIN tries' PROVE (AtWave(tries[s]) /\ HasEnded(tries[s]))'
  <2>1. CASE s = n
    BY <1>2, <1>3, <2>1 DEF AtWave, HasEnded
  <2>2. CASE s # n
    <3>1. s \in DOMAIN tries
      BY <1>1, <1>4, <2>2
    <3>2. tries'[s] = tries[s] /\ AtWave(tries[s]) /\ HasEnded(tries[s])
      BY <1>2, <3>1 DEF TInv, Attempts
    <3> QED
      BY <1>3, <3>2, AttemptSame
  <2> QED
    BY <2>1, <2>2
<1> QED
  BY <1>5, <1>6 DEF TInv, Attempts

LEMMA StepTyped == TInv /\ [Next]_vars => TInv'
<1> SUFFICES ASSUME TInv, [Next]_vars PROVE TInv'
  OBVIOUS
<1>0. here \in BOOLEAN /\ visits \in Nat
  BY DEF TInv, TypeOK
<1>1. CASE Press
  BY <1>1, PressTyped
<1>2. CASE Leave \/ Return \/ Navigate \/ Read \/ Land \/ Age \/ Poll
  <2>1. UNCHANGED <<tries, made, stored>> /\ here' \in BOOLEAN
    BY <1>0, <1>2 DEF Leave, Return, Navigate, Read, Land, Age, Poll
  <2>2. visits' \in Nat
    BY <1>0, <1>2 DEF Leave, Return, Navigate, Read, Land, Age, Poll
  <2> QED
    BY <2>1, <2>2, AloneTyped
<1>3. CASE Server
  <2> PICK t \in DOMAIN tries : \E j \in DOMAIN tries[t].requests :
             Serve(t, j) \/ Pass(t, j) \/ TurnAway(t, j)
    BY <1>3, ServerStep
  <2> QED
    BY ServeTyped, PassTyped, TurnAwayTyped
<1>4. CASE \E r \in Requests : Fails(r[1], r[2])
  <2> PICK r \in Requests : Fails(r[1], r[2])
    BY <1>4
  <2>1. r[1] \in DOMAIN tries /\ r[2] \in DOMAIN tries[r[1]].requests
    BY RequestsAre
  <2> QED
    BY <2>1, FailsTyped
<1>5. CASE Client
  BY <1>5, ContinueTyped, SettleTyped DEF Client
<1>6. CASE UNCHANGED vars
  BY <1>0, <1>6, AloneTyped DEF vars
<1> QED
  BY <1>1, <1>2, <1>3, <1>4, <1>5, <1>6 DEF Next

LEMMA InitTyped == Init => TInv
<1> SUFFICES ASSUME Init PROVE TInv
  OBVIOUS
<1>1. ShapeOf(case)
  BY CaseShape DEF Init
<1>2. tries = <<>> /\ <<>> \in Seq(Try)
  BY DEF Init
<1>3. Attempts
  BY <1>2 DEF Attempts
<1> QED
  BY <1>1, <1>2, <1>3 DEF Init, TInv, TypeOK, NotLoaded, Asked

---------------------------------------------------------------------------
(***************************************************************************)
(* What the page shows.                                                    *)
(***************************************************************************)

\* The operation writes something that the query shows.
Shows(c) == \E i \in DOMAIN c.plan : \E j \in DOMAIN c.plan[i] : c.plan[i][j].hits

\* The screens name every write they do not ask again for.
UnrefreshedListed ==
  \A c \in Cases : Shows(c) => c.refresh \/ c.set \/ c.leaves \/ c.known

Writing == Shows(case) /\ Busy

\* An entry that is not the server's is still being written, or asked for, or
\* marked for when the page is opened again; an answer on its way is the
\* server's, or what makes it old is still running.
UpToDate ==
  /\ \/ cache.seen = stored
     \/ Writing
     \/ get.at \in {"asked", "read"}
     \/ ~ here /\ cache.marked
  /\ get.at = "read" => get.seen = stored \/ Writing

\* Nothing went wrong, the page stays open, and the list does not speak of it.
Ordinary == odd = {} /\ ~ Gone /\ ~ case.known

RInv == /\ case \in Cases
        /\ Ordinary => UpToDate

\* While nothing is odd, an attempt with a request that is not done is running.
LEMMA SentRuns ==
  ASSUME TInv, odd = {}, NEW t \in DOMAIN tries, NEW j \in DOMAIN tries[t].requests,
         tries[t].requests[j] \in {"sent", "passed"}
  PROVE  tries[t].ends = "no"
<1>1. tries[t] \in Try /\ HasEnded(tries[t])
  BY TriesAt DEF TInv, Attempts
<1>2. tries[t].ends \in {"no", "well", "badly"}
  BY <1>1 DEF Try
<1> QED
  BY <1>1, <1>2 DEF HasEnded

\* An attempt that has succeeded stays so.
LEMMA OrdinaryBefore ==
  ASSUME TInv, [Next]_vars, Ordinary'
  PROVE  Ordinary /\ case' = case
<1>1. odd \subseteq odd' /\ case' = case
  BY OddType DEF TInv
<1>2. TypeOK
  BY DEF TInv
<1>3. ASSUME NEW t \in DOMAIN tries, tries[t].ends = "well"
      PROVE  t \in DOMAIN tries' /\ tries'[t].ends = "well"
  <2>1. CASE Press
    BY <1>2, <1>3, <2>1, PressStep
  <2>2. CASE Server
    <3> PICK k \in DOMAIN tries : \E j \in DOMAIN tries[k].requests :
               Serve(k, j) \/ Pass(k, j) \/ TurnAway(k, j)
      BY <2>2, ServerStep
    <3> PICK j \in DOMAIN tries[k].requests : Serve(k, j) \/ Pass(k, j) \/ TurnAway(k, j)
      OBVIOUS
    <3>1. /\ DOMAIN tries' = DOMAIN tries
          /\ tries'[k].ends = tries[k].ends \/ tries[k].requests[j] = "sent"
          /\ \A s \in DOMAIN tries : s # k => tries'[s] = tries[s]
      BY <1>2, ServeStep, PassStep, TurnAwayStep
    <3>2. HasEnded(tries[k])
      BY DEF TInv, Attempts
    <3>3. tries[k].ends = "well" => tries[k].requests[j] = "done"
      BY <3>2 DEF HasEnded
    <3> QED
      BY <1>3, <3>1, <3>3
  <2>3. CASE \E r \in Requests : Fails(r[1], r[2])
    <3> PICK r \in Requests : Fails(r[1], r[2])
      BY <2>3
    <3>1. r[1] \in DOMAIN tries /\ r[2] \in DOMAIN tries[r[1]].requests
      BY RequestsAre
    <3>2. DOMAIN tries' = DOMAIN tries /\ tries[r[1]].ends = "no"
          /\ \A s \in DOMAIN tries : s # r[1] => tries'[s] = tries[s]
      BY <1>2, <3>1, FailsStep
    <3> QED
      BY <1>3, <3>2
  <2>4. ASSUME NEW s \in DOMAIN tries, Continue(s)
        PROVE  t \in DOMAIN tries' /\ tries'[t].ends = "well"
    <3>1. tries[s].wave \in DOMAIN case.plan
      BY DEF TInv, Attempts, AtWave
    <3>2. DOMAIN tries' = DOMAIN tries /\ tries[s].ends = "no"
          /\ \A k \in DOMAIN tries : k # s => tries'[k] = tries[k]
      BY <1>2, <2>4, <3>1, ContinueStep
    <3> QED
      BY <1>3, <3>2
  <2>5. ASSUME NEW s \in DOMAIN tries, Settle(s)
        PROVE  t \in DOMAIN tries' /\ tries'[t].ends = "well"
    <3>1. DOMAIN tries' = DOMAIN tries /\ tries[s].ends = "no"
          /\ \A k \in DOMAIN tries : k # s => tries'[k] = tries[k]
      BY <1>2, <2>5, SettleStep
    <3> QED
      BY <1>3, <3>1
  <2>6. CASE UNCHANGED tries
    BY <1>3, <2>6
  <2> QED
    BY <2>1, <2>2, <2>3, <2>4, <2>5, <2>6
    DEF Next, Client, Leave, Return, Navigate, Read, Land, Age, Poll, vars
<1> QED
  BY <1>1, <1>3 DEF Ordinary, Gone

\* Steps that start no attempt and end none leave a write under way.
LEMMA WritingOn ==
  ASSUME case' = case, DOMAIN tries \subseteq DOMAIN tries',
         \A t \in DOMAIN tries : tries[t].ends = "no" => tries'[t].ends = "no"
  PROVE  Writing => Writing'
  BY DEF Writing, Shows, Busy, Running

LEMMA PressUpToDate ==
  ASSUME TInv, Press, UpToDate
  PROVE  UpToDate'
<1>1. \A s \in DOMAIN tries : s \in DOMAIN tries' /\ tries'[s] = tries[s]
  BY PressStep DEF TInv
<1>2. UNCHANGED <<case, stored, cache, get, here>>
  BY DEF Press
<1>3. Writing => Writing'
  BY <1>1, <1>2, WritingOn
<1> QED
  BY <1>2, <1>3 DEF UpToDate

LEMMA ServeUpToDate ==
  ASSUME TInv, odd = {}, NEW t \in DOMAIN tries, NEW j \in DOMAIN tries[t].requests,
         Serve(t, j), UpToDate
  PROVE  UpToDate'
<1>1. /\ DOMAIN tries' = DOMAIN tries
      /\ \A s \in DOMAIN tries : s # t => tries'[s] = tries[s]
      /\ tries[t].requests[j] \in {"sent", "passed"} /\ tries'[t].ends = tries[t].ends
  BY ServeStep DEF TInv
<1>2. UNCHANGED <<case, cache, get, here>>
  BY DEF Serve
<1>3. tries[t].ends = "no"
  BY <1>1, SentRuns
<1>4. Writing => Writing'
  BY <1>1, <1>2, WritingOn
<1>5. CASE case.plan[tries[t].wave][j].hits
  <2>1. AtWave(tries[t])
    BY DEF TInv, Attempts
  <2>2. Shows(case)
    BY <1>5, <2>1 DEF AtWave, Shows
  <2>3. Writing
    BY <1>3, <2>2 DEF Writing, Busy, Running
  <2>4. Writing' /\ (get.at = "read" => get.at \in {"asked", "read"})
    BY <1>4, <2>3
  <2> QED
    BY <1>2, <2>4 DEF UpToDate
<1>6. CASE ~ case.plan[tries[t].wave][j].hits
  <2>1. stored' = stored
    BY <1>6 DEF Serve, Sends
  <2> QED
    BY <1>2, <1>4, <2>1 DEF UpToDate
<1> QED
  BY <1>5, <1>6

LEMMA PassUpToDate ==
  ASSUME TInv, NEW t \in DOMAIN tries, NEW j \in DOMAIN tries[t].requests, Pass(t, j), UpToDate
  PROVE  UpToDate'
<1>1. /\ DOMAIN tries' = DOMAIN tries
      /\ \A s \in DOMAIN tries : s # t => tries'[s] = tries[s]
      /\ tries'[t].ends = tries[t].ends
  BY PassStep DEF TInv
<1>2. UNCHANGED <<case, stored, cache, get, here>>
  BY DEF Pass
<1>3. Writing => Writing'
  BY <1>1, <1>2, WritingOn
<1> QED
  BY <1>2, <1>3 DEF UpToDate

LEMMA ContinueUpToDate ==
  ASSUME TInv, NEW t \in DOMAIN tries, Continue(t), UpToDate
  PROVE  UpToDate'
<1>1. tries[t].wave \in DOMAIN case.plan
  BY DEF TInv, Attempts, AtWave
<1>2. /\ DOMAIN tries' = DOMAIN tries
      /\ \A s \in DOMAIN tries : s # t => tries'[s] = tries[s]
      /\ tries'[t].ends = "no"
  BY <1>1, ContinueStep DEF TInv
<1>3. UNCHANGED <<case, stored, cache, get, here>>
  BY DEF Continue
<1>4. Writing => Writing'
  BY <1>2, <1>3, WritingOn
<1> QED
  BY <1>3, <1>4 DEF UpToDate

\* The heart of it: when an operation has succeeded, the page asks again, or
\* shows the answer, or is marked; what would be lost then is odd.
LEMMA SettleUpToDate ==
  ASSUME TInv, UnrefreshedListed, case \in Cases, Ordinary, Ordinary',
         NEW t \in DOMAIN tries, Settle(t), UpToDate
  PROVE  UpToDate'
<1>1. odd = {} /\ odd' = {} /\ ~ case.known
  BY DEF Ordinary
<1>2. case' = case /\ stored' = stored /\ here' = here
  BY DEF Settle
<1>3. ~ case.leaves
  <2>1. tries'[t].ends = "well" /\ t \in DOMAIN tries'
    BY SettleStep DEF TInv
  <2> QED
    BY <1>2, <2>1 DEF Ordinary, Gone
<1>4. get.at \in {"idle", "asked", "read"}
  BY DEF TInv, TypeOK
<1>5. CASE case.set /\ Written(t)
  <2>1. CASE case.refresh /\ here
    <3>1. get' = Asked
      BY <1>5, <2>1 DEF Written
    <3>2. get'.at = "asked"
      BY <3>1 DEF Asked
    <3> QED
      BY <3>2 DEF UpToDate
  <2>2. CASE ~ (case.refresh /\ here)
    <3>1. get.at = "idle" /\ tries[t].saw = stored
      BY <1>1, <1>5, <2>2 DEF Written
    <3>2. cache'.seen = stored /\ get' = get
      BY <1>5, <2>2, <3>1 DEF Written
    <3> QED
      BY <1>2, <3>1, <3>2 DEF UpToDate
  <2> QED
    BY <2>1, <2>2
<1>6. CASE case.refresh /\ Refreshed
  <2>1. ~ (get.at # "idle" /\ (~ here \/ cache.seen = NotLoaded))
    BY <1>1, <1>6 DEF Refreshed
  <2>2. CASE here
    <3>1. get' = Asked
      BY <1>6, <2>1, <2>2 DEF Refreshed
    <3>2. get'.at = "asked"
      BY <3>1 DEF Asked
    <3> QED
      BY <3>2 DEF UpToDate
  <2>3. CASE ~ here
    <3>1. get' = get /\ get.at = "idle" /\ cache' = [cache EXCEPT !.marked = TRUE]
      BY <1>6, <2>1, <2>3 DEF Refreshed
    <3>2. cache'.marked
      BY <3>1 DEF TInv, TypeOK
    <3> QED
      BY <1>2, <2>3, <3>1, <3>2 DEF UpToDate
  <2> QED
    BY <2>2, <2>3
<1>7. CASE ~ case.set /\ ~ case.refresh /\ UNCHANGED <<cache, get, odd>>
  <2>1. ~ Shows(case)
    BY <1>1, <1>3, <1>7 DEF UnrefreshedListed
  <2>2. ~ Writing
    BY <2>1 DEF Writing
  <2> QED
    BY <1>2, <1>7, <2>2 DEF UpToDate
<1> QED
  BY <1>5, <1>6, <1>7 DEF Settle

LEMMA QueryUpToDate ==
  ASSUME TInv, UpToDate, Leave \/ Return \/ Navigate \/ Read \/ Land \/ Age \/ Poll
  PROVE  UpToDate'
<1>1. UNCHANGED <<case, tries, stored>>
  BY DEF Leave, Return, Navigate, Read, Land, Age, Poll
<1>2. Writing' = Writing
  BY <1>1 DEF Writing, Shows, Busy, Running
<1>3. /\ cache \in [seen : Int, marked : BOOLEAN, aged : BOOLEAN]
      /\ get.at \in {"idle", "asked", "read"}
  BY DEF TInv, TypeOK
<1>4. CASE Leave \/ Navigate
  BY <1>1, <1>2, <1>4 DEF UpToDate, Leave, Navigate
<1>5. CASE Return
  <2>1. UNCHANGED cache /\ ~ here
    BY <1>5 DEF Return
  <2>2. CASE get' = get /\ ~ (Wanted /\ get.at = "idle")
    <3>1. get.at = "idle" => ~ cache.marked
      BY <2>2 DEF Wanted
    <3> QED
      BY <1>1, <1>2, <1>3, <2>1, <2>2, <3>1 DEF UpToDate
  <2>3. CASE get' = Asked
    <3>1. get'.at = "asked"
      BY <2>3 DEF Asked
    <3> QED
      BY <3>1 DEF UpToDate
  <2> QED
    BY <1>5, <2>2, <2>3 DEF Return
<1>6. CASE Read
  <2>1. get'.at = "read" /\ get'.seen = stored
    BY <1>6 DEF Read
  <2> QED
    BY <1>1, <2>1 DEF UpToDate
<1>7. CASE Land
  <2>1. get.at = "read" /\ cache'.seen = get.seen /\ get'.at = "idle"
    BY <1>7 DEF Land, Idle
  <2> QED
    BY <1>1, <1>2, <2>1 DEF UpToDate
<1>8. CASE Age
  <2>1. cache'.seen = cache.seen /\ cache'.marked = cache.marked /\ UNCHANGED <<get, here>>
    BY <1>3, <1>8 DEF Age
  <2> QED
    BY <1>1, <1>2, <2>1 DEF UpToDate
<1>9. CASE Poll
  <2>1. get'.at = "asked"
    BY <1>9 DEF Poll, Asked
  <2> QED
    BY <2>1 DEF UpToDate
<1> QED
  BY <1>4, <1>5, <1>6, <1>7, <1>8, <1>9

LEMMA StepUpToDate ==
  ASSUME UnrefreshedListed
  PROVE  TInv /\ RInv /\ [Next]_vars => RInv'
<1> SUFFICES ASSUME TInv, RInv, [Next]_vars PROVE RInv'
  OBVIOUS
<1>1. case' = case
  BY OddType DEF TInv
<1> SUFFICES ASSUME Ordinary' PROVE UpToDate'
  BY <1>1 DEF RInv
<1>2. Ordinary /\ UpToDate /\ case \in Cases /\ odd = {} /\ odd' = {}
  BY OrdinaryBefore DEF RInv, Ordinary
<1>3. CASE Press
  BY <1>2, <1>3, PressUpToDate
<1>4. CASE Leave \/ Return \/ Navigate \/ Read \/ Land \/ Age \/ Poll
  BY <1>2, <1>4, QueryUpToDate
<1>5. CASE Server
  <2> PICK t \in DOMAIN tries : \E j \in DOMAIN tries[t].requests :
             Serve(t, j) \/ Pass(t, j) \/ TurnAway(t, j)
    BY <1>5, ServerStep
  <2> PICK j \in DOMAIN tries[t].requests : Serve(t, j) \/ Pass(t, j) \/ TurnAway(t, j)
    OBVIOUS
  <2>1. ~ TurnAway(t, j)
    BY <1>2 DEF TurnAway
  <2> QED
    BY <1>2, <2>1, ServeUpToDate, PassUpToDate
<1>6. CASE \E r \in Requests : Fails(r[1], r[2])
  BY <1>2, <1>6 DEF Fails
<1>7. ASSUME NEW t \in DOMAIN tries, Continue(t) PROVE UpToDate'
  BY <1>2, <1>7, ContinueUpToDate
<1>8. ASSUME NEW t \in DOMAIN tries, Settle(t) PROVE UpToDate'
  BY <1>2, <1>8, SettleUpToDate
<1>9. CASE UNCHANGED vars
  <2>1. UNCHANGED <<case, tries, stored, cache, get, here>>
    BY <1>9 DEF vars
  <2>2. Writing' = Writing
    BY <2>1 DEF Writing, Shows, Busy, Running
  <2> QED
    BY <1>2, <2>1, <2>2 DEF UpToDate
<1> QED
  BY <1>3, <1>4, <1>5, <1>6, <1>7, <1>8, <1>9 DEF Next, Client

\* A page that is open and has nothing on its way shows all that its user has
\* written with it, for every set of screens that names the writes it does not
\* ask again for, unless one of those, a failure or a race is why
\* (OwnWritesShown).
THEOREM WritesAreShown ==
  ASSUME UnrefreshedListed
  PROVE  Spec => []OwnWritesShown
<1>1. Init => RInv
  BY DEF Init, RInv, UpToDate, Asked
<1>2. RInv => OwnWritesShown
  <2> SUFFICES ASSUME RInv, Quiet, here, ~ Gone, odd = {}, ~ case.known
               PROVE  cache.seen = stored
    BY DEF OwnWritesShown
  <2>1. UpToDate /\ ~ Writing /\ get.at = "idle"
    BY DEF RInv, Ordinary, Quiet, Writing
  <2> QED
    BY <2>1 DEF UpToDate
<1>3. TInv /\ RInv /\ [Next]_vars => RInv'
  BY StepUpToDate
<1> QED
  BY <1>1, <1>2, <1>3, InitTyped, StepTyped, PTL DEF Spec

---------------------------------------------------------------------------
(***************************************************************************)
(* What the operation makes.                                               *)
(***************************************************************************)

\* More than one request.
Several(c) == Len(c.plan) > 1 \/ Len(c.plan[1]) > 1

\* What a press means has not been done, as far as the page knows: there is a
\* question before every press, or the button is off until the page knows.
Careful(c) == c.press = "asked" \/ (c.press = "guarded" /\ ~ c.leaves)

\* The request makes a thing, and another one when the thing is there: no
\* constraint of the table stands in the way.
Doubles(r) == r.makes /\ r.twin \in {"made", "checked"}

\* Of the operations whose requests can make a thing twice, the screens name every
\* one that is careless, and every one that sends several requests.
RepeatableListed ==
  \A c \in Cases : (\E i \in DOMAIN c.plan : \E j \in DOMAIN c.plan[i] : Doubles(c.plan[i][j])) =>
    /\ c.repeats \/ Careful(c)
    /\ c.pieces \/ ~ Several(c)

\* An aim is at most as new as the attempt, and it is tried again only after all
\* attempts at it have failed.
Aims ==
  /\ \A t \in DOMAIN tries : tries[t].aim <= t
  /\ Careful(case) =>
       \A s, t \in DOMAIN tries : s < t /\ tries[s].aim = tries[t].aim => tries[s].ends = "badly"

\* A thing was made by a request of an attempt, for what the attempt was meant; the
\* only request of an operation was then done.
Maker(x) ==
  /\ x[4] \in DOMAIN tries
  /\ x[1] = tries[x[4]].aim
  /\ x[2] \in DOMAIN case.plan /\ x[3] \in DOMAIN case.plan[x[2]]
  /\ case.plan[x[2]][x[3]].makes
  /\ ~ Several(case) => tries[x[4]].requests[1] \in {"done", "lost"}

\* What cannot be doubled is there once.
Once(x) ==
  ~ Doubles(case.plan[x[2]][x[3]]) => \A y \in made : SameThing(x, y) => x = y

MInv == case \in Cases /\ Aims /\ \A x \in made : Maker(x) /\ Once(x)

\* An operation of one request: one wave, and one request in it.
LEMMA OneRequest ==
  ASSUME TInv, ~ Several(case)
  PROVE  /\ DOMAIN case.plan \subseteq {1} /\ Len(case.plan) = 1
         /\ \A t \in DOMAIN tries : DOMAIN tries[t].requests \subseteq {1}
<1>1. case.plan \in Seq(Seq(Step)) /\ \E i \in DOMAIN case.plan : TRUE
  BY DEF TInv, TypeOK, ShapeOf, Interesting
<1>2. DOMAIN case.plan = 1..Len(case.plan) /\ Len(case.plan) \in Nat
  BY <1>1
<1>3. Len(case.plan) = 1 /\ DOMAIN case.plan = {1}
  <2> PICK i \in DOMAIN case.plan : TRUE
    BY <1>1
  <2>1. \A n \in Nat : \A k \in 1..n : ~ (n > 1) => n = 1
    OBVIOUS
  <2> DEFINE n == Len(case.plan)
  <2>2. n \in Nat /\ i \in 1..n /\ ~ (n > 1)
    BY <1>2 DEF Several
  <2> HIDE DEF n
  <2>3. n = 1
    BY <2>1, <2>2
  <2>4. 1..1 = {1}
    OBVIOUS
  <2> QED
    BY <1>2, <2>3, <2>4 DEF n
<1>4. case.plan[1] \in Seq(Step)
  BY <1>1, <1>3
<1>5. DOMAIN case.plan[1] = 1..Len(case.plan[1]) /\ Len(case.plan[1]) \in Nat
  BY <1>4
<1>6. DOMAIN case.plan[1] \subseteq {1}
  BY <1>5 DEF Several
<1>7. ASSUME NEW t \in DOMAIN tries PROVE DOMAIN tries[t].requests \subseteq {1}
  <2>1. AtWave(tries[t])
    BY DEF TInv, Attempts
  <2>2. tries[t].wave = 1
    BY <1>3, <2>1 DEF AtWave
  <2> QED
    BY <1>6, <2>1, <2>2 DEF AtWave
<1> QED
  BY <1>3, <1>7

\* Every step but a press keeps the attempts, what they mean and how they ended.
AttemptsKept ==
  /\ DOMAIN tries' = DOMAIN tries /\ Len(tries') = Len(tries)
  /\ \A s \in DOMAIN tries : /\ tries'[s].aim = tries[s].aim
                             /\ tries[s].ends # "no" => tries'[s].ends = tries[s].ends

\* And what was done stays done.
DoneKept ==
  ~ Several(case) =>
    \A s \in DOMAIN tries : tries[s].requests[1] \in {"done", "lost"} =>
                              tries'[s].requests[1] \in {"done", "lost"}

LEMMA ServeKeeps ==
  ASSUME TInv, NEW t \in DOMAIN tries, NEW j \in DOMAIN tries[t].requests, Serve(t, j)
  PROVE  AttemptsKept /\ DoneKept
<1>1. /\ DOMAIN tries' = DOMAIN tries /\ Len(tries') = Len(tries)
      /\ \A s \in DOMAIN tries : s # t => tries'[s] = tries[s]
      /\ tries'[t].aim = tries[t].aim /\ tries'[t].ends = tries[t].ends
      /\ tries'[t].requests = [tries[t].requests EXCEPT ![j] = "done"]
  BY ServeStep DEF TInv
<1>2. AttemptsKept
  BY <1>1 DEF AttemptsKept
<1>3. \A k \in DOMAIN tries[t].requests :
        tries'[t].requests[k] = IF k = j THEN "done" ELSE tries[t].requests[k]
  BY <1>1
<1>4. ASSUME ~ Several(case) PROVE tries'[t].requests[1] = "done"
  BY <1>3, <1>4, OneRequest
<1>5. DoneKept
  BY <1>1, <1>4 DEF DoneKept
<1> QED
  BY <1>2, <1>5

LEMMA PassKeeps ==
  ASSUME TInv, NEW t \in DOMAIN tries, NEW j \in DOMAIN tries[t].requests, Pass(t, j)
  PROVE  AttemptsKept /\ DoneKept
<1>1. /\ DOMAIN tries' = DOMAIN tries /\ Len(tries') = Len(tries)
      /\ \A s \in DOMAIN tries : s # t => tries'[s] = tries[s]
      /\ tries'[t].aim = tries[t].aim /\ tries'[t].ends = tries[t].ends
      /\ tries[t].requests[j] = "sent"
      /\ tries'[t].requests = [tries[t].requests EXCEPT ![j] = "passed"]
  BY PassStep DEF TInv
<1>2. AttemptsKept
  BY <1>1 DEF AttemptsKept
<1>3. ASSUME ~ Several(case) PROVE j = 1
  BY <1>3, OneRequest
<1>4. DoneKept
  BY <1>1, <1>3 DEF DoneKept
<1> QED
  BY <1>2, <1>4

LEMMA TurnAwayKeeps ==
  ASSUME TInv, NEW t \in DOMAIN tries, NEW j \in DOMAIN tries[t].requests, TurnAway(t, j)
  PROVE  AttemptsKept /\ DoneKept
<1>1. /\ DOMAIN tries' = DOMAIN tries /\ Len(tries') = Len(tries)
      /\ \A s \in DOMAIN tries : s # t => tries'[s] = tries[s]
      /\ tries'[t].aim = tries[t].aim /\ tries'[t].ends = "badly"
      /\ tries[t].requests[j] = "sent"
      /\ tries'[t].requests = [tries[t].requests EXCEPT ![j] = "refused"]
  BY TurnAwayStep DEF TInv
<1>2. HasEnded(tries[t]) /\ tries[t] \in Try
  BY TriesAt DEF TInv, Attempts
<1>3. tries[t].ends \in {"no", "badly"}
  BY <1>1, <1>2 DEF HasEnded, Try
<1>4. AttemptsKept
  BY <1>1, <1>3 DEF AttemptsKept
<1>5. ASSUME ~ Several(case) PROVE j = 1
  BY <1>5, OneRequest
<1>6. DoneKept
  BY <1>1, <1>5 DEF DoneKept
<1> QED
  BY <1>4, <1>6

LEMMA FailsKeeps ==
  ASSUME TInv, NEW t \in DOMAIN tries, NEW j \in DOMAIN tries[t].requests, Fails(t, j)
  PROVE  AttemptsKept /\ DoneKept
<1>0. TypeOK
  BY DEF TInv
<1>1. /\ DOMAIN tries' = DOMAIN tries /\ Len(tries') = Len(tries)
      /\ \A s \in DOMAIN tries : s # t => tries'[s] = tries[s]
      /\ tries[t].ends = "no" /\ tries'[t].aim = tries[t].aim
  BY <1>0, FailsStep
<1>2. \/ tries[t].requests[j] \in {"sent", "passed"} /\ odd' = odd \union {"refused"}
         /\ tries'[t].requests = [tries[t].requests EXCEPT ![j] = "refused"]
      \/ tries[t].requests[j] = "done" /\ odd' = odd \union {"lost"}
         /\ tries'[t].requests = [tries[t].requests EXCEPT ![j] = "lost"]
  BY <1>0, FailsStep
<1>3. AttemptsKept
  BY <1>1 DEF AttemptsKept
<1>4. ASSUME ~ Several(case), tries[t].requests[1] \in {"done", "lost"}
      PROVE  tries'[t].requests[1] = "lost"
  <2>1. j = 1
    BY <1>4, OneRequest
  <2>2. tries[t].requests[j] \notin {"sent", "passed"}
    BY <1>4, <2>1
  <2>3. tries'[t].requests = [tries[t].requests EXCEPT ![1] = "lost"]
    BY <1>2, <2>1, <2>2, Zenon
  <2> QED
    BY <2>1, <2>3
<1>5. DoneKept
  BY <1>1, <1>4 DEF DoneKept
<1> QED
  BY <1>3, <1>5

LEMMA ContinueKeeps ==
  ASSUME TInv, NEW t \in DOMAIN tries, Continue(t)
  PROVE  AttemptsKept /\ DoneKept
<1>1. tries[t].wave \in DOMAIN case.plan
  BY DEF TInv, Attempts, AtWave
<1>2. /\ DOMAIN tries' = DOMAIN tries /\ Len(tries') = Len(tries)
      /\ \A s \in DOMAIN tries : s # t => tries'[s] = tries[s]
      /\ tries[t].ends = "no" /\ tries'[t].aim = tries[t].aim
      /\ tries'[t].wave \in DOMAIN case.plan /\ tries'[t].wave > 1
  BY <1>1, ContinueStep DEF TInv
<1>3. AttemptsKept
  BY <1>2 DEF AttemptsKept
<1>4. DoneKept
  <2>1. SUFFICES ASSUME ~ Several(case) PROVE FALSE
    BY DEF DoneKept
  <2> QED
    BY <1>2, <2>1, OneRequest
<1> QED
  BY <1>3, <1>4

LEMMA SettleKeeps ==
  ASSUME TInv, NEW t \in DOMAIN tries, Settle(t)
  PROVE  AttemptsKept /\ DoneKept
<1>1. /\ DOMAIN tries' = DOMAIN tries /\ Len(tries') = Len(tries)
      /\ \A s \in DOMAIN tries : s # t => tries'[s] = tries[s]
      /\ tries[t].ends = "no" /\ tries'[t].aim = tries[t].aim
      /\ tries'[t].requests = tries[t].requests
  BY SettleStep DEF TInv
<1> QED
  BY <1>1 DEF AttemptsKept, DoneKept

LEMMA OthersKeep ==
  ASSUME UNCHANGED tries
  PROVE  AttemptsKept /\ DoneKept
  BY DEF AttemptsKept, DoneKept

\* Such a step keeps the aims, and the makers of what was made before.
LEMMA KeptAims ==
  ASSUME TInv, MInv, case' = case, AttemptsKept, DoneKept
  PROVE  Aims' /\ \A x \in made : Maker(x)'
<1>1. Aims /\ \A x \in made : Maker(x)
  BY DEF MInv
<1>2. \A s \in DOMAIN tries : /\ tries'[s].aim = tries[s].aim
                              /\ tries[s].ends = "badly" => tries'[s].ends = "badly"
  BY DEF AttemptsKept
<1>3. Aims'
  BY <1>1, <1>2 DEF Aims, AttemptsKept
<1>4. ASSUME NEW x \in made PROVE Maker(x)'
  BY <1>1 DEF Maker, AttemptsKept, DoneKept
<1> QED
  BY <1>3, <1>4

\* What a press is about when there are attempts already: nothing that one of them
\* still runs for or has done, if the page is careful.
LEMMA AimOfPress ==
  ASSUME TInv, MInv, ~ Disabled, NEW a \in AimsOfPress
  PROVE  /\ a \in Nat /\ a <= Len(tries) + 1
         /\ Careful(case) =>
              \A s \in DOMAIN tries : tries[s].aim = a => tries[s].ends = "badly"
<1>1. /\ DOMAIN tries = 1..Len(tries) /\ Len(tries) \in Nat
      /\ \A t \in DOMAIN tries : tries[t] \in Try
  BY TriesAt DEF TInv
<1>2. \A t \in DOMAIN tries : /\ tries[t].aim \in Nat /\ tries[t].aim <= t
                              /\ tries[t].ends \in {"no", "well", "badly"}
  BY <1>1 DEF MInv, Aims, Try
<1>3. CASE a = NewAim
  BY <1>1, <1>2, <1>3 DEF NewAim
<1>4. CASE a \in FailedAims
  BY <1>1, <1>2, <1>4 DEF FailedAims
<1>5. CASE /\ case.press # "asked" /\ tries # <<>>
           /\ ~ (Last(tries).ends = "well" /\ ~ case.leaves)
           /\ a = Last(tries).aim
  <2> DEFINE l == Len(tries)
  <2>1. l \in DOMAIN tries /\ Last(tries) = tries[l]
    BY <1>1, <1>5 DEF Last, TInv, TypeOK
  <2>2. a = tries[l].aim /\ a \in Nat /\ a <= l
    BY <1>2, <1>5, <2>1
  <2>3. ASSUME Careful(case), NEW s \in DOMAIN tries, tries[s].aim = a
        PROVE  tries[s].ends = "badly"
    <3>1. case.press = "guarded" /\ ~ case.leaves
      BY <1>5, <2>3 DEF Careful
    <3>2. tries[l].ends # "no"
      BY <2>1, <3>1 DEF Disabled, Busy, Running
    <3>3. tries[l].ends = "badly"
      BY <1>2, <1>5, <2>1, <3>1, <3>2
    <3>4. s = l \/ s < l
      BY <1>1
    <3>5. s < l => tries[s].ends = "badly"
      BY <2>1, <2>2, <2>3 DEF MInv, Aims
    <3> QED
      BY <3>3, <3>4, <3>5
  <2> QED
    BY <1>1, <2>2, <2>3
<1> QED
  BY <1>3, <1>4, <1>5 DEF AimsOfPress

LEMMA PressAims ==
  ASSUME TInv, MInv, Press
  PROVE  Aims'
<1> DEFINE n == Len(tries) + 1
<1>1. DOMAIN tries = 1..Len(tries) /\ Len(tries) \in Nat
  BY TriesAt DEF TInv
<1>2. /\ tries' \in Seq(Try) /\ Len(tries') = n
      /\ \A s \in DOMAIN tries : s \in DOMAIN tries' /\ tries'[s] = tries[s]
      /\ tries'[n].aim \in AimsOfPress
  BY PressStep DEF TInv
<1>3. case' = case /\ ~ Disabled
  BY DEF Press
<1>4. \A t \in DOMAIN tries' : t = n \/ (t \in DOMAIN tries /\ t < n)
  BY <1>1, <1>2
<1>5. /\ tries'[n].aim <= n
      /\ Careful(case) =>
           \A s \in DOMAIN tries : tries[s].aim = tries'[n].aim => tries[s].ends = "badly"
  BY <1>2, <1>3, AimOfPress
<1>6. Aims
  BY DEF MInv
<1>7. \A t \in DOMAIN tries' : tries'[t].aim <= t
  BY <1>2, <1>4, <1>5, <1>6 DEF Aims
<1>8. ASSUME Careful(case), NEW s \in DOMAIN tries', NEW t \in DOMAIN tries', s < t,
             tries'[s].aim = tries'[t].aim
      PROVE  tries'[s].ends = "badly"
  <2>1. s \in DOMAIN tries /\ tries'[s] = tries[s]
    BY <1>1, <1>2, <1>4, <1>8
  <2>2. CASE t = n
    BY <1>5, <1>8, <2>1, <2>2
  <2>3. CASE t \in DOMAIN tries
    BY <1>2, <1>6, <1>8, <2>1, <2>3 DEF Aims
  <2> QED
    BY <1>4, <2>2, <2>3
<1> QED
  BY <1>3, <1>7, <1>8 DEF Aims, Careful

\* The one step that makes a thing: where the table has a constraint, there was
\* none like it.
LEMMA ServeMakes ==
  ASSUME TInv, MInv, case' = case,
         NEW t \in DOMAIN tries, NEW j \in DOMAIN tries[t].requests, Serve(t, j)
  PROVE  MInv'
<1> DEFINE i == tries[t].wave
           y == Thing(t, j)
           r == case.plan[i][j]
<1>1. Aims' /\ \A x \in made : Maker(x)'
  BY ServeKeeps, KeptAims
<1>2. y[1] = tries[t].aim /\ y[2] = i /\ y[3] = j /\ y[4] = t
  BY DEF Thing
<1>3. i \in DOMAIN case.plan /\ j \in DOMAIN case.plan[i]
  BY DEF TInv, Attempts, AtWave
<1>4. r.twin \in Twins
  <2>1. case.plan \in Seq(Seq(Step))
    BY DEF TInv, TypeOK, ShapeOf
  <2>2. case.plan[i] \in Seq(Step)
    BY <1>3, <2>1
  <2>3. r \in Step
    BY <1>3, <2>2
  <2> QED
    BY <2>3 DEF Step
<1>5. /\ made' = made \/ (made' = made \union {y} /\ r.makes)
      /\ made' # made /\ ~ Doubles(r) => \A x \in made : ~ SameThing(x, y)
  BY <1>4 DEF Serve, There, Sends, Doubles, Twins
<1>6. ASSUME r.makes, NEW x, x = y PROVE Maker(x)'
  <2>1. /\ t \in DOMAIN tries' /\ tries'[t].aim = tries[t].aim
        /\ tries'[t].requests = [tries[t].requests EXCEPT ![j] = "done"]
    BY ServeStep DEF TInv
  <2>2. ~ Several(case) => tries'[t].requests[1] = "done"
    BY <2>1, OneRequest
  <2>3. x[1] = tries[t].aim /\ x[2] = i /\ x[3] = j /\ x[4] = t
    BY <1>2, <1>6
  <2> HIDE DEF y
  <2> QED
    BY <1>3, <1>6, <2>1, <2>2, <2>3 DEF Maker
<1> HIDE DEF y
<1>7. ASSUME NEW x \in made' PROVE Maker(x)'
  BY <1>1, <1>5, <1>6
<1>8. ASSUME NEW x \in made', ~ Doubles(case.plan[x[2]][x[3]]),
             NEW z \in made', SameThing(x, z)
      PROVE  x = z
  <2>1. x[2] = z[2] /\ x[3] = z[3] /\ SameThing(z, x)
    BY <1>8 DEF SameThing
  <2>2. CASE x \in made /\ z \in made
    BY <1>8, <2>2 DEF MInv, Once
  <2>3. CASE made' # made /\ (x = y \/ z = y)
    <3>1. ~ Doubles(r)
      BY <1>2, <1>8, <2>1, <2>3
    <3>2. \A w \in made : ~ SameThing(w, y)
      BY <1>5, <2>3, <3>1
    <3> QED
      BY <1>5, <1>8, <2>1, <2>3, <3>2
  <2> QED
    BY <1>5, <2>2, <2>3
<1>9. \A x \in made' : Once(x)'
  BY <1>8 DEF Once
<1> QED
  BY <1>1, <1>7, <1>9 DEF MInv

LEMMA StepMakes == TInv /\ MInv /\ [Next]_vars => MInv'
<1> SUFFICES ASSUME TInv, MInv, [Next]_vars PROVE MInv'
  OBVIOUS
<1>1. case' = case
  BY OddType DEF TInv
<1>2. CASE AttemptsKept /\ DoneKept /\ made' = made
  <2>1. Aims' /\ \A x \in made : Maker(x)'
    BY <1>1, <1>2, KeptAims
  <2>2. \A x \in made : Once(x)'
    BY <1>1, <1>2 DEF MInv, Once
  <2> QED
    BY <1>1, <1>2, <2>1, <2>2 DEF MInv
<1>3. CASE Press
  <2>1. Aims'
    BY <1>3, PressAims
  <2>2. made' = made
    BY <1>3 DEF Press
  <2>3. \A s \in DOMAIN tries : s \in DOMAIN tries' /\ tries'[s] = tries[s]
    BY <1>3, PressStep DEF TInv
  <2>4. \A x \in made : Maker(x)'
    BY <1>1, <2>3 DEF MInv, Maker
  <2>5. \A x \in made : Once(x)'
    BY <1>1, <2>2 DEF MInv, Once
  <2> QED
    BY <1>1, <2>1, <2>2, <2>4, <2>5 DEF MInv
<1>4. CASE Server
  <2> PICK t \in DOMAIN tries : \E j \in DOMAIN tries[t].requests :
             Serve(t, j) \/ Pass(t, j) \/ TurnAway(t, j)
    BY <1>4, ServerStep
  <2> PICK j \in DOMAIN tries[t].requests : Serve(t, j) \/ Pass(t, j) \/ TurnAway(t, j)
    OBVIOUS
  <2>1. CASE Serve(t, j)
    BY <1>1, <2>1, ServeMakes
  <2>2. CASE Pass(t, j)
    <3>1. made' = made
      BY <2>2 DEF Pass
    <3> QED
      BY <1>2, <2>2, <3>1, PassKeeps
  <2>3. CASE TurnAway(t, j)
    <3>1. made' = made
      BY <2>3 DEF TurnAway
    <3> QED
      BY <1>2, <2>3, <3>1, TurnAwayKeeps
  <2> QED
    BY <2>1, <2>2, <2>3
<1>5. CASE \E r \in Requests : Fails(r[1], r[2])
  <2> PICK r \in Requests : Fails(r[1], r[2])
    BY <1>5
  <2>1. r[1] \in DOMAIN tries /\ r[2] \in DOMAIN tries[r[1]].requests
    BY RequestsAre
  <2>2. made' = made
    BY DEF Fails
  <2> QED
    BY <1>2, <2>1, <2>2, FailsKeeps
<1>6. ASSUME NEW t \in DOMAIN tries, Continue(t) PROVE MInv'
  <2>1. made' = made
    BY <1>6 DEF Continue
  <2> QED
    BY <1>2, <1>6, <2>1, ContinueKeeps
<1>7. ASSUME NEW t \in DOMAIN tries, Settle(t) PROVE MInv'
  <2>1. made' = made
    BY <1>7 DEF Settle
  <2> QED
    BY <1>2, <1>7, <2>1, SettleKeeps
<1>8. CASE UNCHANGED <<tries, made>>
  BY <1>2, <1>8, OthersKeep
<1> QED
  BY <1>3, <1>4, <1>5, <1>6, <1>7, <1>8
  DEF Next, Client, Leave, Return, Navigate, Read, Land, Age, Poll, vars

\* An earlier attempt and a later one that made the same thing: the earlier one has
\* failed, and if it had one request only, that was done and its answer lost.
LEMMA MadeAgain ==
  ASSUME RepeatableListed, TInv, MInv, NEW a \in made, NEW b \in made,
         SameThing(a, b), a[4] < b[4], ~ case.repeats
  PROVE  \/ case.pieces /\ tries[a[4]].ends = "badly"
         \/ tries[a[4]].wave = a[2] /\ tries[a[4]].requests[a[3]] = "lost"
<1> DEFINE s == a[4]
           t == b[4]
<1>1. /\ s \in DOMAIN tries /\ t \in DOMAIN tries /\ tries[s].aim = tries[t].aim
      /\ a[2] \in DOMAIN case.plan /\ a[3] \in DOMAIN case.plan[a[2]]
      /\ ~ Several(case) => tries[s].requests[1] \in {"done", "lost"}
  BY DEF MInv, Maker, SameThing
<1>2. Doubles(case.plan[a[2]][a[3]])
  <2>1. t \in Nat
    BY <1>1, TriesAt DEF TInv
  <2>2. a # b
    BY <2>1
  <2> QED
    BY <2>2 DEF MInv, Once
<1>3. Careful(case) /\ (case.pieces \/ ~ Several(case))
  BY <1>2, <1>1 DEF RepeatableListed, MInv
<1>4. tries[s].ends = "badly"
  BY <1>1, <1>3 DEF MInv, Aims
<1> HIDE DEF s, t
<1>5. ASSUME ~ Several(case) PROVE tries[s].wave = a[2] /\ tries[s].requests[a[3]] = "lost"
  <2>1. /\ DOMAIN case.plan \subseteq {1} /\ DOMAIN tries[s].requests \subseteq {1}
        /\ AtWave(tries[s]) /\ HasEnded(tries[s])
    BY <1>1, <1>5, OneRequest DEF TInv, Attempts
  <2>2. tries[s].wave = 1 /\ a[2] = 1
    BY <1>1, <2>1 DEF AtWave
  <2>3. a[3] = 1
    BY <1>1, <2>1, <2>2 DEF AtWave
  <2>4. tries[s].requests[1] \in {"refused", "lost"}
    BY <1>4, <2>1 DEF HasEnded
  <2> QED
    BY <1>1, <1>5, <2>2, <2>3, <2>4
<1> QED
  BY <1>3, <1>4, <1>5 DEF s

\* Whatever the user means to make is made once, however many the presses and the
\* requests, on every page that is not listed, unless the answer to the request that
\* made it was lost; on one listed only for its several requests, unless the attempt
\* that made it failed (MadeOnce).  The hypothesis is about the screens alone.
THEOREM ThingsAreMadeOnce ==
  ASSUME RepeatableListed
  PROVE  Spec => []MadeOnce
<1>1. Init => MInv
  <2> SUFFICES ASSUME Init PROVE MInv
    OBVIOUS
  <2>1. tries = <<>> /\ made = {} /\ DOMAIN <<>> = {}
    BY DEF Init
  <2> QED
    BY <2>1 DEF Init, MInv, Aims
<1>2. TInv /\ MInv => MadeOnce
  <2> SUFFICES ASSUME TInv, MInv, NEW a \in made, NEW b \in made,
                      SameThing(a, b), a[4] < b[4], ~ case.repeats
               PROVE  \/ case.pieces /\ tries[a[4]].ends = "badly"
                      \/ tries[a[4]].wave = a[2] /\ tries[a[4]].requests[a[3]] = "lost"
    BY DEF MadeOnce
  <2> QED
    BY MadeAgain
<1> QED
  BY <1>1, <1>2, InitTyped, StepTyped, StepMakes, PTL DEF Spec

=============================================================================
