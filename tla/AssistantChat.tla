--------------------------- MODULE AssistantChat ---------------------------
(***************************************************************************)
(* The chat with the assistant: the hook that sends a question and reads   *)
(* the stream of its answer, and the handler that loads the history of the *)
(* conversation, streams, and stores the answer after its last event.  The *)
(* hook forgets "streaming" with the last event and its controller when    *)
(* the stream ends, and the two are not the same moment.                   *)
(***************************************************************************)
EXTENDS Naturals, Sequences, FiniteSets

CONSTANTS MaxSends,  \* questions asked
          MaxText    \* events of text in an answer

VARIABLES streaming,     \* the flag that disables the input
          abortRef,      \* question whose stream the stop button aborts, 0 if none
          conversation,  \* the conversation the next question goes to, 0 if a new one
          turns,         \* answers on the screen: [asked, kind, from]
          stream,        \* question -> none, asked, streaming, over, stored or ended
          sent,          \* question -> the conversation it was sent to
          texts,         \* question -> events of text read so far
          late           \* a question was put, or the chat reset, between the last
                         \* event of an answer and the end of its stream (history)

vars == <<streaming, abortRef, conversation, turns, stream, sent, texts, late>>

Questions == 1 .. MaxSends

Init ==
  /\ streaming = FALSE /\ abortRef = 0 /\ conversation = 0 /\ turns = <<>>
  /\ stream = [q \in Questions |-> "none"]
  /\ sent = [q \in Questions |-> 0]
  /\ texts = [q \in Questions |-> 0]
  /\ late = FALSE

Running == {q \in Questions : stream[q] \notin {"none", "ended"}}

\* replaceLast and applyEvent change the last turn, whosoever it is.
Last(f) == IF turns = <<>> THEN turns ELSE [turns EXCEPT ![Len(turns)] = f]
Answers(q, kind) == [turns[Len(turns)] EXCEPT !.from = @ \union {q}, !.kind = kind]

---------------------------------------------------------------------------
(***************************************************************************)
(* The user.                                                               *)
(***************************************************************************)

\* Mutated form of Send: the question is sent while an answer is streaming.
SendAnyTime ==
  \E q \in Questions :
    /\ stream[q] = "none" /\ \A p \in Questions : p < q => stream[p] # "none"
    /\ streaming' = TRUE /\ abortRef' = q
    /\ turns' = Append(turns, [asked |-> q, kind |-> "assistant", from |-> {}])
    /\ stream' = [stream EXCEPT ![q] = "asked"]
    /\ sent' = [sent EXCEPT ![q] = conversation]
    /\ late' = (late \/ \E p \in Running : stream[p] \in {"over", "stored"})
    /\ UNCHANGED <<conversation, texts>>

Send ==
  /\ ~streaming
  /\ \E q \in Questions :
       /\ stream[q] = "none" /\ \A p \in Questions : p < q => stream[p] # "none"
       /\ streaming' = TRUE /\ abortRef' = q
       /\ turns' = Append(turns, [asked |-> q, kind |-> "assistant", from |-> {}])
       /\ stream' = [stream EXCEPT ![q] = "asked"]
       /\ sent' = [sent EXCEPT ![q] = conversation]
       /\ late' = (late \/ Running # {})
       /\ UNCHANGED <<conversation, texts>>

\* The reader of the stream that abortRef names throws, and the finally clause
\* runs at once; the handler is cancelled before it stores the answer.
Stopped == [q \in Questions |-> IF q = abortRef THEN "ended" ELSE stream[q]]

Abort ==
  /\ streaming
  /\ stream' = Stopped
  /\ abortRef' = 0 /\ streaming' = FALSE
  /\ UNCHANGED <<conversation, turns, sent, texts, late>>

\* The button is disabled while the flag is up.
Reset ==
  /\ ~streaming
  /\ stream' = Stopped
  /\ abortRef' = 0 /\ streaming' = FALSE
  /\ turns' = <<>> /\ conversation' = 0
  /\ late' = (late \/ \E q \in Running : q # abortRef)
  /\ UNCHANGED <<sent, texts>>

---------------------------------------------------------------------------
(***************************************************************************)
(* The handler and the stream.                                             *)
(***************************************************************************)

\* POST /assistant/chat up to its first event, which names the conversation: a
\* new one has the number of its first question.
Serve(q) ==
  LET c == IF sent[q] = 0 THEN q ELSE sent[q]
  IN  /\ stream[q] = "asked"
      /\ stream' = [stream EXCEPT ![q] = "streaming"]
      /\ conversation' = c
      /\ sent' = [sent EXCEPT ![q] = c]
      /\ UNCHANGED <<streaming, abortRef, turns, texts, late>>

\* Mutated form of Finally: only the last event takes the flag down.
FinallyFlagged(q) ==
  streaming' = streaming /\ abortRef' = 0 /\ stream' = [stream EXCEPT ![q] = "ended"]

\* The finally clause of the hook, whichever way the stream ends.
Finally(q) == streaming' = FALSE /\ abortRef' = 0 /\ stream' = [stream EXCEPT ![q] = "ended"]

\* The request is refused or the connection fails: the last turn becomes an error.
Refuse(q) ==
  /\ stream[q] = "asked"
  /\ Finally(q)
  /\ turns' = IF turns = <<>> THEN <<[asked |-> q, kind |-> "error", from |-> {q}]>>
              ELSE Last(Answers(q, "error"))
  /\ UNCHANGED <<conversation, sent, texts, late>>

\* An event of text (or of a tool) goes to the last turn if that is an answer.
Text(q) ==
  /\ stream[q] = "streaming" /\ texts[q] < MaxText
  /\ texts' = [texts EXCEPT ![q] = @ + 1]
  /\ turns' = IF turns # <<>> /\ turns[Len(turns)].kind = "assistant"
              THEN Last(Answers(q, "assistant")) ELSE turns
  /\ UNCHANGED <<streaming, abortRef, conversation, stream, sent, late>>

\* The last event, done or error: the flag goes down, the stream is still open.
Over(q) ==
  /\ stream[q] = "streaming"
  /\ streaming' = FALSE
  /\ stream' = [stream EXCEPT ![q] = "over"]
  /\ \E kind \in {"done", "error"} :
       turns' = IF kind = "error" /\ turns # <<>> THEN Last(Answers(q, "error")) ELSE turns
  /\ UNCHANGED <<abortRef, conversation, sent, texts, late>>

\* The handler stores the answer after its last event.
Store(q) ==
  /\ stream[q] = "over"
  /\ stream' = [stream EXCEPT ![q] = "stored"]
  /\ UNCHANGED <<streaming, abortRef, conversation, turns, sent, texts, late>>

\* The connection is cut, in the middle of an answer or between its last event and
\* the end of the stream: then a whole answer is replaced by the error.
Cut(q) ==
  /\ stream[q] \in {"streaming", "over", "stored"}
  /\ Finally(q)
  /\ turns' = IF turns = <<>> THEN <<[asked |-> q, kind |-> "error", from |-> {q}]>>
              ELSE Last(Answers(q, "error"))
  /\ UNCHANGED <<conversation, sent, texts, late>>

\* The reader comes to the end of the stream.
End(q) ==
  /\ stream[q] = "stored"
  /\ Finally(q)
  /\ UNCHANGED <<conversation, turns, sent, texts, late>>

Next ==
  \/ Send \/ Abort \/ Reset
  \/ \E q \in Questions : \/ Serve(q) \/ Refuse(q) \/ Text(q) \/ Over(q)
                          \/ Store(q) \/ Cut(q) \/ End(q)

Fairness ==
  \A q \in Questions : /\ WF_vars(Serve(q) \/ Refuse(q))
                       /\ WF_vars(Over(q) \/ Store(q) \/ End(q) \/ Cut(q))

Spec == Init /\ [][Next]_vars /\ Fairness

---------------------------------------------------------------------------
(***************************************************************************)
(* Properties.                                                             *)
(***************************************************************************)

\* As long as nobody asks or resets before the stream of the last answer has
\* ended: an answer appears under its own question, the stop button holds the
\* stream that is running, and a fresh chat is not pulled back into the old one.
OneStreamAtATime ==
  ~late => /\ Cardinality(Running) <= 1
           /\ \A i \in DOMAIN turns : turns[i].from \subseteq {turns[i].asked}
           /\ streaming => Running = {abortRef}
           /\ turns = <<>> => conversation = 0

\* The input is not disabled for ever, however the answer ends.
InputComesBack == streaming ~> ~streaming

=============================================================================
