---------------------------- MODULE ModelClient -----------------------------
(***************************************************************************)
(* The HTTP client of the model server (src/src/client.ts): chatStream and *)
(* chat with their retries, the fall back from streaming, the switch to    *)
(* content mode, the rate limiter, and the reading of an event stream.     *)
(* A session has one client and one call at a time; the caller may abort.  *)
(* call.pc is where the call awaits:                                       *)
(*   delay     the rate limiter's back-off before the first attempt        *)
(*   fetch     a request, until the headers of its response                *)
(*   backoff   the pause before the next attempt                           *)
(*   body      the response: an event stream, or a JSON document           *)
(***************************************************************************)
EXTENDS Integers, Sequences, FiniteSets

CONSTANTS
  MessageRoles,        \* the roles of the conversation's messages, in order
  Streams,      \* the event streams the server may send, as sequences of frames
  Errors,       \* the bodies of its 5xx answers
  Attempts,     \* attempts of a call
  BusyLimit,    \* 503 answers in a window from which the limiter delays
  MaxLevel,     \* its highest back-off level
  Fallbacks,    \* the values IDLEHANDS_STREAM_FALLBACK may have
  MaxCalls,     \* bound: calls in a behaviour
  MaxSwitches   \* bound: template errors the server gives in one call

\* MessageRoles of messages: "caller" is an assistant message with tool calls.
RoleSet == {"system", "user", "assistant", "caller", "tool"}

\* Frames: a token, a piece of the arguments of tool call `index`, which its first
\* piece names, a chunk that is not JSON, the finish reason, and [DONE].
Frame == [kind : {"token", "garbage", "finish", "done"}]
           \cup [kind : {"tool"}, index : 1..2, named : BOOLEAN, part : Nat]

ASSUME ClientAssumption ==
  /\ MessageRoles \in Seq(RoleSet)
  /\ \A s \in Streams : s \in Seq(Frame)
  /\ Attempts \in Nat \ {0} /\ BusyLimit \in Nat \ {0}
  /\ MaxLevel \in Nat /\ MaxCalls \in Nat /\ MaxSwitches \in Nat
  /\ Fallbacks \subseteq BOOLEAN

VARIABLES
  client,   \* what outlives a call
  call,     \* the locals of the call in progress, or of the last one
  calls     \* calls so far

cvars == <<client, call, calls>>

-----------------------------------------------------------------------------
(* Requests *)

Has(role) == \E i \in DOMAIN MessageRoles : MessageRoles[i] = role

\* Content mode takes tools and tool structures out of a body; the system message, if
\* there is one, describes the tools instead.
Body(contentMode) ==
  [tools     |-> ~contentMode,
   described |-> contentMode /\ Has("system"),
   roles     |-> IF ~contentMode THEN MessageRoles
                 ELSE [i \in DOMAIN MessageRoles |->
                         CASE MessageRoles[i] = "caller" -> "assistant"
                           [] MessageRoles[i] = "tool"   -> "user"
                           [] OTHER               -> MessageRoles[i]]]

NoAnswer == [kind |-> "none", tokens |-> 0, args |-> [i \in 1..2 |-> <<>>], named |-> {}]

NoCall == [pc |-> "idle", mode |-> "stream", attempt |-> 0, body |-> Body(FALSE),
           aborted |-> FALSE,
           heard |-> FALSE,      \* the request in flight was told
           seen |-> {},          \* 5xx bodies of this call
           switches |-> 0,       \* template errors it met
           stream |-> <<>>,      \* the frames of the response
           read |-> 0,           \* how many of them were read
           shown |-> 0,          \* tokens given to onToken
           answer |-> NoAnswer, failed |-> FALSE]

In(pcs) == call.pc \in pcs

\* getDelay: the level falls back only when the window is empty.
Delays == client.hits >= BusyLimit
Decayed == [client EXCEPT !.level = IF client.hits = 0 THEN 0 ELSE @]

Sends(c) == [c EXCEPT !.pc = "fetch", !.heard = FALSE]

\* chatStream or chat is entered: the body is built for the mode of now.
Entered(c, mode, contentMode) ==
  LET e == [c EXCEPT !.mode = mode, !.attempt = 0, !.body = Body(contentMode), !.seen = {}]
  IN  IF Delays THEN [e EXCEPT !.pc = "delay"] ELSE Sends(e)

Begin(mode) ==
  /\ In({"idle"}) /\ calls < MaxCalls
  /\ calls' = calls + 1
  /\ client' = Decayed
  /\ call' = Entered(NoCall, mode, client.contentMode)

\* probeConnection: any answer will do, and one is enough for the client's life.
Probe ==
  /\ In({"idle"}) /\ ~client.probed
  /\ client' = [client EXCEPT !.probed = TRUE]
  /\ UNCHANGED <<call, calls>>

\* Mutant: the attempts are not counted.
WaitUncounted ==
  /\ In({"delay", "backoff"})
  /\ call' = Sends(call)
  /\ UNCHANGED <<client, calls>>

Wait ==
  /\ In({"delay", "backoff"})
  /\ call' = Sends([call EXCEPT !.attempt = IF In({"backoff"}) THEN @ + 1 ELSE @])
  /\ UNCHANGED <<client, calls>>

Throws(c) == [c EXCEPT !.pc = "idle", !.failed = TRUE, !.stream = <<>>, !.read = 0, !.seen = {}]
Pause == call' = [call EXCEPT !.pc = "backoff"]
Throw == call' = Throws(call)

\* The caller's signal: fetchWithConnTimeout listens until the headers are there.
Abort ==
  /\ In({"delay", "fetch", "backoff", "body"}) /\ ~call.aborted
  /\ call' = [call EXCEPT !.aborted = TRUE, !.heard = In({"fetch"})]
  /\ UNCHANGED <<client, calls>>

AbortHeard ==
  /\ In({"fetch"}) /\ call.heard
  /\ Throw
  /\ UNCHANGED <<client, calls>>

-----------------------------------------------------------------------------
(* Responses.  An abort that no fetch heard counts only when one fails. *)

Awaits == In({"fetch"}) /\ ~call.heard
Last == call.attempt + 1 = Attempts

\* Connection refused, or "fetch failed".
Refused ==
  /\ Awaits
  /\ IF call.aborted \/ Last THEN Throw ELSE Pause
  /\ UNCHANGED <<client, calls>>

\* No headers within the connection timeout: one retry.
ConnTimeout ==
  /\ Awaits
  /\ IF call.aborted \/ call.attempt >= 1 THEN Throw ELSE Pause
  /\ UNCHANGED <<client, calls>>

\* Another failure of fetch, chat's response timeout, a 4xx: not retried.
Rejected ==
  /\ Awaits
  /\ Throw
  /\ UNCHANGED <<client, calls>>

\* record503
Recorded503 ==
  [client EXCEPT !.hits = @ + 1,
     !.level = IF client.hits + 1 >= BusyLimit /\ @ < MaxLevel THEN @ + 1 ELSE @]

Loading ==
  /\ Awaits
  /\ client' = Recorded503
  /\ IF Last THEN Throw ELSE Pause
  /\ UNCHANGED calls

\* The server does not stream.
NoStreaming ==
  /\ Awaits /\ call.mode = "stream"
  /\ client' = Decayed
  /\ call' = Entered(call, "chat", client.contentMode)
  /\ UNCHANGED calls

\* Mutant: the next attempt sends the body built before the switch.
TemplateErrorKeepsBody ==
  /\ Awaits /\ call.mode = "stream" /\ call.switches < MaxSwitches
  /\ client' = [Decayed EXCEPT !.contentMode = TRUE, !.autoSwitches = @ + 1]
  /\ call' = Sends([call EXCEPT !.switches = @ + 1])
  /\ UNCHANGED calls

\* A template that cannot take tool calls: the call starts over in content mode, with
\* fresh locals, so the guard against a second switch never sees the first.
TemplateError ==
  /\ Awaits /\ call.mode = "stream" /\ call.switches < MaxSwitches
  /\ client' = [Decayed EXCEPT !.contentMode = TRUE, !.autoSwitches = @ + 1]
  /\ call' = Entered([call EXCEPT !.switches = @ + 1], "stream", TRUE)
  /\ UNCHANGED calls

\* Another 5xx: the same body twice is not transient; chat is the last resort.
ServerError(body) ==
  /\ Awaits
  /\ IF call.mode = "chat" \/ body \in call.seen
     THEN Throw /\ UNCHANGED client
     ELSE IF client.fallback /\ call.attempt >= 1
     THEN /\ client' = Decayed
          /\ call' = Entered(call, "chat", client.contentMode)
     ELSE /\ IF Last THEN Throw
             ELSE call' = [call EXCEPT !.pc = "backoff", !.seen = @ \cup {body}]
          /\ UNCHANGED client
  /\ UNCHANGED calls

Headers(stream) ==
  /\ Awaits
  /\ call' = [call EXCEPT !.pc = "body", !.read = 0,
                          !.stream = IF call.mode = "stream" THEN stream ELSE <<>>]
  /\ UNCHANGED <<client, calls>>

-----------------------------------------------------------------------------
(* Reading the response *)

\* Arguments that came without a name are no tool call.
Finalized(a) ==
  [a EXCEPT !.args = [i \in DOMAIN @ |-> IF i \in a.named THEN @[i] ELSE <<>>]]
Returns(answer) ==
  [call EXCEPT !.pc = "idle", !.answer = Finalized(answer), !.seen = {}]

\* A sample for the backpressure monitor.
Timed == [client EXCEPT !.samples = @ + 1]

\* A JSON document.
Document ==
  /\ In({"body"}) /\ call.mode = "chat"
  /\ client' = Timed
  /\ call' = Returns([NoAnswer EXCEPT !.kind = "document"])
  /\ UNCHANGED calls

\* The connection breaks under the document or the stream.
BodyFails ==
  /\ In({"body"})
  /\ Throw
  /\ UNCHANGED <<client, calls>>

Partial == call.answer

\* Mutant: arguments are collected for the call named last.
TakenByLastName(a, f) ==
  LET named == IF f.kind = "tool" /\ f.named THEN a.named \cup {f.index} ELSE a.named IN
  CASE f.kind = "token" -> [a EXCEPT !.tokens = @ + 1]
    [] f.kind = "tool"  -> [a EXCEPT !.named = named,
                              !.args[CHOOSE i \in named \cup {2} : \A k \in named : k <= i] =
                                Append(@, f.part)]
    [] OTHER            -> a

\* One frame taken into the answer so far.
Taken(a, f) ==
  CASE f.kind = "token" -> [a EXCEPT !.tokens = @ + 1]
    [] f.kind = "tool"  -> [a EXCEPT !.args[f.index] = Append(@, f.part),
                              !.named = IF f.named THEN @ \cup {f.index} ELSE @]
    [] OTHER            -> a

\* A read gives the next frame, or a part of one, which waits in the buffer.
ReadFrame ==
  /\ In({"body"}) /\ call.mode = "stream" /\ call.read < Len(call.stream)
  /\ LET f == call.stream[call.read + 1] IN
     IF f.kind = "done"
     THEN call' = Returns([Partial EXCEPT !.kind = "whole"])
     ELSE call' = [call EXCEPT !.read = @ + 1, !.answer = Taken(@, f),
                               !.shown = IF f.kind = "token" THEN @ + 1 ELSE @]
  /\ UNCHANGED <<client, calls>>

\* The stream closes without [DONE]: a frame without its blank line is lost.
StreamEnds ==
  /\ In({"body"}) /\ call.mode = "stream"
  /\ client' = Timed
  /\ call' = Returns([Partial EXCEPT !.kind = "ended"])
  /\ UNCHANGED calls

Saw == \E i \in 1..call.read : call.stream[i].kind \in {"token", "tool"}

\* No data for the read timeout.
ReadTimeout ==
  /\ In({"body"}) /\ call.mode = "stream"
  /\ IF client.fallback
     THEN /\ client' = Decayed
          /\ call' = Entered([call EXCEPT !.answer = NoAnswer, !.stream = <<>>, !.read = 0],
                             "chat", client.contentMode)
     ELSE /\ UNCHANGED client
          /\ IF Saw THEN call' = Returns([Partial EXCEPT !.kind = "cut"]) ELSE Throw
  /\ UNCHANGED calls

-----------------------------------------------------------------------------
\* 503 answers leave the rolling window.
WindowMoves ==
  /\ client.hits > 0
  /\ client' = [client EXCEPT !.hits = @ - 1]
  /\ UNCHANGED <<call, calls>>

\* A model known not to take tool calls begins in content mode.
ClientInit ==
  /\ \E fallback \in Fallbacks, known \in BOOLEAN :
       client = [contentMode |-> known, autoSwitches |-> 0, hits |-> 0, level |-> 0,
                 probed |-> FALSE, samples |-> 0, fallback |-> fallback]
  /\ call = NoCall /\ calls = 0

Respond ==
  \/ AbortHeard \/ Refused \/ ConnTimeout \/ Rejected \/ Loading \/ NoStreaming
  \/ TemplateError \/ \E body \in Errors : ServerError(body)
  \/ \E s \in Streams : Headers(s)
  \/ Document \/ BodyFails \/ ReadFrame \/ StreamEnds \/ ReadTimeout

ClientNext ==
  \/ \E mode \in {"stream", "chat"} : Begin(mode)
  \/ Probe \/ Wait \/ Abort \/ Respond \/ WindowMoves

ClientSpec == ClientInit /\ [][ClientNext]_cvars

\* Each await is bounded by a timer: the back-off, the connection and response timeouts,
\* the read timeout of a stream, and for a document the body timeout of fetch itself.
ClientFairSpec == ClientSpec /\ WF_cvars(Wait) /\ WF_cvars(Respond)
-----------------------------------------------------------------------------
(* Properties *)

\* What is sent fits the mode the client is in when it is sent, over retries, the fall
\* back to chat and the switch in the middle of a call: in content mode no body holds
\* tools or tool messages, and the model is told of its tools in every body.
BodyFitsMode ==
  In({"fetch"}) =>
    /\ call.body.tools = ~client.contentMode
    /\ call.body.tools \/ call.body.described
    /\ client.contentMode =>
         \A i \in DOMAIN MessageRoles : call.body.roles[i] \in {"system", "user", "assistant"}

\* The frames of a stream read so far that carry arguments of tool call i, and how many
\* of them had come with the k-th frame.
Pieces(c, i) == {k \in 1..c.read : c.stream[k].kind = "tool" /\ c.stream[k].index = i}
Nth(c, i, k) == Cardinality({j \in Pieces(c, i) : j <= k})

\* A streamed answer is what the server sent, however the pieces of its tool calls
\* interleave: each named call has all of its arguments in order and none of another,
\* and the text is the text that was shown.
AnswerIsWhatWasSent ==
  call.answer.kind \in {"whole", "ended", "cut"} =>
    /\ call.answer.tokens = call.shown
    /\ \A i \in 1..2 :
         LET pieces == Pieces(call, i)
             args   == call.answer.args[i]
         IN  IF \E k \in pieces : call.stream[k].named
             THEN /\ Len(args) = Cardinality(pieces)
                  /\ \A k \in pieces : args[Nth(call, i, k)] = call.stream[k].part
             ELSE args = <<>>
=============================================================================
