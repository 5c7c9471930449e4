------------------------------- MODULE Confirm -------------------------------
(***************************************************************************)
(* Confirmations in a chat: confirm() of TelegramConfirmProvider           *)
(* (src/src/bot/confirm-telegram.ts) and of DiscordConfirmProvider         *)
(* (confirm-discord.ts).  `front` says which of the two the process runs.  *)
(* Telegram gathers the requests of 100 ms in one message and keeps the    *)
(* messages it waits for in `pending`; Discord sends one message for each  *)
(* request and awaits a click on it.  A message is known by the set of     *)
(* requests it asks; its state says where its handler awaits:              *)
(*   sending    send, whose answer carries the message's id                *)
(*   open       the user's tap, or the timer                               *)
(*   replying   Discord only: the diff is shown, nothing is listened for   *)
(*   closing    decided; the message is being edited                       *)
(*   done       the promises of its requests are resolved                  *)
(* confirmPlan has no caller in either bot and is left out, as are the     *)
(* numbered buttons of a batch, whose state nothing reads.                 *)
(***************************************************************************)
EXTENDS Integers

CONSTANTS
  Requests,   \* the calls of confirm()
  WithDiff,   \* those that carry a diff
  Providers,  \* bound: a session's providers are 1..Providers
  MayFailSend \* may a message fail to be sent?

ASSUME ConfirmAssumption == Providers \in Nat \ {0}

VARIABLES
  front,      \* "telegram" or "discord"
  up,         \* the process runs
  provider,   \* the provider of the session that the chat has now
  batch,      \* each provider's batchQueue: its timer runs when it is not empty
  messages,   \* the messages: a function on sets of requests
  verdict,    \* what each request's promise has come to
  consent     \* the requests the user has tapped an approving button for

convars == <<front, up, provider, batch, messages, verdict, consent>>

Asked == DOMAIN messages
At(S, states) == S \in Asked /\ messages[S].state \in states
Put(S, state) == messages' = [messages EXCEPT ![S] = [@ EXCEPT !.state = state]]
Close(S, ok) ==
  messages' = [messages EXCEPT ![S] = [state |-> "closing", by |-> @.by, heard |-> ok]]
Resolve(S, v) == verdict' = [r \in Requests |-> IF r \in S THEN v ELSE verdict[r]]

Send(S, of) ==
  messages' = [T \in Asked \cup {S} |->
                 IF T = S THEN [state |-> "sending", by |-> of, heard |-> FALSE]
                          ELSE messages[T]]

-----------------------------------------------------------------------------
(* Asking *)

\* confirm(): Telegram's adds the request to the batch, Discord's sends it.
Confirm(r) ==
  /\ up /\ verdict[r] = "none"
  /\ verdict' = [verdict EXCEPT ![r] = "pending"]
  /\ IF front = "telegram"
     THEN batch' = [batch EXCEPT ![provider] = @ \cup {r}] /\ UNCHANGED messages
     ELSE Send({r}, provider) /\ UNCHANGED batch
  /\ UNCHANGED <<front, up, provider, consent>>

\* flushBatch(): one request is sent alone, several in one message.
FlushBatch(g) ==
  /\ up /\ batch[g] # {}
  /\ Send(batch[g], g)
  /\ batch' = [batch EXCEPT ![g] = {}]
  /\ UNCHANGED <<front, up, provider, verdict, consent>>

\* The message is out: it becomes pending, and its timer starts.
Sent(S) ==
  /\ up /\ At(S, {"sending"})
  /\ Put(S, "open")
  /\ UNCHANGED <<front, up, provider, batch, verdict, consent>>

\* send throws. Discord's confirm() passes it on; Telegram's flushBatch runs from a
\* timer and nobody catches its rejection, which ends the process.
SendFails(S) ==
  /\ up /\ MayFailSend /\ At(S, {"sending"})
  /\ IF front = "telegram"
     THEN up' = FALSE /\ UNCHANGED <<messages, verdict>>
     ELSE Put(S, "done") /\ Resolve(S, "failed") /\ UNCHANGED up
  /\ UNCHANGED <<front, provider, batch, consent>>

-----------------------------------------------------------------------------
(* Answering *)

\* A tap counts on a message that is open, of the session's present provider in
\* Telegram; one of an older provider is an "Unknown action".
Heard(S) == At(S, {"open"}) /\ (front = "telegram" => messages[S].by = provider)

\* Approve, and Approve All: the first tap decides, later ones find nothing.
TapApprove(S) ==
  /\ up /\ At(S, {"sending", "open", "replying", "closing"})
  /\ consent' = consent \cup S
  /\ IF Heard(S) THEN Close(S, TRUE) ELSE UNCHANGED messages
  /\ UNCHANGED <<front, up, provider, batch, verdict>>

\* Reject, and Reject All.
TapReject(S) ==
  /\ up /\ Heard(S)
  /\ Close(S, FALSE)
  /\ UNCHANGED <<front, up, provider, batch, verdict, consent>>

\* Diff: Telegram sends it and stays pending; Discord does not listen meanwhile.
TapDiff(S) ==
  /\ up /\ Heard(S) /\ front = "discord" /\ S \subseteq WithDiff
  /\ Put(S, "replying")
  /\ UNCHANGED <<front, up, provider, batch, verdict, consent>>

\* reply() returns or fails: the loop awaits the next click.
Replied(S) ==
  /\ up /\ At(S, {"replying"})
  /\ Put(S, "open")
  /\ UNCHANGED <<front, up, provider, batch, verdict, consent>>

\* Mutant: the timer does not look whether the message is settled.
TimeoutOfSettled(S) ==
  /\ up /\ At(S, {"open", "closing", "done"})
  /\ Close(S, FALSE)
  /\ UNCHANGED <<front, up, provider, batch, verdict, consent>>

\* Mutant: the timer looks in the provider the chat has now.
TimeoutOfOldLost(S) ==
  /\ up /\ At(S, {"open"}) /\ messages[S].by = provider
  /\ Close(S, FALSE)
  /\ UNCHANGED <<front, up, provider, batch, verdict, consent>>

\* The timer, or the rest of Discord's deadline: rejected.
Timeout(S) ==
  /\ up /\ At(S, {"open"})
  /\ Close(S, FALSE)
  /\ UNCHANGED <<front, up, provider, batch, verdict, consent>>

\* The edit returns or fails: the promises are resolved.
Decide(S) ==
  /\ up /\ At(S, {"closing"})
  /\ Put(S, "done")
  /\ Resolve(S, IF messages[S].heard THEN "approved" ELSE "rejected")
  /\ UNCHANGED <<front, up, provider, batch, consent>>

\* The chat's session is made anew, with a provider of its own. The old one's prompts
\* and its timers live on.
NewProvider ==
  /\ up /\ provider < Providers
  /\ provider' = provider + 1
  /\ UNCHANGED <<front, up, batch, messages, verdict, consent>>

-----------------------------------------------------------------------------
ConfirmInit ==
  /\ front \in {"telegram", "discord"}
  /\ up = TRUE
  /\ provider = 1
  /\ batch = [g \in 1..Providers |-> {}]
  /\ messages = [S \in {} |-> [state |-> "done", by |-> 1, heard |-> FALSE]]
  /\ verdict = [r \in Requests |-> "none"]
  /\ consent = {}

OfMessage(S) ==
  \/ Sent(S) \/ SendFails(S) \/ TapApprove(S) \/ TapReject(S) \/ TapDiff(S)
  \/ Replied(S) \/ Timeout(S) \/ Decide(S)

ConfirmNext ==
  \/ \E r \in Requests : Confirm(r)
  \/ \E g \in 1..Providers : FlushBatch(g)
  \/ \E S \in SUBSET Requests : OfMessage(S)
  \/ NewProvider

\* Timers fire, and calls to the chat return or fail. Nobody has to tap.
ConfirmFair ==
  /\ \A g \in 1..Providers : WF_convars(FlushBatch(g))
  /\ \A S \in SUBSET Requests :
       /\ WF_convars(Sent(S) \/ SendFails(S))
       /\ WF_convars(Replied(S))
       /\ SF_convars(Timeout(S))
       /\ WF_convars(Decide(S))

ConfirmSpec == ConfirmInit /\ [][ConfirmNext]_convars

-----------------------------------------------------------------------------
(* Properties *)

ConfirmTypes ==
  /\ front \in {"telegram", "discord"} /\ up \in BOOLEAN /\ provider \in 1..Providers
  /\ batch \in [1..Providers -> SUBSET Requests]
  /\ Asked \subseteq SUBSET Requests
  /\ messages \in [Asked -> [state : {"sending", "open", "replying", "closing", "done"},
                             by : 1..Providers, heard : BOOLEAN]]
  /\ verdict \in [Requests -> {"none", "pending", "approved", "rejected", "failed"}]
  /\ consent \subseteq Requests

\* ConfirmationProvider: batching, late and repeated taps, timers and new providers
\* notwithstanding, a request is answered once and approved only by its user.
Promise == INSTANCE Approval WITH
             Requests <- Requests, verdict <- verdict, consent <- consent
Approvals == Promise!Approvals

\* confirm-telegram.ts:8 "Timeout auto-reject": a request is answered even if the
\* user never taps, unless the process ends.
PromptsEnd ==
  \A r \in Requests : verdict[r] = "pending" ~> (verdict[r] # "pending" \/ ~up)
=============================================================================
