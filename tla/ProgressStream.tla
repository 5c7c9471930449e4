--------------------------- MODULE ProgressStream ----------------------------
(***************************************************************************)
(* The message in which a bot shows the progress of a turn and then its    *)
(* answer: StreamingMessage of src/src/bot/telegram.ts and                 *)
(* DiscordStreamingMessage of bot/discord-streaming.ts, with the presenter *)
(* and the MessageEditScheduler of src/src/progress/.  The scheduler's     *)
(* interval does not wait for the edit of the tick before, and the end of  *)
(* a turn does not wait for the edits in flight; the chat applies edits in *)
(* any order.  A text is a version of the progress (0 is "Thinking..."),   *)
(* or Final, the last text of the turn.                                    *)
(***************************************************************************)
EXTENDS Integers

CONSTANTS
  MaxVersion,  \* bound: changes of the progress
  MaxBackoff,  \* ticks a rate limit is waited for, at most
  Refusals     \* how edits may fail: "limited", "gone", "other"

VARIABLES
  chat,        \* "telegram" or "discord"
  phase,       \* "running", "closing" (the last edit), "sending", "ended"
  ending,      \* what ends it: "answer", "file", "error", "note"
  version,     \* the presenter's text
  dirty,       \* the presenter's flag
  sched,       \* the scheduler: [on, last (lastText), backoff (in ticks)]
  flight,      \* the texts of the edits in flight
  shown,       \* the text of the message, or "deleted"
  posted,      \* the last text was sent as a message, or a file, of its own
  excuses      \* what may keep the last text from the user: an edit in flight when
               \* the turn ended ("raced"), one refused with nothing else tried
               \* ("untried"), a message that could not be sent ("unsent")

svars == <<chat, phase, ending, version, dirty, sched, flight, shown, posted, excuses>>

Final == -1
Deleted == -2
Off == [sched EXCEPT !.on = FALSE]

-----------------------------------------------------------------------------
(* While the turn runs *)

\* Another status line, tool line or text.
Changes ==
  /\ version < MaxVersion
  /\ version' = version + 1 /\ dirty' = TRUE
  /\ UNCHANGED <<chat, phase, ending, sched, flight, shown, posted, excuses>>

\* A hook of the agent; those of a turn that ended still come.
Hook == Changes

\* The timer of the progress: the next five seconds. stop() ends it.
Heartbeat == phase = "running" /\ Changes

\* A rate limit is waited out, one interval at a time.
BackOff ==
  /\ sched.on /\ sched.backoff > 0
  /\ sched' = [sched EXCEPT !.backoff = @ - 1]
  /\ UNCHANGED <<chat, phase, ending, version, dirty, flight, shown, posted, excuses>>

\* What the presenter renders, less its layout; rendering clears the flag.
Rendered == version

\* tick(): the flag is clear before the edit is known to succeed.
Tick ==
  /\ sched.on /\ sched.backoff = 0 /\ dirty
  /\ dirty' = FALSE
  /\ flight' = IF Rendered = sched.last THEN flight ELSE flight \cup {Rendered}
  /\ UNCHANGED <<chat, phase, ending, version, sched, shown, posted, excuses>>

\* The edit is made. Changes since its tick are taken for shown.
EditDone(v) ==
  /\ v \in flight \ {Final} /\ shown # Deleted
  /\ flight' = flight \ {v}
  /\ shown' = v /\ dirty' = FALSE
  /\ sched' = [sched EXCEPT !.last = v, !.backoff = 0]
  /\ UNCHANGED <<chat, phase, ending, version, posted, excuses>>

\* classifyTelegramEditError: an edit of a message that is gone ends the loop.
TelegramKind == [limited |-> "retry", gone |-> "fatal", other |-> "ignore"]

\* classifyDiscordEditError: a 404 is ignored, another 4xx ends the loop.
DiscordKind == [limited |-> "retry", gone |-> "ignore", other |-> "fatal"]

\* What the chat says of a message that was deleted, and otherwise.
Refused == Refusals \cap (IF shown = Deleted THEN {"gone"} ELSE {"limited", "other"})

\* The edit is refused.
EditRefused(v, why) ==
  /\ v \in flight \ {Final} /\ why \in Refused
  /\ flight' = flight \ {v}
  /\ LET kind == (IF chat = "telegram" THEN TelegramKind ELSE DiscordKind)[why]
     IN  \/ kind = "retry" /\ \E n \in 1..MaxBackoff : sched' = [sched EXCEPT !.backoff = n]
         \/ kind = "fatal" /\ sched' = Off
         \/ kind = "ignore" /\ UNCHANGED sched
  /\ UNCHANGED <<chat, phase, ending, version, dirty, shown, posted, excuses>>

\* The user deletes the message.
Delete ==
  /\ "gone" \in Refusals /\ shown # Deleted
  /\ shown' = Deleted
  /\ UNCHANGED <<chat, phase, ending, version, dirty, sched, flight, posted, excuses>>

-----------------------------------------------------------------------------
(* The end of the turn *)

Endings == IF chat = "telegram" THEN {"answer", "file", "error", "note"}
                                ELSE {"answer", "error"}

\* Mutant: the edit loop goes on.
FinalizeKeepsLoop(how) ==
  /\ phase = "running" /\ how \in Endings
  /\ phase' = "closing" /\ ending' = how
  /\ flight' = flight \cup {Final}
  /\ excuses' = IF flight = {} THEN {} ELSE {"raced"}
  /\ UNCHANGED <<chat, version, dirty, sched, shown, posted>>

\* finalize(), finalizeError() and settleIfUnfinalized(): the loop stops and the last
\* text is put into the message.
Finalize(how) ==
  /\ phase = "running" /\ how \in Endings
  /\ phase' = "closing" /\ ending' = how
  /\ sched' = Off
  /\ flight' = flight \cup {Final}
  /\ excuses' = IF flight = {} THEN {} ELSE {"raced"}
  /\ UNCHANGED <<chat, version, dirty, shown, posted>>

\* A long answer goes on as a file.
LastEditDone ==
  /\ phase = "closing" /\ shown # Deleted
  /\ shown' = Final /\ flight' = flight \ {Final}
  /\ phase' = IF ending = "file" THEN "sending" ELSE "ended"
  /\ UNCHANGED <<chat, ending, version, dirty, sched, posted, excuses>>

\* What is sent when it could not be edited: on Telegram a file and an error always, an
\* answer only when its message is gone; on Discord nothing is.
SendsInstead(why) ==
  /\ chat = "telegram"
  /\ \/ ending \in {"file", "error"}
     \/ ending = "answer" /\ why = "gone"

LastEditRefused(why) ==
  /\ phase = "closing" /\ why \in Refused
  /\ flight' = flight \ {Final}
  /\ IF SendsInstead(why)
     THEN phase' = "sending" /\ UNCHANGED excuses
     ELSE phase' = "ended" /\ excuses' = excuses \cup {"untried"}
  /\ UNCHANGED <<chat, ending, version, dirty, sched, shown, posted>>

\* sendMessage, sendDocument.
LastSend(ok) ==
  /\ phase = "sending"
  /\ ok \/ Refusals # {}
  /\ phase' = "ended"
  /\ posted' = ok
  /\ excuses' = IF ok THEN excuses ELSE excuses \cup {"unsent"}
  /\ UNCHANGED <<chat, ending, version, dirty, sched, flight, shown>>

-----------------------------------------------------------------------------
StreamInit ==
  /\ chat \in {"telegram", "discord"}
  /\ phase = "running" /\ ending = "answer"
  /\ version = 0 /\ dirty = TRUE
  /\ sched = [on |-> TRUE, last |-> 0, backoff |-> 0]
  /\ flight = {} /\ shown = 0 /\ posted = FALSE /\ excuses = {}

StreamNext ==
  \/ Hook \/ Heartbeat \/ BackOff \/ Tick \/ Delete
  \/ \E v \in flight : EditDone(v) \/ \E why \in Refusals : EditRefused(v, why)
  \/ \E how \in {"answer", "file", "error", "note"} : Finalize(how)
  \/ LastEditDone
  \/ \E why \in Refusals : LastEditRefused(why)
  \/ \E ok \in BOOLEAN : LastSend(ok)

StreamSpec == StreamInit /\ [][StreamNext]_svars

-----------------------------------------------------------------------------
(* Properties *)

\* telegram.ts:218 "Finalize: stop the edit loop and send the final response": once a
\* turn has ended its last text stands, unless the user deletes it, an edit was still
\* in flight when it was sent, or the chat refused it and nothing else was tried.
AnswerStands ==
  phase = "ended" => shown \in {Final, Deleted} \/ posted \/ excuses # {}
=============================================================================
