-------------------------- MODULE Partners_proofs --------------------------
(***************************************************************************)
(* What goes on around the asks of a session, for any number of requests,  *)
(* servers, plugins, tasks and runs: the confirmation providers keep the   *)
(* promise of Approval (Confirm), answers of tool servers (ToolServers),   *)
(* what plugins see and break (Hooks), the queue of delegated tasks        *)
(* (SubAgents), the last text of a turn (ProgressStream) and watch mode    *)
(* (ReplTurns).                                                            *)
(***************************************************************************)
EXTENDS Confirm, ToolServers, Hooks, SubAgents, ProgressStream, ReplTurns,
        FiniteSetTheorems, SequenceTheorems, TLAPS

-----------------------------------------------------------------------------
(* The confirmation providers *)

\* A message nobody has been answered for yet.
LiveMessage(S) == At(S, {"sending", "open", "replying", "closing"})

\* Nothing is asked twice: messages and batches do not share requests.
Apart ==
  /\ \A S, T \in Asked : \A r \in S : r \in T => S = T
  /\ \A g, h \in 1..Providers : \A r \in batch[g] : r \in batch[h] => g = h
  /\ \A S \in Asked : \A g \in 1..Providers : \A r \in S : r \notin batch[g]

\* Requests in batches and in live messages wait; a decision to approve has consent;
\* what is not asked is in neither.
Undecided ==
  /\ \A g \in 1..Providers : \A r \in batch[g] : verdict[r] = "pending"
  /\ \A S \in Asked : LiveMessage(S) => \A r \in S : verdict[r] = "pending"
  /\ \A S \in Asked : \A r \in S : verdict[r] # "none"
  /\ \A S \in Asked : messages[S].state = "closing" /\ messages[S].heard => S \subseteq consent

\* The invariant of the refinement.
ConfirmInv == ConfirmTypes /\ Apart /\ Undecided

\* The invariant holds initially.
LEMMA ConfirmStarts == ConfirmInit => ConfirmInv
  BY ConfirmAssumption DEF ConfirmInit, ConfirmInv, ConfirmTypes, Apart, Undecided, Asked, LiveMessage, At

\* Moving a live message to another live state keeps the invariant, if a decision to
\* approve has consent (Sent, Replied, the taps, Timeout).
LEMMA MoveInvariant ==
  ASSUME ConfirmInv, NEW S \in Asked, LiveMessage(S),
         NEW st \in {"sending", "open", "replying", "closing"}, NEW ok \in BOOLEAN,
         messages' = [messages EXCEPT ![S] =
                        [state |-> st, by |-> messages[S].by, heard |-> ok]],
         consent \subseteq consent', consent' \subseteq Requests,
         st = "closing" /\ ok => S \subseteq consent',
         UNCHANGED <<front, up, provider, batch, verdict>>
  PROVE  ConfirmInv'
<1>1. Asked' = Asked
  BY DEF Asked, ConfirmInv, ConfirmTypes
<1>2. ConfirmTypes'
  <2>1. messages[S].by \in 1..Providers
    BY DEF ConfirmInv, ConfirmTypes
  <2>2. messages' \in [Asked' -> [state : {"sending", "open", "replying", "closing", "done"},
                                 by : 1..Providers, heard : BOOLEAN]]
    BY <1>1, <2>1 DEF ConfirmInv, ConfirmTypes
  <2>3. QED
    BY <1>1, <2>2 DEF ConfirmInv, ConfirmTypes
<1>3. Apart'
  BY <1>1 DEF ConfirmInv, Apart
<1>4. \A T \in Asked : T # S => messages'[T] = messages[T]
  BY DEF ConfirmInv, ConfirmTypes
<1>5. messages'[S].state = st /\ messages'[S].heard = ok
  BY DEF ConfirmInv, ConfirmTypes
<1>6. Undecided'
  <2>1. ASSUME NEW T \in Asked, LiveMessage(T)' PROVE \A r \in T : verdict'[r] = "pending"
    BY <1>1, <1>4, <2>1 DEF ConfirmInv, Undecided, LiveMessage, At
  <2>2. ASSUME NEW T \in Asked, messages'[T].state = "closing" /\ messages'[T].heard
        PROVE  T \subseteq consent'
    BY <1>4, <1>5, <2>2 DEF ConfirmInv, Undecided
  <2>3. QED
    BY <1>1, <2>1, <2>2 DEF ConfirmInv, Undecided
<1>7. QED
  BY <1>2, <1>3, <1>6 DEF ConfirmInv

\* What Put and Close write, as a record.
LEMMA PutWrites ==
  ASSUME ConfirmInv, NEW S \in Asked, NEW st, Put(S, st)
  PROVE  messages' = [messages EXCEPT ![S] =
                        [state |-> st, by |-> messages[S].by, heard |-> messages[S].heard]]
<1> DEFINE Sending == [state : {"sending", "open", "replying", "closing", "done"},
                       by : 1..Providers, heard : BOOLEAN]
<1>1. messages[S] \in Sending
  BY DEF ConfirmInv, ConfirmTypes
<1>2. \A m \in Sending :
        [m EXCEPT !.state = st] = [state |-> st, by |-> m.by, heard |-> m.heard]
  OBVIOUS
<1>3. QED
  BY <1>1, <1>2, Zenon DEF Put

LEMMA CloseWrites ==
  ASSUME ConfirmInv, NEW S \in Asked, NEW ok \in BOOLEAN, Close(S, ok)
  PROVE  messages' = [messages EXCEPT ![S] =
                        [state |-> "closing", by |-> messages[S].by, heard |-> ok]]
  BY Zenon DEF Close

\* A message for requests that wait and that no other message asks keeps the
\* invariant (Confirm in Discord, FlushBatch).
LEMMA SendInvariant ==
  ASSUME ConfirmInv, NEW S \in SUBSET Requests, NEW g \in 1..Providers,
         \A T \in Asked : \A r \in S : r \notin T,
         S # {},
         Send(S, g),
         verdict' \in [Requests -> {"none", "pending", "approved", "rejected", "failed"}],
         \A r \in S : verdict'[r] = "pending",
         \A r \in Requests \ S : verdict'[r] = verdict[r],
         batch' \in [1..Providers -> SUBSET Requests],
         \A h \in 1..Providers : batch'[h] \subseteq batch[h] \ S,
         UNCHANGED <<front, up, provider, consent>>
  PROVE  ConfirmInv'
<1> DEFINE new == [state |-> "sending", by |-> g, heard |-> FALSE]
<1>1. S \notin Asked /\ Asked' = Asked \cup {S}
  BY DEF Send, Asked
<1>2. messages'[S] = new /\ \A T \in Asked : messages'[T] = messages[T]
  BY <1>1 DEF Send
<1>3. ConfirmTypes'
  <2>1. messages' \in [Asked' -> [state : {"sending", "open", "replying", "closing", "done"},
                                 by : 1..Providers, heard : BOOLEAN]]
    BY <1>1 DEF Send, ConfirmInv, ConfirmTypes
  <2>2. QED
    BY <1>1, <2>1 DEF ConfirmInv, ConfirmTypes
<1>4. Apart'
  <2>1. ASSUME NEW T \in Asked', NEW U \in Asked', NEW r \in T, r \in U PROVE T = U
    BY <1>1, <2>1 DEF ConfirmInv, Apart
  <2>2. ASSUME NEW h \in 1..Providers, NEW k \in 1..Providers, NEW r \in batch'[h],
               r \in batch'[k]
        PROVE  h = k
    BY <2>2 DEF ConfirmInv, Apart
  <2>3. ASSUME NEW T \in Asked', NEW h \in 1..Providers, NEW r \in T
        PROVE  r \notin batch'[h]
    BY <1>1, <2>3 DEF ConfirmInv, Apart
  <2>4. QED
    BY <2>1, <2>2, <2>3 DEF Apart
<1>5. Undecided'
  <2>1. ASSUME NEW h \in 1..Providers, NEW r \in batch'[h] PROVE verdict'[r] = "pending"
    BY <2>1 DEF ConfirmInv, ConfirmTypes, Undecided
  <2>2. ASSUME NEW T \in Asked', LiveMessage(T)', NEW r \in T PROVE verdict'[r] = "pending"
    <3>1. CASE T = S
      BY <3>1
    <3>2. CASE T # S
      <4>1. T \in Asked /\ r \in Requests \ S
        BY <1>1, <2>2, <3>2 DEF ConfirmInv, ConfirmTypes
      <4>2. QED
        BY <1>2, <2>2, <4>1 DEF ConfirmInv, Undecided, LiveMessage, At
    <3>3. QED
      BY <3>1, <3>2
  <2>3. ASSUME NEW T \in Asked', NEW r \in T PROVE verdict'[r] # "none"
    <3>1. CASE T = S
      BY <3>1
    <3>2. CASE T # S
      <4>1. T \in Asked /\ r \in Requests \ S
        BY <1>1, <2>3, <3>2 DEF ConfirmInv, ConfirmTypes
      <4>2. QED
        BY <4>1 DEF ConfirmInv, Undecided
    <3>3. QED
      BY <3>1, <3>2
  <2>4. ASSUME NEW T \in Asked', messages'[T].state = "closing" /\ messages'[T].heard
        PROVE  T \subseteq consent'
    BY <1>1, <1>2, <2>4 DEF ConfirmInv, Undecided
  <2>5. QED
    BY <2>1, <2>2, <2>3, <2>4 DEF Undecided
<1>6. QED
  BY <1>3, <1>4, <1>5 DEF ConfirmInv

\* A message whose requests are resolved leaves the others alone (SendFails, Decide).
LEMMA ResolveInvariant ==
  ASSUME ConfirmInv, NEW S \in Asked, LiveMessage(S), NEW v \in {"approved", "rejected", "failed"},
         Put(S, "done"), Resolve(S, v),
         UNCHANGED <<front, up, provider, batch, consent>>
  PROVE  ConfirmInv'
<1>1. messages' = [messages EXCEPT ![S] =
                     [state |-> "done", by |-> messages[S].by, heard |-> messages[S].heard]]
  BY PutWrites
<1>2. Asked' = Asked /\ \A T \in Asked : T # S => messages'[T] = messages[T]
  BY <1>1 DEF ConfirmInv, ConfirmTypes, Asked
<1>3. ConfirmTypes'
  <2>1. messages' \in [Asked' -> [state : {"sending", "open", "replying", "closing", "done"},
                                 by : 1..Providers, heard : BOOLEAN]]
    <3>1. messages[S].by \in 1..Providers /\ messages[S].heard \in BOOLEAN
      BY DEF ConfirmInv, ConfirmTypes
    <3>2. QED
      BY <1>1, <1>2, <3>1 DEF ConfirmInv, ConfirmTypes
  <2>2. verdict' \in [Requests -> {"none", "pending", "approved", "rejected", "failed"}]
    BY DEF Resolve, ConfirmInv, ConfirmTypes
  <2>3. QED
    BY <1>2, <2>1, <2>2 DEF ConfirmInv, ConfirmTypes
<1>4. Apart'
  BY <1>2 DEF ConfirmInv, Apart
<1>5. \A r \in Requests : r \notin S => verdict'[r] = verdict[r]
  BY DEF Resolve
<1>6. Undecided'
  <2>1. ASSUME NEW h \in 1..Providers, NEW r \in batch'[h] PROVE verdict'[r] = "pending"
    <3>1. r \in Requests /\ r \notin S
      BY <2>1 DEF ConfirmInv, ConfirmTypes, Apart
    <3>2. QED
      BY <1>5, <2>1, <3>1 DEF ConfirmInv, Undecided
  <2>2. ASSUME NEW T \in Asked, LiveMessage(T)', NEW r \in T PROVE verdict'[r] = "pending"
    <3>1. messages'[S].state = "done"
      BY <1>1 DEF ConfirmInv, ConfirmTypes
    <3>2. T # S
      BY <2>2, <3>1 DEF LiveMessage, At
    <3>3. r \in Requests /\ r \notin S
      BY <2>2, <3>2 DEF ConfirmInv, ConfirmTypes, Apart
    <3>4. QED
      BY <1>2, <1>5, <2>2, <3>2, <3>3 DEF ConfirmInv, Undecided, LiveMessage, At
  <2>3. ASSUME NEW T \in Asked, NEW r \in T PROVE verdict'[r] # "none"
    <3>1. r \in Requests
      BY <2>3 DEF ConfirmInv, ConfirmTypes
    <3>2. QED
      BY <1>5, <2>3, <3>1 DEF ConfirmInv, Undecided, Resolve
  <2>4. ASSUME NEW T \in Asked, messages'[T].state = "closing" /\ messages'[T].heard
        PROVE  T \subseteq consent'
    BY <1>1, <1>2, <2>4 DEF ConfirmInv, ConfirmTypes, Undecided
  <2>5. QED
    BY <1>2, <2>1, <2>2, <2>3, <2>4 DEF Undecided
<1>7. QED
  BY <1>3, <1>4, <1>6 DEF ConfirmInv
\* Every step keeps the invariant.
LEMMA NextInvariant ==
  ASSUME ConfirmInv, [ConfirmNext]_convars PROVE ConfirmInv'
<1>1. CASE UNCHANGED convars
  BY <1>1 DEF convars, ConfirmInv, ConfirmTypes, Apart, Undecided, Asked, LiveMessage, At
<1>2. ASSUME NEW r \in Requests, Confirm(r) PROVE ConfirmInv'
  <2>1. /\ \A S \in Asked : r \notin S
        /\ \A g \in 1..Providers : r \notin batch[g]
    BY <1>2 DEF Confirm, ConfirmInv, Undecided, ConfirmTypes
  <2>2. /\ verdict' \in [Requests -> {"none", "pending", "approved", "rejected", "failed"}]
        /\ verdict'[r] = "pending"
        /\ \A q \in Requests : q # r => verdict'[q] = verdict[q]
    BY <1>2 DEF Confirm, ConfirmInv, ConfirmTypes
  <2>3. CASE front = "telegram"
    <3>1. /\ batch' = [batch EXCEPT ![provider] = @ \cup {r}]
          /\ UNCHANGED <<front, up, provider, messages, consent>>
      BY <1>2, <2>3 DEF Confirm
    <3>2. Asked' = Asked
      BY <3>1 DEF Asked
    <3>3. ConfirmTypes'
      BY <2>2, <3>1, <3>2 DEF ConfirmInv, ConfirmTypes
    <3>4. \A g \in 1..Providers :
            batch'[g] = IF g = provider THEN batch[g] \cup {r} ELSE batch[g]
      BY <3>1 DEF ConfirmInv, ConfirmTypes
    <3>5. Apart'
      BY <2>1, <3>1, <3>2, <3>4 DEF ConfirmInv, Apart
    <3>6. \A S \in Asked : S \subseteq Requests
      BY DEF ConfirmInv, ConfirmTypes
    <3>7. Undecided'
      <4>1. ASSUME NEW g \in 1..Providers, NEW q \in batch'[g] PROVE verdict'[q] = "pending"
        <5>1. CASE q = r
          BY <2>2, <5>1
        <5>2. CASE q # r
          <6>1. q \in batch[g] /\ q \in Requests
            BY <3>4, <4>1, <5>2 DEF ConfirmInv, ConfirmTypes
          <6>2. QED
            BY <2>2, <5>2, <6>1 DEF ConfirmInv, Undecided
        <5>3. QED
          BY <5>1, <5>2
      <4>2. ASSUME NEW S \in Asked, LiveMessage(S)' PROVE \A q \in S : verdict'[q] = "pending"
        BY <2>1, <2>2, <3>1, <3>2, <3>6, <4>2 DEF ConfirmInv, Undecided, LiveMessage, At
      <4>3. ASSUME NEW S \in Asked, NEW q \in S PROVE verdict'[q] # "none"
        BY <2>1, <2>2, <3>6, <4>3 DEF ConfirmInv, Undecided
      <4>4. QED
        BY <3>1, <3>2, <4>1, <4>2, <4>3 DEF ConfirmInv, Undecided
    <3>8. QED
      BY <3>3, <3>5, <3>7 DEF ConfirmInv
  <2>4. CASE front # "telegram"
    <3>1. Send({r}, provider) /\ UNCHANGED <<front, up, provider, batch, consent>>
      BY <1>2, <2>4 DEF Confirm
    <3>2. provider \in 1..Providers /\ batch' \in [1..Providers -> SUBSET Requests]
      BY <3>1 DEF ConfirmInv, ConfirmTypes
    <3>3. \A h \in 1..Providers : batch'[h] \subseteq batch[h] \ {r}
      BY <2>1, <3>1
    <3>4. QED
      BY <2>1, <2>2, <3>1, <3>2, <3>3, SendInvariant
  <2>5. QED
    BY <2>3, <2>4
<1>3. ASSUME NEW g \in 1..Providers, FlushBatch(g) PROVE ConfirmInv'
  <2>1. batch[g] \in SUBSET Requests /\ batch[g] # {} /\ Send(batch[g], g)
    BY <1>3 DEF FlushBatch, ConfirmInv, ConfirmTypes
  <2>2. \A T \in Asked : \A r \in batch[g] : r \notin T
    BY DEF ConfirmInv, Apart
  <2>3. \A r \in batch[g] : verdict'[r] = "pending"
    BY <1>3 DEF FlushBatch, ConfirmInv, Undecided
  <2>4. /\ batch' \in [1..Providers -> SUBSET Requests]
        /\ \A h \in 1..Providers : batch'[h] \subseteq batch[h] \ batch[g]
    BY <1>3 DEF FlushBatch, ConfirmInv, ConfirmTypes, Apart
  <2>5. verdict' \in [Requests -> {"none", "pending", "approved", "rejected", "failed"}]
    BY <1>3 DEF FlushBatch, ConfirmInv, ConfirmTypes
  <2>6. UNCHANGED <<front, up, provider, consent, verdict>>
    BY <1>3 DEF FlushBatch
  <2>7. QED
    BY <2>1, <2>2, <2>3, <2>4, <2>5, <2>6, SendInvariant
<1>4. ASSUME NEW S \in SUBSET Requests, OfMessage(S) PROVE ConfirmInv'
  <2> S \in Asked
    BY <1>4 DEF OfMessage, Sent, SendFails, TapApprove, TapReject, TapDiff, Replied,
                Timeout, Decide, Heard, At
  <2> DEFINE States == {"sending", "open", "replying", "closing"}
  <2>0. messages[S].heard \in BOOLEAN /\ consent \subseteq Requests
    BY DEF ConfirmInv, ConfirmTypes
  <2>1. CASE Sent(S)
    <3>1. LiveMessage(S) /\ Put(S, "open") /\ UNCHANGED <<front, up, provider, batch, verdict, consent>>
      BY <2>1 DEF Sent, LiveMessage, At
    <3>2. QED
      BY <2>0, <3>1, PutWrites, MoveInvariant
  <2>2. CASE SendFails(S)
    <3>1. CASE front = "telegram"
      <4>1. up' = FALSE /\ UNCHANGED <<front, provider, batch, messages, verdict, consent>>
        BY <2>2, <3>1 DEF SendFails
      <4>2. QED
        BY <4>1 DEF ConfirmInv, ConfirmTypes, Apart, Undecided, Asked, LiveMessage, At
    <3>2. CASE front # "telegram"
      <4>1. /\ LiveMessage(S) /\ Put(S, "done") /\ Resolve(S, "failed")
            /\ UNCHANGED <<front, up, provider, batch, consent>>
        BY <2>2, <3>2 DEF SendFails, LiveMessage, At
      <4>2. QED
        BY <4>1, ResolveInvariant
    <3>3. QED
      BY <3>1, <3>2
  <2>3. CASE TapApprove(S)
    <3>1. /\ LiveMessage(S) /\ consent' = consent \cup S
          /\ UNCHANGED <<front, up, provider, batch, verdict>>
      BY <2>3 DEF TapApprove, LiveMessage, At
    <3>2. consent \subseteq consent' /\ consent' \subseteq Requests /\ S \subseteq consent'
      BY <2>0, <3>1
    <3>3. CASE Heard(S)
      <4>1. Close(S, TRUE)
        BY <2>3, <3>3 DEF TapApprove
      <4>2. QED
        BY <3>1, <3>2, <4>1, CloseWrites, MoveInvariant
    <3>4. CASE ~Heard(S)
      <4>1. UNCHANGED messages
        BY <2>3, <3>4 DEF TapApprove
      <4>2. QED
        BY <3>1, <3>2, <4>1 DEF ConfirmInv, ConfirmTypes, Apart, Undecided, Asked, LiveMessage, At
    <3>5. QED
      BY <3>3, <3>4
  <2>4. CASE TapReject(S)
    <3>1. LiveMessage(S) /\ Close(S, FALSE) /\ UNCHANGED <<front, up, provider, batch, verdict, consent>>
      BY <2>4 DEF TapReject, Heard, LiveMessage, At
    <3>2. QED
      BY <2>0, <3>1, CloseWrites, MoveInvariant
  <2>5. CASE TapDiff(S)
    <3>1. LiveMessage(S) /\ Put(S, "replying") /\ UNCHANGED <<front, up, provider, batch, verdict, consent>>
      BY <2>5 DEF TapDiff, Heard, LiveMessage, At
    <3>2. QED
      BY <2>0, <3>1, PutWrites, MoveInvariant
  <2>6. CASE Replied(S)
    <3>1. LiveMessage(S) /\ Put(S, "open") /\ UNCHANGED <<front, up, provider, batch, verdict, consent>>
      BY <2>6 DEF Replied, LiveMessage, At
    <3>2. QED
      BY <2>0, <3>1, PutWrites, MoveInvariant
  <2>7. CASE Timeout(S)
    <3>1. LiveMessage(S) /\ Close(S, FALSE) /\ UNCHANGED <<front, up, provider, batch, verdict, consent>>
      BY <2>7 DEF Timeout, LiveMessage, At
    <3>2. QED
      BY <2>0, <3>1, CloseWrites, MoveInvariant
  <2>8. CASE Decide(S)
    <3>1. /\ LiveMessage(S) /\ Put(S, "done")
          /\ Resolve(S, IF messages[S].heard THEN "approved" ELSE "rejected")
          /\ UNCHANGED <<front, up, provider, batch, consent>>
      BY <2>8 DEF Decide, LiveMessage, At
    <3>2. QED
      BY <3>1, ResolveInvariant
  <2>9. QED
    BY <1>4, <2>1, <2>2, <2>3, <2>4, <2>5, <2>6, <2>7, <2>8 DEF OfMessage
<1>5. CASE NewProvider
  <2>1. provider' = provider + 1 /\ provider < Providers
        /\ UNCHANGED <<front, up, batch, messages, verdict, consent>>
    BY <1>5 DEF NewProvider
  <2>2. provider' \in 1..Providers
    BY <2>1, ConfirmAssumption DEF ConfirmInv, ConfirmTypes
  <2>3. QED
    BY <2>1, <2>2 DEF ConfirmInv, ConfirmTypes, Apart, Undecided, Asked, LiveMessage, At
<1>6. QED
  BY <1>1, <1>2, <1>3, <1>4, <1>5 DEF ConfirmNext

\* Every step is a step of Approval, or changes nothing there.
LEMMA StepsAreApprovals ==
  ASSUME ConfirmInv, [ConfirmNext]_convars
  PROVE  [Promise!ApprovalNext]_<<verdict, consent>>
<1>1. CASE UNCHANGED convars
  BY <1>1 DEF convars
<1>2. ASSUME NEW r \in Requests, Confirm(r) PROVE Promise!Ask(r)
  BY <1>2 DEF Confirm, Promise!Ask
<1>3. ASSUME NEW g \in 1..Providers, FlushBatch(g) PROVE UNCHANGED <<verdict, consent>>
  BY <1>3 DEF FlushBatch
<1>4. ASSUME NEW S \in SUBSET Requests, OfMessage(S)
      PROVE  [Promise!ApprovalNext]_<<verdict, consent>>
  <2>1. CASE TapApprove(S)
    <3>1. Promise!Consent(S)
      BY <2>1 DEF TapApprove, Promise!Consent
    <3>2. QED
      BY <3>1 DEF Promise!ApprovalNext
  <2>2. CASE SendFails(S) /\ front # "telegram"
    <3>1. \A r \in S : verdict[r] = "pending"
      BY <2>2 DEF SendFails, At, ConfirmInv, Undecided, LiveMessage
    <3>2. Promise!Refuse(S)
      BY <2>2, <3>1 DEF SendFails, Resolve, Promise!Refuse
    <3>3. QED
      BY <3>2 DEF Promise!ApprovalNext
  <2>3. CASE Decide(S)
    <3>1. \A r \in S : verdict[r] = "pending"
      BY <2>3 DEF Decide, At, ConfirmInv, Undecided, LiveMessage
    <3>2. CASE messages[S].heard
      <4>1. S \subseteq consent
        BY <2>3, <3>2 DEF Decide, At, ConfirmInv, Undecided
      <4>2. Promise!Approve(S)
        BY <2>3, <3>1, <3>2, <4>1 DEF Decide, Resolve, Promise!Approve
      <4>3. QED
        BY <4>2 DEF Promise!ApprovalNext
    <3>3. CASE ~messages[S].heard
      <4>1. Promise!Refuse(S)
        BY <2>3, <3>1, <3>3 DEF Decide, Resolve, Promise!Refuse
      <4>2. QED
        BY <4>1 DEF Promise!ApprovalNext
    <3>4. QED
      BY <3>2, <3>3
  <2>4. CASE Sent(S) \/ TapReject(S) \/ TapDiff(S) \/ Replied(S) \/ Timeout(S)
             \/ (SendFails(S) /\ front = "telegram")
    BY <2>4 DEF Sent, TapReject, TapDiff, Replied, Timeout, SendFails
  <2>5. QED
    BY <1>4, <2>1, <2>2, <2>3, <2>4 DEF OfMessage
<1>5. CASE NewProvider
  BY <1>5 DEF NewProvider
<1>6. QED
  BY <1>1, <1>2, <1>3, <1>4, <1>5 DEF ConfirmNext, Promise!ApprovalNext

\* Every state has its invariant: messages and batches share no request, what they
\* ask is unanswered, and a decision to approve has the user's consent.
THEOREM ConfirmInvariant == ConfirmSpec => []ConfirmInv
<1>1. ConfirmInit => ConfirmInv
  BY ConfirmStarts
<1>2. ConfirmInv /\ [ConfirmNext]_convars => ConfirmInv'
  BY NextInvariant
<1>3. QED
  BY <1>1, <1>2, PTL DEF ConfirmSpec

\* The providers of both bots keep the promise: a request is answered at most once,
\* and approved only if its user tapped an approving button.
THEOREM ConfirmKeepsPromise == ConfirmSpec => Approvals
<1>1. ConfirmInit => Promise!ApprovalInit
  BY DEF ConfirmInit, Promise!ApprovalInit
<1>2. ConfirmInv /\ [ConfirmNext]_convars => [Promise!ApprovalNext]_<<verdict, consent>>
  BY StepsAreApprovals
<1>3. ConfirmSpec => []ConfirmInv
  BY ConfirmInvariant
<1>4. QED
  BY <1>1, <1>2, <1>3, PTL DEF ConfirmSpec, Approvals, Promise!Approvals

-----------------------------------------------------------------------------
(* The tool servers *)

Askers == Calls \cup {"join"}
Pending == UNION {[ids -> Askers] : ids \in SUBSET Nat}
Link == [of : Servers, open : BOOLEAN, ended : BOOLEAN, next : Nat,
         pending : Pending,
         asked : SUBSET (Nat \X Askers)]

\* The ids a transport has used are behind `next`, and what a server was asked under an
\* id that still waits was asked by the one that waits.
IdsAreOwn(l) ==
  /\ \A id \in DOMAIN l.pending : id < l.next
  /\ \A q \in l.asked : /\ q[1] < l.next
                        /\ q[1] \in DOMAIN l.pending => l.pending[q[1]] = q[2]

Links == {l \in Link : IdsAreOwn(l)}

ServersTypes ==
  /\ link \in Seq(Links) /\ boot \in Seq(Servers)
  /\ \A s \in Servers : entry[s].link \in 0..Len(link)
  /\ DOMAIN entry = Servers

ServersInv == ServersTypes /\ AnswersOwn

-----------------------------------------------------------------------------
(* Transports *)

LEMMA LinkHas ==
  ASSUME NEW l \in Links
  PROVE  /\ l.of \in Servers /\ l.open \in BOOLEAN /\ l.ended \in BOOLEAN /\ l.next \in Nat
         /\ DOMAIN l.pending \in SUBSET Nat /\ l.pending \in [DOMAIN l.pending -> Askers]
         /\ l.asked \in SUBSET (Nat \X Askers)
         /\ IdsAreOwn(l)
<1>1. l \in Link /\ IdsAreOwn(l)
  BY DEF Links
<1>2. /\ l.of \in Servers /\ l.open \in BOOLEAN /\ l.ended \in BOOLEAN /\ l.next \in Nat
      /\ l.asked \in SUBSET (Nat \X Askers)
      /\ l.pending \in Pending
  BY <1>1 DEF Link
<1>3. PICK ids \in SUBSET Nat : l.pending \in [ids -> Askers]
  BY <1>2 DEF Pending
<1>4. DOMAIN l.pending = ids
  BY <1>3
<1> QED BY <1>1, <1>2, <1>3, <1>4

\* A function from ids to askers is one that `pending` can be.
LEMMA PendingIs ==
  ASSUME NEW ids \in SUBSET Nat, NEW f \in [ids -> Askers]
  PROVE  f \in Pending
  BY DEF Pending

LEMMA SpawnedIsLink == ASSUME NEW s \in Servers PROVE Spawned(s) \in Links
<1> DEFINE l == Spawned(s)
           p == [i \in {1} |-> "join"]
<1>1. p \in Pending
  <2>1. p \in [{1} -> Askers]
    BY DEF Askers
  <2>2. {1} \in SUBSET Nat
    OBVIOUS
  <2> HIDE DEF p
  <2> QED BY <2>1, <2>2, PendingIs
<1>2. l \in Link
  BY <1>1 DEF Spawned, Link, Askers
<1>3. IdsAreOwn(l)
  BY DEF Spawned, IdsAreOwn
<1> QED BY <1>2, <1>3 DEF Links

\* Requests are added, and end, without one coming to stand for another.
LEMMA RequestedIsLink ==
  ASSUME NEW l \in Links, NEW who \in Askers
  PROVE  Requested(l, l.next, who) \in Links
<1> DEFINE p == [i \in DOMAIN l.pending \cup {l.next} |-> IF i = l.next THEN who ELSE l.pending[i]]
           a == l.asked \cup {<<l.next, who>>}
           k == Requested(l, l.next, who)
<1>1. /\ l.next \in Nat /\ DOMAIN l.pending \in SUBSET Nat
      /\ l.pending \in [DOMAIN l.pending -> Askers]
      /\ l.asked \in SUBSET (Nat \X Askers) /\ IdsAreOwn(l)
  BY LinkHas
<1>2. p \in Pending
  <2>1. DOMAIN l.pending \cup {l.next} \in SUBSET Nat
    BY <1>1
  <2>2. p \in [DOMAIN l.pending \cup {l.next} -> Askers]
    BY <1>1
  <2> QED BY <2>1, <2>2, PendingIs
<1>3. l \in Link
  BY DEF Links
<1>4. k = [l EXCEPT !.pending = p, !.asked = a, !.next = l.next + 1]
  BY DEF Requested
<1>5. a \in SUBSET (Nat \X Askers)
  BY <1>1
<1>6. k \in Link /\ k.pending = p /\ k.asked = a /\ k.next = l.next + 1
  <2>1. l.next + 1 \in Nat
    BY <1>1
  <2> HIDE DEF p, a, k
  <2> QED BY <1>2, <1>3, <1>4, <1>5, <2>1 DEF Link
<1>7. IdsAreOwn(k)
  <2>1. \A id \in DOMAIN p : id < l.next + 1
    BY <1>1 DEF IdsAreOwn
  <2>2. ASSUME NEW q \in a
        PROVE  q[1] < l.next + 1 /\ (q[1] \in DOMAIN p => p[q[1]] = q[2])
    <3>1. CASE q \in l.asked
      <4>1. q[1] < l.next /\ (q[1] \in DOMAIN l.pending => l.pending[q[1]] = q[2]) /\ q[1] \in Nat
        BY <1>1, <3>1 DEF IdsAreOwn
      <4> QED BY <1>1, <4>1
    <3>2. CASE q = <<l.next, who>>
      BY <1>1, <3>2
    <3> QED BY <3>1, <3>2
  <2> HIDE DEF p, a, k
  <2> QED BY <1>6, <2>1, <2>2 DEF IdsAreOwn
<1> QED BY <1>6, <1>7 DEF Links

\* A transport with fewer requests, closed or not.
Fewer(l, k) ==
  /\ k \in [of : {l.of}, open : BOOLEAN, ended : BOOLEAN, next : {l.next},
            pending : {[i \in ids |-> l.pending[i]] : ids \in SUBSET DOMAIN l.pending},
            asked : SUBSET l.asked]

LEMMA FewerIsLink ==
  ASSUME NEW l \in Links, NEW k, Fewer(l, k)
  PROVE  k \in Links /\ k.next = l.next /\ k.of = l.of
<1>1. /\ l.of \in Servers /\ l.next \in Nat /\ DOMAIN l.pending \in SUBSET Nat
      /\ l.pending \in [DOMAIN l.pending -> Askers]
      /\ l.asked \in SUBSET (Nat \X Askers) /\ IdsAreOwn(l)
  BY LinkHas
<1>2. PICK ids \in SUBSET DOMAIN l.pending : k.pending = [i \in ids |-> l.pending[i]]
  BY DEF Fewer
<1>3. k.pending \in Pending
  <2>1. ids \in SUBSET Nat /\ k.pending \in [ids -> Askers]
    BY <1>1, <1>2
  <2> QED BY <2>1, PendingIs
<1>4. k.asked \subseteq l.asked /\ k.next = l.next /\ k.of = l.of
  BY DEF Fewer
<1>5. k \in Link
  BY <1>1, <1>3, <1>4 DEF Fewer, Link
<1>6. IdsAreOwn(k)
  BY <1>1, <1>2, <1>4 DEF IdsAreOwn
<1> QED BY <1>4, <1>5, <1>6 DEF Links

\* What answers, timers and ends of a transport leave of it.
LEMMA HungUpIsLink ==
  ASSUME NEW l \in Links
  PROVE  HungUp(l) \in Links /\ HungUp(l).next = l.next /\ HungUp(l).of = l.of
<1>1. l \in Link /\ l.pending = [i \in DOMAIN l.pending |-> l.pending[i]]
  BY LinkHas DEF Links
<1>2. CASE l.of \in Http
  BY <1>2 DEF HungUp
<1>3. CASE l.of \notin Http
  <2>1. HungUp(l) = [l EXCEPT !.open = FALSE]
    BY <1>3 DEF HungUp
  <2>2. Fewer(l, HungUp(l))
    BY <1>1, <2>1 DEF Link, Fewer
  <2> QED BY <2>2, FewerIsLink
<1> QED BY <1>2, <1>3

LEMMA WithoutIsFewer ==
  ASSUME NEW l \in Links, NEW id, NEW gone
  PROVE  /\ Fewer(l, [l EXCEPT !.asked = @ \ gone, !.pending = Without(@, id)])
         /\ Fewer(l, [l EXCEPT !.pending = Without(@, id), !.asked = @ \ gone])
<1>1. l \in Link
  BY DEF Links
<1>2. Without(l.pending, id) \in
        {[i \in ids |-> l.pending[i]] : ids \in SUBSET DOMAIN l.pending}
  BY DEF Without
<1>3. l.asked \ gone \in SUBSET l.asked
  OBVIOUS
<1> DEFINE p == Without(l.pending, id)
<1> HIDE DEF p
<1> QED BY <1>1, <1>2, <1>3 DEF Link, Fewer, p

LEMMA EmptiedIsFewer ==
  ASSUME NEW l \in Links
  PROVE  /\ Fewer(l, [l EXCEPT !.open = FALSE, !.ended = TRUE, !.asked = {},
                               !.pending = [i \in {} |-> "join"]])
         /\ Fewer(l, [l EXCEPT !.open = FALSE, !.pending = [i \in {} |-> "join"]])
<1>1. l \in Link
  BY DEF Links
<1>2. [i \in {} |-> "join"] \in
        {[i \in ids |-> l.pending[i]] : ids \in SUBSET DOMAIN l.pending}
  <2>1. [i \in {} |-> "join"] = [i \in {} |-> l.pending[i]]
    OBVIOUS
  <2> QED BY <2>1
<1> DEFINE p == [i \in {} |-> "join"]
<1> HIDE DEF p
<1> QED BY <1>1, <1>2 DEF Link, Fewer, p

-----------------------------------------------------------------------------
(* Steps *)

\* The connections after a step: there are only more of them.
Connected ==
  /\ link' \in Seq(Links) /\ Len(link') >= Len(link) /\ boot' \in Seq(Servers)
  /\ DOMAIN entry' = Servers
  /\ \A s \in Servers : entry'[s].link \in 0..Len(link')

LEMMA ConnectedKeeps == ASSUME Connected PROVE ServersTypes'
  BY DEF Connected, ServersTypes, Links, IdsAreOwn, Link, Pending, Askers, Servers

\* Transport t changes to k.
LEMMA ChangedLink ==
  ASSUME NEW ls \in Seq(Links), NEW t \in 1..Len(ls), NEW k \in Links
  PROVE  /\ [ls EXCEPT ![t] = k] \in Seq(Links)
         /\ Len([ls EXCEPT ![t] = k]) = Len(ls)
         /\ [ls EXCEPT ![t] = k][t] = k
<1>1. \A j \in 1..Len(ls) : [ls EXCEPT ![t] = k][j] = IF j = t THEN k ELSE ls[j]
  BY ExceptSeq
<1> QED BY <1>1, ExceptSeq

LEMMA SameEntries ==
  ASSUME ServersTypes, UNCHANGED <<entry, boot>>, link' \in Seq(Links), Len(link') >= Len(link)
  PROVE  Connected
<1>1. Len(link) \in Nat /\ Len(link') \in Nat
  BY DEF ServersTypes
<1>2. \A s \in Servers : entry[s].link \in 0..Len(link')
  BY <1>1 DEF ServersTypes
<1> QED BY <1>2 DEF ServersTypes, Connected

LEMMA SameLinks ==
  ASSUME ServersTypes, UNCHANGED <<link, entry, boot>>
  PROVE  Connected
<1>1. Len(link) \in Nat
  BY DEF ServersTypes
<1> QED BY <1>1, SameEntries DEF ServersTypes

\* A handshake that goes on, succeeds or fails. The transports `ls` are those there are
\* once its request has ended.
LEMMA JoinKeeps ==
  ASSUME ServersTypes, NEW t \in 1..Len(link), NEW ls \in Seq(Links), NEW ok,
         Len(ls) = Len(link), ls[t].next = link[t].next, JoinMoves(t, ls, ok)
  PROVE  Connected
<1>1. Len(link) \in Nat /\ ls[t] \in Links /\ ls[t].of \in Servers
  BY ElementOfSeq, LinkHas DEF ServersTypes
<1>2. Booted \in Seq(Servers)
  BY DEF Booted, ServersTypes
<1>3. HungUp(ls[t]) \in Links
  BY <1>1, HungUpIsLink
<1>4. Requested(ls[t], NextId(t), "join") \in Links
  BY <1>1, RequestedIsLink DEF NextId, Askers
<1>5. CASE boot' = Booted /\ entry' = entry /\ link' = ls
  BY <1>1, <1>2, <1>5 DEF ServersTypes, Connected
<1>6. ASSUME NEW connected, NEW tools, boot' = Booted,
             entry' = [entry EXCEPT ![ls[t].of] = [link |-> t, connected |-> connected,
                                                   tools |-> tools]],
             link' = ls \/ link' = [ls EXCEPT ![t] = HungUp(@)]
      PROVE  Connected
  <2>1. link' \in Seq(Links) /\ Len(link') = Len(link)
    BY <1>1, <1>3, <1>6, ChangedLink
  <2>2. DOMAIN entry' = Servers /\ \A s \in Servers : entry'[s].link \in 0..Len(link)
    BY <1>1, <1>6 DEF ServersTypes
  <2> QED BY <1>1, <1>2, <1>6, <2>1, <2>2 DEF Connected
<1>7. CASE UNCHANGED <<entry, boot>>
           /\ link' = [ls EXCEPT ![t] = Requested(@, NextId(t), "join")]
  <2>1. link' \in Seq(Links) /\ Len(link') = Len(link)
    BY <1>4, <1>7, ChangedLink
  <2> QED BY <1>1, <1>7, <2>1, SameEntries
<1>8. CASE ls[t].of \in Lsp
  BY <1>5, <1>6, <1>8 DEF JoinMoves, Started
<1>9. CASE ls[t].of \notin Lsp /\ joining[t] = "initialize" /\ ls[t].open
  BY <1>7, <1>9 DEF JoinMoves
<1>10. CASE ls[t].of \notin Lsp /\ ~(joining[t] = "initialize" /\ ls[t].open)
  BY <1>6, <1>10 DEF JoinMoves, Joined
<1> QED BY <1>8, <1>9, <1>10

\* Requests of t end: calls that are answered get what was asked for them, or nothing.
LEMMA EndKeeps ==
  ASSUME ServersInv, NEW t \in 1..Len(link), NEW k, Fewer(link[t], k),
         NEW who, NEW how, NEW by, End(t, [link EXCEPT ![t] = k], who, how, by),
         how = "answered" => by = "request" \/ \A c \in who : c = by
  PROVE  ServersInv'
<1> DEFINE ls == [link EXCEPT ![t] = k]
<1>1. link \in Seq(Links) /\ Len(link) \in Nat /\ link[t] \in Links /\ ServersTypes
  BY ElementOfSeq DEF ServersInv, ServersTypes
<1>2. k \in Links /\ k.next = link[t].next
  BY <1>1, FewerIsLink
<1>3. ls \in Seq(Links) /\ Len(ls) = Len(link) /\ ls[t] = k
  BY <1>1, <1>2, ChangedLink
<1> HIDE DEF ls
<1>4. CASE "join" \in who
  <2>1. JoinMoves(t, ls, how = "answered") /\ UNCHANGED call
    BY <1>4 DEF End, ls
  <2>2. Connected
    BY <1>1, <1>2, <1>3, <2>1, JoinKeeps
  <2> QED BY <2>1, <2>2, ConnectedKeeps DEF ServersInv, AnswersOwn
<1>5. CASE "join" \notin who
  <2>1. link' = ls /\ Settle(who, how, by) /\ UNCHANGED <<entry, boot>>
    BY <1>5 DEF End, ls
  <2>2. Connected
    BY <1>1, <1>3, <2>1, SameEntries
  <2>3. AnswersOwn'
    BY <2>1 DEF ServersInv, AnswersOwn, Settle
  <2> QED BY <2>2, <2>3, ConnectedKeeps DEF ServersInv
<1> QED BY <1>4, <1>5

LEMMA MovesKeep ==
  ASSUME ServersInv, NEW t \in 1..Len(link), Moves(t)
  PROVE  ServersInv'
<1>1. link \in Seq(Links) /\ link[t] \in Links /\ t \in DOMAIN link
  BY ElementOfSeq DEF ServersInv, ServersTypes
<1>2. ASSUME NEW id, TimedOut(t, id)
      PROVE  ServersInv'
  <2> DEFINE k == [link[t] EXCEPT !.pending = Without(@, id), !.asked = @ \ {<<id, "join">>}]
  <2>1. Fewer(link[t], k)
    BY <1>1, WithoutIsFewer
  <2>2. [link EXCEPT ![t].pending = Without(@, id), ![t].asked = @ \ {<<id, "join">>}]
          = [link EXCEPT ![t] = k]
    BY <1>1
  <2>3. End(t, [link EXCEPT ![t] = k], {link[t].pending[id]}, "failed", "none")
    BY <1>2, <2>2 DEF TimedOut
  <2> HIDE DEF k
  <2> QED BY <2>1, <2>3, EndKeeps
<1>3. ASSUME NEW q \in link[t].asked, NEW ok \in BOOLEAN, Answer(t, q[1], q[2], ok)
      PROVE  ServersInv'
  <2> DEFINE k == [link[t] EXCEPT !.asked = @ \ {<<q[1], q[2]>>}, !.pending = Without(@, q[1])]
             heard == q[1] \in DOMAIN link[t].pending
             who == IF heard THEN {link[t].pending[q[1]]} ELSE {}
             how == IF ok THEN "answered" ELSE "failed"
  <2>1. Fewer(link[t], k)
    BY <1>1, WithoutIsFewer
  <2>2. [link EXCEPT ![t].asked = @ \ {<<q[1], q[2]>>}, ![t].pending = Without(@, q[1])]
          = [link EXCEPT ![t] = k]
    BY <1>1
  <2>3. End(t, [link EXCEPT ![t] = k], who, how, q[2])
    BY <1>3, <2>2 DEF Answer
  <2>4. \A c \in who : c = q[2]
    BY <1>1, LinkHas DEF IdsAreOwn
  <2> HIDE DEF k, who, how
  <2> QED BY <2>1, <2>3, <2>4, EndKeeps
<1>5. ASSUME NEW id, ServerAsks(t, id)
      PROVE  ServersInv'
  <2> DEFINE k == [link[t] EXCEPT !.pending = Without(@, id), !.asked = @ \ {<<id, "join">>}]
  <2>1. Fewer(link[t], k)
    BY <1>1, WithoutIsFewer
  <2>2. [link EXCEPT ![t].pending = Without(@, id), ![t].asked = @ \ {<<id, "join">>}]
          = [link EXCEPT ![t] = k]
    BY <1>1
  <2>3. End(t, [link EXCEPT ![t] = k], {link[t].pending[id]}, "answered", "request")
    BY <1>5, <2>2 DEF ServerAsks
  <2> HIDE DEF k
  <2> QED BY <2>1, <2>3, EndKeeps
<1>4. CASE CloseEvent(t)
  <2> DEFINE k == [link[t] EXCEPT !.open = FALSE, !.ended = TRUE, !.asked = {},
                                  !.pending = [i \in {} |-> "join"]]
  <2>1. Fewer(link[t], k)
    BY <1>1, EmptiedIsFewer
  <2>2. [link EXCEPT ![t].open = FALSE, ![t].ended = TRUE, ![t].asked = {},
                     ![t].pending = [i \in {} |-> "join"]]
          = [link EXCEPT ![t] = k]
    BY <1>1
  <2>3. End(t, [link EXCEPT ![t] = k], Waiting(t), "failed", "none")
    BY <1>4, <2>2 DEF CloseEvent
  <2> HIDE DEF k
  <2> QED BY <2>1, <2>3, EndKeeps
<1> QED BY <1>2, <1>3, <1>4, <1>5 DEF Moves

\* A new transport is spawned.
LEMMA SpawnKeeps ==
  ASSUME ServersTypes, NEW s \in Servers, NEW ls \in Seq(Links), Len(ls) = Len(link),
         link' = Append(ls, Spawned(s)), UNCHANGED <<entry, boot>>
  PROVE  Connected
<1>1. Spawned(s) \in Links
  BY SpawnedIsLink
<1>2. link' \in Seq(Links) /\ Len(link') = Len(link) + 1 /\ Len(link) \in Nat
  BY <1>1 DEF ServersTypes
<1>3. Len(link') >= Len(link)
  BY <1>2
<1> QED BY <1>2, <1>3, SameEntries

LEMMA ConnectKeeps == ASSUME ServersInv, Connect PROVE ServersInv'
<1>1. Head(boot) \in Servers
  BY DEF Connect, ServersInv, ServersTypes
<1>2. link' = Append(link, Spawned(Head(boot))) /\ UNCHANGED <<entry, boot, call>>
  BY DEF Connect
<1>3. Connected
  BY <1>1, <1>2, SpawnKeeps DEF ServersInv, ServersTypes
<1> QED BY <1>2, <1>3, ConnectedKeeps DEF ServersInv, AnswersOwn

LEMMA RestartKeeps == ASSUME ServersInv, NEW s \in Servers, Restart(s) PROVE ServersInv'
<1> DEFINE t == entry[s].link
           ls == [link EXCEPT ![t] = HungUp(@)]
<1>1. link \in Seq(Links) /\ t \in 1..Len(link) /\ link[t] \in Links
  BY ElementOfSeq DEF Restart, ServersInv, ServersTypes
<1>2. HungUp(link[t]) \in Links
  BY <1>1, HungUpIsLink
<1>3. ls \in Seq(Links) /\ Len(ls) = Len(link)
  BY <1>1, <1>2, ChangedLink
<1>4. link' = Append(ls, Spawned(s)) /\ UNCHANGED <<entry, boot, call>>
  BY DEF Restart
<1> HIDE DEF ls
<1>5. Connected
  BY <1>3, <1>4, SpawnKeeps DEF ServersInv
<1> QED BY <1>4, <1>5, ConnectedKeeps DEF ServersInv, AnswersOwn

LEMMA AskKeeps ==
  ASSUME ServersInv, NEW c \in Calls, NEW s \in Servers, Ask(c, s), UNCHANGED <<entry, boot>>
  PROVE  ServersInv'
<1> DEFINE t == entry[s].link
<1>1. AnswersOwn'
  BY DEF Ask, Settle, ServersInv, AnswersOwn
<1>2. CASE Reachable(s)
  <2>1. link \in Seq(Links) /\ t \in 1..Len(link) /\ link[t] \in Links /\ Len(link) \in Nat
    BY <1>2, ElementOfSeq DEF Reachable, ServersInv, ServersTypes
  <2>2. Requested(link[t], NextId(t), c) \in Links
    BY <2>1, RequestedIsLink DEF NextId, Askers
  <2>3. link' = [link EXCEPT ![t] = Requested(link[t], NextId(t), c)]
    BY <1>2 DEF Ask
  <2>4. link' \in Seq(Links) /\ Len(link') = Len(link)
    BY <2>1, <2>2, <2>3, ChangedLink
  <2>5. Connected
    BY <2>1, <2>4, SameEntries DEF ServersInv
  <2> QED BY <1>1, <2>5, ConnectedKeeps DEF ServersInv
<1>3. CASE ~Reachable(s)
  <2>1. UNCHANGED link
    BY <1>3 DEF Ask
  <2>2. Connected
    BY <2>1, SameLinks DEF ServersInv
  <2> QED BY <1>1, <2>2, ConnectedKeeps DEF ServersInv
<1> QED BY <1>2, <1>3

LEMMA CallsKeep ==
  ASSUME ServersInv, NEW c \in Calls, CallTool(c) \/ CallLsp(c), Lsp \subseteq Servers
  PROVE  ServersInv'
<1>1. UNCHANGED <<entry, boot>>
  BY DEF CallTool, CallLsp
<1>2. CASE \E s \in Servers : Ask(c, s)
  BY <1>1, <1>2, AskKeeps
<1>3. CASE Settle({c}, "failed", "none") /\ UNCHANGED link
  <2>1. Connected
    BY <1>1, <1>3, SameLinks DEF ServersInv
  <2>2. AnswersOwn'
    BY <1>3 DEF Settle, ServersInv, AnswersOwn
  <2> QED BY <2>1, <2>2, ConnectedKeeps DEF ServersInv
<1> QED BY <1>2, <1>3 DEF CallTool, CallLsp

LEMMA CloseKeeps == ASSUME ServersInv, CloseServers PROVE ServersInv'
<1> DEFINE ours == {entry[s].link : s \in Servers} \ {0}
           stopped == {entry[s].link : s \in Lsp} \ {0}
           after(t) == IF t \in stopped
                       THEN [link[t] EXCEPT !.open = FALSE, !.pending = [i \in {} |-> "join"]]
                       ELSE IF t \in ours THEN HungUp(link[t]) ELSE link[t]
<1>1. link \in Seq(Links) /\ Len(link) \in Nat
  BY DEF ServersInv, ServersTypes
<1>2. \A t \in 1..Len(link) : after(t) \in Links
  <2> SUFFICES ASSUME NEW t \in 1..Len(link) PROVE after(t) \in Links
    OBVIOUS
  <2>1. link[t] \in Links
    BY <1>1, ElementOfSeq
  <2>2. HungUp(link[t]) \in Links
    BY <2>1, HungUpIsLink
  <2>3. [link[t] EXCEPT !.open = FALSE, !.pending = [i \in {} |-> "join"]] \in Links
    BY <2>1, EmptiedIsFewer, FewerIsLink
  <2> HIDE DEF ours, stopped
  <2> QED BY <2>1, <2>2, <2>3
<1>3. /\ link' = [t \in 1..Len(link) |-> after(t)]
      /\ Settle(UNION {Waiting(t) : t \in stopped}, "failed", "none")
      /\ entry' = [s \in Servers |-> IF s \in Lsp THEN Absent ELSE entry[s]]
      /\ UNCHANGED boot
  BY DEF CloseServers
<1> HIDE DEF after, stopped
<1>4. link' \in Seq(Links) /\ Len(link') = Len(link)
  BY <1>1, <1>2, <1>3
<1>5. DOMAIN entry' = Servers /\ \A s \in Servers : entry'[s].link \in 0..Len(link)
  BY <1>1, <1>3 DEF ServersInv, ServersTypes, Absent
<1>6. Connected
  BY <1>1, <1>3, <1>4, <1>5 DEF Connected, ServersInv, ServersTypes
<1>7. AnswersOwn'
  BY <1>3 DEF Settle, ServersInv, AnswersOwn
<1> QED BY <1>6, <1>7, ConnectedKeeps DEF ServersInv

LEMMA TogglesKeep ==
  ASSUME ServersInv, EnableTool \/ DisableTool \/ UNCHANGED tsvars
  PROVE  ServersInv'
<1>1. UNCHANGED <<link, entry, boot, call>>
  BY DEF EnableTool, DisableTool, tsvars
<1>2. Connected
  BY <1>1, SameLinks DEF ServersInv
<1> QED BY <1>1, <1>2, ConnectedKeeps DEF ServersInv, AnswersOwn

-----------------------------------------------------------------------------
LEMMA ServersStart == ASSUME Configured \in Seq(Servers), ServersInit PROVE ServersInv
<1>1. link \in Seq(Links) /\ Len(link) = 0
  BY EmptySeq DEF ServersInit
<1>2. \A s \in Servers : entry[s].link \in 0..Len(link)
  BY <1>1 DEF ServersInit, Absent
<1>3. ServersTypes
  BY <1>1, <1>2 DEF ServersTypes, ServersInit
<1>4. AnswersOwn
  BY DEF AnswersOwn, ServersInit
<1> QED BY <1>3, <1>4 DEF ServersInv

LEMMA ServersKeep ==
  ASSUME Lsp \subseteq Servers
  PROVE  ServersInv /\ [ServersNext]_tsvars => ServersInv'
<1> SUFFICES ASSUME ServersInv, [ServersNext]_tsvars PROVE ServersInv'
  OBVIOUS
<1>1. CASE Connect
  BY <1>1, ConnectKeeps
<1>2. CASE \E t \in 1..Len(link) : Moves(t)
  BY <1>2, MovesKeep
<1>3. CASE \E c \in Calls : CallTool(c) \/ CallLsp(c)
  BY <1>3, CallsKeep
<1>4. CASE \E s \in Servers : Restart(s)
  BY <1>4, RestartKeeps
<1>5. CASE CloseServers
  BY <1>5, CloseKeeps
<1>6. CASE EnableTool \/ DisableTool \/ UNCHANGED tsvars
  BY <1>6, TogglesKeep
<1> QED BY <1>1, <1>2, <1>3, <1>4, <1>5, <1>6 DEF ServersNext

\* Ids are never used again, so that what is still asked under one that waits was asked
\* by the call that waits.
THEOREM ServersInvariant ==
  ASSUME Configured \in Seq(Servers), Lsp \subseteq Servers
  PROVE  ServersSpec => []ServersInv
<1>1. ServersInit => ServersInv
  BY ServersStart
<1>2. ServersInv /\ [ServersNext]_tsvars => ServersInv'
  BY ServersKeep
<1> QED BY <1>1, <1>2, PTL DEF ServersSpec

\* A tool call never gets the answer of another one (handleParsedMessage), however late
\* that comes, through whatever restarts and whatever requests the servers make.
THEOREM AnswersAreOwn ==
  ASSUME Configured \in Seq(Servers), Lsp \subseteq Servers
  PROVE  ServersSpec => []AnswersOwn
<1>1. ServersInv => AnswersOwn
  BY DEF ServersInv
<1> QED BY <1>1, ServersInvariant, PTL

-----------------------------------------------------------------------------
(* The plugins *)

\* The data that p may get.
MayHave(p) == {"observe"} \cup (wants[p] \cap allowed)

Handler == {h \in [of : Plugins, capabilities : SUBSET ({"observe"} \cup allowed)] :
              h.capabilities \subseteq MayHave(h.of)}
Telling == [event : Events, at : Nat, began : Nat, state : {"running", "done", "threw"}]

HooksTypes ==
  /\ strict \in BOOLEAN /\ "observe" \in allowed
  /\ position \in Nat \ {0} /\ loaded \in Seq(Plugins)
  /\ handlers \in [Events -> Seq(Handler)]
  /\ emits \in Seq(Telling)
  /\ alive \in BOOLEAN /\ unset \in BOOLEAN

\* What is granted was requested and is allowed.
GrantsMeet == granted \in [Plugins -> SUBSET ({"observe"} \cup allowed)]
              /\ \A p \in Plugins : granted[p] \subseteq MayHave(p)

\* A dispatch is at one of its handlers, and handlers are never taken away.
DispatchesInside ==
  \A i \in DOMAIN emits :
    LET d == emits[i] n == Len(handlers[d.event])
    IN  /\ d.began <= n
        /\ d.state = "running" => d.at \in 1..n

HooksInv == HooksTypes /\ GrantsMeet /\ DispatchesInside /\ DataIsGranted /\ FailuresStayApart

-----------------------------------------------------------------------------
\* Capabilities that p may have make handlers of p.
LEMMA OwnHandler == ASSUME NEW p \in Plugins, NEW c \in SUBSET MayHave(p)
                    PROVE  [of |-> p, capabilities |-> c] \in Handler
  BY DEF Handler, MayHave

\* What is granted of a request of p's.
LEMMA GrantedMeets == ASSUME NEW p \in Plugins, "observe" \in allowed
                      PROVE  /\ Granted(Clamped(wants[p])) \subseteq MayHave(p)
                             /\ Granted(Clamped(wants[p])) \subseteq {"observe"} \cup allowed
  BY DEF Granted, Clamped, MayHave

\* on() adds handlers behind those that are there, with the capabilities it is given.
LEMMA HandlersGrow ==
  ASSUME NEW p \in Plugins, NEW events \in Seq(Events), NEW c \in SUBSET MayHave(p),
         handlers \in [Events -> Seq(Handler)]
  PROVE  /\ WithHandlers(p, events, c) \in [Events -> Seq(Handler)]
         /\ \A e \in Events : Len(WithHandlers(p, events, c)[e]) >= Len(handlers[e])
<1> DEFINE h == [of |-> p, capabilities |-> c]
           count(e) == Cardinality({i \in DOMAIN events : events[i] = e})
           added(e) == [n \in 1..count(e) |-> h]
<1>1. h \in Handler
  BY OwnHandler
<1>2. ASSUME NEW e \in Events
      PROVE  /\ handlers[e] \o added(e) \in Seq(Handler)
             /\ Len(handlers[e] \o added(e)) >= Len(handlers[e])
  <2>1. IsFiniteSet(DOMAIN events)
    <3>1. DOMAIN events = 1..Len(events) /\ Len(events) \in Nat
      OBVIOUS
    <3> QED BY <3>1, FS_Interval
  <2>2. count(e) \in Nat
    <3>1. IsFiniteSet({i \in DOMAIN events : events[i] = e})
      BY <2>1, FS_Subset
    <3> QED BY <3>1, FS_CardinalityType
  <2> HIDE DEF h, count
  <2>3. added(e) \in Seq(Handler)
    BY <1>1, <2>2
  <2>4. handlers[e] \in Seq(Handler)
    OBVIOUS
  <2> HIDE DEF added
  <2>5. /\ handlers[e] \o added(e) \in Seq(Handler)
        /\ Len(handlers[e] \o added(e)) = Len(handlers[e]) + Len(added(e))
    BY <2>3, <2>4, ConcatProperties
  <2>6. Len(handlers[e]) \in Nat /\ Len(added(e)) \in Nat
    BY <2>3, <2>4
  <2> QED BY <2>5, <2>6
<1>3. WithHandlers(p, events, c) = [e \in Events |-> handlers[e] \o added(e)]
  BY DEF WithHandlers
<1> HIDE DEF added
<1> QED BY <1>2, <1>3

\* A handler is shown what its plugin may have: "observe" spares no field.
LEMMA ShownIsGranted ==
  ASSUME NEW h \in Handler, NEW e
  PROVE  \A s \in Shown(h, e) : s[2] \in DOMAIN Redacted => Redacted[s[2]] \in wants[s[1]] \cap allowed
<1>1. \A f \in DOMAIN Redacted : Redacted[f] # "observe"
  BY DEF Redacted
<1>2. h.capabilities \subseteq {"observe"} \cup (wants[h.of] \cap allowed)
  BY DEF Handler, MayHave
<1> SUFFICES ASSUME NEW f \in Fields[e], f \in DOMAIN Redacted, Redacted[f] \in h.capabilities
             PROVE  Redacted[f] \in wants[h.of] \cap allowed
  BY DEF Shown
<1> QED BY <1>1, <1>2

-----------------------------------------------------------------------------
LEMMA HooksStart == HooksInit => HooksInv
<1> SUFFICES ASSUME HooksInit PROVE HooksInv
  OBVIOUS
<1> USE DEF HooksInit
<1>1. HooksTypes
  <2>1. /\ handlers \in [Events -> Seq(Handler)]
        /\ emits \in Seq(Telling) /\ loaded \in Seq(Plugins)
    BY EmptySeq
  <2>2. "observe" \in allowed
    OBVIOUS
  <2>3. position \in Nat \ {0}
    OBVIOUS
  <2>4. strict \in BOOLEAN /\ alive \in BOOLEAN /\ unset \in BOOLEAN
    OBVIOUS
  <2> HIDE DEF HooksInit
  <2> QED BY <2>1, <2>2, <2>3, <2>4 DEF HooksTypes
<1>2. GrantsMeet
  BY DEF GrantsMeet
<1>3. DispatchesInside
  BY DEF DispatchesInside
<1>4. DataIsGranted /\ FailuresStayApart
  BY DEF DataIsGranted, FailuresStayApart
<1> QED BY <1>1, <1>2, <1>3, <1>4 DEF HooksInv

\* A step that leaves handlers, grants, dispatches and what was seen alone.
LEMMA LoadingKeeps ==
  ASSUME HooksInv, position' \in Nat \ {0}, loaded' \in Seq(Plugins), unset' \in BOOLEAN,
         UNCHANGED <<config, granted, handlers, emits, alive, seen>>,
         ~strict => (stage' = "failed" => unset')
  PROVE  HooksInv'
<1> USE DEF config
<1>1. Handler' = Handler
  BY DEF Handler, MayHave
<1>2. HooksTypes'
  BY <1>1 DEF HooksInv, HooksTypes
<1>3. GrantsMeet'
  BY DEF HooksInv, GrantsMeet, MayHave
<1>4. DispatchesInside'
  BY DEF HooksInv, DispatchesInside
<1>5. DataIsGranted'
  BY DEF HooksInv, DataIsGranted
<1>6. FailuresStayApart'
  BY DEF HooksInv, FailuresStayApart
<1> QED BY <1>2, <1>3, <1>4, <1>5, <1>6 DEF HooksInv

\* A step that adds handlers of p.
LEMMA AddingKeeps ==
  ASSUME HooksInv, NEW p \in Plugins, NEW events \in Seq(Events), NEW c \in SUBSET MayHave(p),
         handlers' = WithHandlers(p, events, c), GrantsMeet', position' \in Nat \ {0},
         stage' # "failed",
         UNCHANGED <<config, loaded, emits, alive, seen, unset>>
  PROVE  HooksInv'
<1> USE DEF config
<1>1. Handler' = Handler
  BY DEF Handler, MayHave
<1>2. /\ handlers' \in [Events -> Seq(Handler)]
      /\ \A e \in Events : Len(handlers'[e]) >= Len(handlers[e])
  BY HandlersGrow DEF HooksInv, HooksTypes
<1>3. HooksTypes'
  BY <1>1, <1>2 DEF HooksInv, HooksTypes
<1>4. DispatchesInside'
  <2> SUFFICES ASSUME NEW i \in DOMAIN emits
               PROVE  /\ emits[i].began <= Len(handlers'[emits[i].event])
                      /\ emits[i].state = "running" =>
                           emits[i].at \in 1..Len(handlers'[emits[i].event])
    BY DEF DispatchesInside
  <2> DEFINE d == emits[i] n == Len(handlers[d.event]) m == Len(handlers'[d.event])
  <2>1. d \in Telling
    BY ElementOfSeq DEF HooksInv, HooksTypes
  <2>2. d.event \in Events /\ d.at \in Nat /\ d.began \in Nat
    BY <2>1 DEF Telling
  <2>3. n \in Nat /\ m \in Nat /\ m >= n
    BY <1>2, <2>2 DEF HooksInv, HooksTypes
  <2>4. d.began <= n /\ (d.state = "running" => d.at \in 1..n)
    BY DEF HooksInv, DispatchesInside
  <2> QED BY <2>2, <2>3, <2>4
<1>5. DataIsGranted' /\ FailuresStayApart'
  BY DEF HooksInv, DataIsGranted, FailuresStayApart
<1> QED BY <1>3, <1>4, <1>5 DEF HooksInv

-----------------------------------------------------------------------------
(* Dispatches *)

\* A step of the dispatches that leaves plugins and handlers alone.
Told == UNCHANGED <<config, position, loaded, granted, handlers, unset>>

LEMMA TellingKeeps ==
  ASSUME HooksInv, Told, emits' \in Seq(Telling), DispatchesInside', DataIsGranted',
         FailuresStayApart', alive' \in BOOLEAN
  PROVE  HooksInv'
<1> USE DEF config, Told
<1>1. Handler' = Handler
  BY DEF Handler, MayHave
<1>2. HooksTypes'
  BY <1>1 DEF HooksInv, HooksTypes
<1>3. GrantsMeet'
  BY DEF HooksInv, GrantsMeet, MayHave
<1> QED BY <1>2, <1>3 DEF HooksInv

LEMMA EmitKeeps == ASSUME HooksInv, NEW e \in Events, Emit(e) PROVE HooksInv'
<1>1. Told
  BY DEF Emit, Told
<1>2. CASE handlers[e] = <<>>
  <2>1. UNCHANGED <<emits, seen, alive>> /\ stage' = "live"
    BY <1>2 DEF Emit
  <2>2. emits' \in Seq(Telling) /\ alive' \in BOOLEAN
    BY <2>1 DEF HooksInv, HooksTypes
  <2>3. DispatchesInside' /\ DataIsGranted' /\ FailuresStayApart'
    BY <1>1, <2>1 DEF Told, config, HooksInv, DispatchesInside, DataIsGranted, FailuresStayApart
  <2> QED BY <1>1, <2>2, <2>3, TellingKeeps
<1>3. CASE handlers[e] # <<>>
  <2> DEFINE d == [event |-> e, at |-> 1, began |-> Len(handlers[e]), state |-> "running"]
  <2>1. /\ emits' = Append(emits, d) /\ seen' = seen \cup Shown(handlers[e][1], e)
        /\ UNCHANGED <<stage, alive>>
    BY <1>3 DEF Emit
  <2>2. handlers[e] \in Seq(Handler) /\ emits \in Seq(Telling)
    BY DEF HooksInv, HooksTypes
  <2>3. Len(handlers[e]) \in Nat \ {0}
    BY <1>3, <2>2, EmptySeq
  <2>4. d \in Telling /\ handlers[e][1] \in Handler
    BY <2>2, <2>3, ElementOfSeq DEF Telling
  <2>5. emits' \in Seq(Telling) /\ alive' \in BOOLEAN
    BY <2>1, <2>2, <2>4 DEF HooksInv, HooksTypes
  <2>6. \A i \in DOMAIN emits' : emits'[i] = d \/ (i \in DOMAIN emits /\ emits'[i] = emits[i])
    BY <2>1, <2>2
  <2>7. DispatchesInside'
    <3>1. handlers' = handlers
      BY <1>1 DEF Told
    <3> QED BY <2>3, <2>6, <3>1 DEF HooksInv, DispatchesInside
  <2>8. DataIsGranted'
    BY <1>1, <2>1, <2>4, ShownIsGranted DEF Told, config, HooksInv, DataIsGranted
  <2>9. FailuresStayApart'
    BY <1>1, <2>1, <2>6 DEF Told, config, HooksInv, FailuresStayApart
  <2> QED BY <1>1, <2>5, <2>7, <2>8, <2>9, TellingKeeps
<1> QED BY <1>2, <1>3

\* The dispatch that is under way.
LEMMA UnderwayInside ==
  ASSUME HooksInv, NEW i, Underway(i)
  PROVE  /\ i \in 1..Len(emits) /\ i \in DOMAIN emits /\ emits \in Seq(Telling)
         /\ emits[i] \in Telling /\ emits[i].event \in Events
         /\ handlers[emits[i].event] \in Seq(Handler)
         /\ emits[i].began <= Len(handlers[emits[i].event])
         /\ emits[i].at \in 1..Len(handlers[emits[i].event])
<1>1. i \in 1..Len(emits) /\ i \in DOMAIN emits /\ emits \in Seq(Telling)
  BY DEF HooksInv, HooksTypes, Underway
<1>2. emits[i] \in Telling
  BY <1>1, ElementOfSeq
<1>3. emits[i].event \in Events
  BY <1>2 DEF Telling
<1>4. handlers[emits[i].event] \in Seq(Handler)
  BY <1>3 DEF HooksInv, HooksTypes
<1>5. /\ emits[i].began <= Len(handlers[emits[i].event])
      /\ emits[i].at \in 1..Len(handlers[emits[i].event])
  BY <1>1 DEF HooksInv, DispatchesInside, Underway
<1> QED BY <1>1, <1>2, <1>3, <1>4, <1>5

\* Telling i changes to d, which is where it may be, and the rest does not.
LEMMA DispatchChanges ==
  ASSUME HooksInv, NEW i \in DOMAIN emits, NEW d \in Telling, Told,
         emits' = [emits EXCEPT ![i] = d],
         d.began <= Len(handlers[d.event]),
         d.state = "running" => d.at \in 1..Len(handlers[d.event])
  PROVE  /\ emits' \in Seq(Telling)
         /\ DispatchesInside'
         /\ \A j \in DOMAIN emits' : emits'[j] = d \/ (j \in DOMAIN emits /\ emits'[j] = emits[j])
<1>1. emits \in Seq(Telling) /\ i \in 1..Len(emits)
  BY DEF HooksInv, HooksTypes
<1>2. emits' \in Seq(Telling)
  BY <1>1, ExceptSeq
<1>3. \A j \in DOMAIN emits' : emits'[j] = d \/ (j \in DOMAIN emits /\ emits'[j] = emits[j])
  OBVIOUS
<1>4. handlers' = handlers
  BY DEF Told
<1>5. DispatchesInside'
  BY <1>3, <1>4 DEF HooksInv, DispatchesInside
<1> QED BY <1>2, <1>3, <1>5

LEMMA GoingOnKeeps ==
  ASSUME HooksInv, NEW i, Underway(i), GoesOn(i), Told, UNCHANGED alive
  PROVE  HooksInv'
<1> DEFINE e == emits[i].event
           n == emits[i].at + 1
           list == handlers[e]
<1>1. /\ i \in DOMAIN emits /\ emits \in Seq(Telling) /\ emits[i] \in Telling
      /\ list \in Seq(Handler) /\ Len(list) \in Nat
      /\ emits[i].began \in Nat /\ emits[i].began <= Len(list)
      /\ emits[i].at \in 1..Len(list) /\ e \in Events
  <2>1. emits[i] \in Telling => emits[i].began \in Nat
    BY DEF Telling
  <2>2. list \in Seq(Handler) => Len(list) \in Nat
    OBVIOUS
  <2> QED BY <2>1, <2>2, UnderwayInside
<1>2. alive' \in BOOLEAN
  BY DEF HooksInv, HooksTypes
<1>3. CASE n <= Len(list)
  <2> DEFINE d == [emits[i] EXCEPT !.at = n]
  <2>1. /\ emits' = [emits EXCEPT ![i] = d] /\ seen' = seen \cup Shown(list[n], e)
        /\ UNCHANGED stage
    BY <1>3, <1>1 DEF GoesOn
  <2>2. d \in Telling /\ d.event = e /\ d.began = emits[i].began /\ d.at = n
        /\ d.state = emits[i].state
    BY <1>1 DEF Telling
  <2>3. n \in 1..Len(list) /\ list[n] \in Handler
    BY <1>1, <1>3, ElementOfSeq
  <2> HIDE DEF d
  <2>4. /\ emits' \in Seq(Telling) /\ DispatchesInside'
        /\ \A j \in DOMAIN emits' : emits'[j] = d \/ (j \in DOMAIN emits /\ emits'[j] = emits[j])
    BY <1>1, <2>1, <2>2, <2>3, DispatchChanges
  <2>5. DataIsGranted'
    BY <2>1, <2>3, ShownIsGranted DEF Told, config, HooksInv, DataIsGranted
  <2>6. d.state = "running"
    BY <2>2 DEF Underway
  <2>7. FailuresStayApart'
    BY <2>1, <2>4, <2>6 DEF Told, config, HooksInv, FailuresStayApart
  <2> QED BY <1>2, <2>4, <2>5, <2>7, TellingKeeps
<1>4. CASE ~(n <= Len(list))
  <2> DEFINE d == [emits[i] EXCEPT !.state = "done"]
  <2>1. /\ emits' = [emits EXCEPT ![i] = d] /\ UNCHANGED seen
        /\ stage' \in {"live", stage}
    BY <1>4, <1>1 DEF GoesOn
  <2>2. d \in Telling /\ d.event = e /\ d.began = emits[i].began /\ d.at = emits[i].at
        /\ d.state = "done"
    BY <1>1 DEF Telling
  <2>3. d.at >= d.began
    BY <1>1, <1>4, <2>2
  <2> HIDE DEF d
  <2>4. /\ emits' \in Seq(Telling) /\ DispatchesInside'
        /\ \A j \in DOMAIN emits' : emits'[j] = d \/ (j \in DOMAIN emits /\ emits'[j] = emits[j])
    BY <1>1, <2>1, <2>2, DispatchChanges
  <2>5. DataIsGranted'
    BY <2>1 DEF Told, config, HooksInv, DataIsGranted
  <2>6. FailuresStayApart'
    BY <2>1, <2>2, <2>3, <2>4 DEF Told, config, HooksInv, FailuresStayApart
  <2> QED BY <1>2, <2>4, <2>5, <2>6, TellingKeeps
<1> QED BY <1>3, <1>4

\* In strict mode, in which a failure may be seen.
LEMMA RejectingKeeps ==
  ASSUME HooksInv, NEW i, Underway(i), strict, Rejects(i), Told
  PROVE  HooksInv'
<1> DEFINE d == [emits[i] EXCEPT !.state = "threw"]
<1>1. /\ i \in DOMAIN emits /\ emits[i] \in Telling
      /\ emits[i].began <= Len(handlers[emits[i].event])
  BY UnderwayInside
<1>2. emits' = [emits EXCEPT ![i] = d] /\ UNCHANGED seen
  BY <1>1 DEF Rejects
<1>3. d \in Telling /\ d.event = emits[i].event /\ d.began = emits[i].began
      /\ d.state = "threw"
  BY <1>1 DEF Telling
<1> HIDE DEF d
<1>4. emits' \in Seq(Telling) /\ DispatchesInside'
  BY <1>1, <1>2, <1>3, DispatchChanges
<1>5. DataIsGranted'
  BY <1>2 DEF Told, config, HooksInv, DataIsGranted
<1>6. FailuresStayApart' /\ alive' \in BOOLEAN
  BY DEF Told, config, FailuresStayApart, Rejects
<1> QED BY <1>4, <1>5, <1>6, TellingKeeps

-----------------------------------------------------------------------------
LEMMA RegisterKeeps == ASSUME HooksInv, Register PROVE HooksInv'
<1> DEFINE p == loaded[position]
           requested == Clamped(wants[p])
<1>1. position \in Nat \ {0} /\ loaded \in Seq(Plugins)
  BY DEF HooksInv, HooksTypes
<1>2. CASE strict /\ Denied(requested) # {}
  <2>1. UNCHANGED <<config, position, loaded, granted, handlers, emits, alive, seen, unset>>
    BY <1>2 DEF Register
  <2> QED BY <1>1, <1>2, <2>1, LoadingKeeps DEF HooksInv, HooksTypes
<1>3. CASE ~(strict /\ Denied(requested) # {})
  <2> DEFINE c == Granted(requested)
  <2>1. /\ granted' = [granted EXCEPT ![p] = c] /\ handlers' = WithHandlers(p, Hooked[p], c)
        /\ position' \in {position, position + 1} /\ stage' # "failed"
        /\ UNCHANGED <<config, loaded, emits, alive, seen, unset>>
    BY <1>3 DEF Register
  <2>2. p \in Plugins
    BY <1>1, ElementOfSeq DEF Register
  <2>3. c \in SUBSET MayHave(p) /\ c \subseteq {"observe"} \cup allowed
    BY <2>2, GrantedMeets DEF HooksInv, HooksTypes
  <2>4. Hooked[p] \in Seq(Events)
    BY <2>2, HooksAssumption
  <2> HIDE DEF c
  <2>5. GrantsMeet'
    BY <2>1, <2>2, <2>3 DEF config, HooksInv, GrantsMeet, MayHave
  <2> HIDE DEF p
  <2> QED BY <1>1, <2>1, <2>2, <2>3, <2>4, <2>5, AddingKeeps
<1> QED BY <1>2, <1>3

LEMMA AddsKeeps ==
  ASSUME HooksInv, NEW p \in Plugins, NEW e \in Events, Adds(p, e)
  PROVE  HooksInv'
<1>1. granted[p] \in SUBSET MayHave(p)
  BY DEF HooksInv, GrantsMeet
<1>2. <<e>> \in Seq(Events)
  OBVIOUS
<1>3. /\ handlers' = WithHandlers(p, <<e>>, granted[p]) /\ stage' # "failed"
      /\ UNCHANGED <<config, position, loaded, granted, emits, alive, seen, unset>>
  BY DEF Adds
<1>4. GrantsMeet' /\ position' \in Nat \ {0}
  BY <1>3 DEF config, HooksInv, HooksTypes, GrantsMeet, MayHave
<1> QED BY <1>1, <1>2, <1>3, <1>4, AddingKeeps

\* Steps of loading and registration that add no handler.
LEMMA LoadsKeep ==
  ASSUME HooksInv,
         Load \/ LoadFails \/ AllLoaded \/ SetupEnds \/ SetupThrows \/ AllRegistered
  PROVE  HooksInv'
<1>1. position \in Nat \ {0} /\ loaded \in Seq(Plugins) /\ unset \in BOOLEAN
  BY DEF HooksInv, HooksTypes
<1>2. UNCHANGED <<config, granted, handlers, emits, alive, seen>>
  BY DEF Load, LoadFails, AllLoaded, SetupEnds, SetupThrows, AllRegistered
<1>3. position' \in Nat \ {0}
  BY <1>1 DEF Load, LoadFails, AllLoaded, SetupEnds, SetupThrows, AllRegistered
<1>4. loaded' \in Seq(Plugins)
  <2>1. CASE Load
    <3>1. Paths[position] \in Plugins
      BY <1>1, <2>1, ElementOfSeq, HooksAssumption DEF Load
    <3> QED BY <1>1, <2>1, <3>1 DEF Load
  <2>2. CASE ~Load
    BY <1>1, <2>2 DEF LoadFails, AllLoaded, SetupEnds, SetupThrows, AllRegistered
  <2> QED BY <2>1, <2>2
<1>5. unset' \in BOOLEAN
  BY <1>1 DEF Load, LoadFails, AllLoaded, SetupEnds, SetupThrows, AllRegistered
<1>6. ~strict => (stage' = "failed" => unset')
  BY DEF Load, LoadFails, AllLoaded, SetupEnds, SetupThrows, AllRegistered
<1> QED BY <1>2, <1>3, <1>4, <1>5, <1>6, LoadingKeeps

LEMMA HandlerEndsKeeps ==
  ASSUME HooksInv, NEW i, Returns(i) \/ Throws(i)
  PROVE  HooksInv'
<1>1. Underway(i) /\ Told
  BY DEF Returns, Throws, Told
<1>2. CASE strict /\ Throws(i)
  <2>1. Rejects(i)
    BY <1>2 DEF Throws
  <2> QED BY <1>1, <1>2, <2>1, RejectingKeeps
<1>3. CASE ~(strict /\ Throws(i))
  <2>1. GoesOn(i) /\ UNCHANGED alive
    BY <1>3 DEF Returns, Throws
  <2> QED BY <1>1, <2>1, GoingOnKeeps
<1> QED BY <1>2, <1>3

LEMMA StutterKeeps == ASSUME HooksInv, UNCHANGED hvars PROVE HooksInv'
<1>1. position' \in Nat \ {0} /\ loaded' \in Seq(Plugins) /\ unset' \in BOOLEAN
  BY DEF HooksInv, HooksTypes, hvars
<1>2. ~strict => (stage' = "failed" => unset')
  BY DEF HooksInv, FailuresStayApart, hvars
<1>3. UNCHANGED <<config, granted, handlers, emits, alive, seen>>
  BY DEF config, hvars
<1> QED BY <1>1, <1>2, <1>3, LoadingKeeps

LEMMA HooksKeep == HooksInv /\ [HooksNext]_hvars => HooksInv'
<1> SUFFICES ASSUME HooksInv, [HooksNext]_hvars PROVE HooksInv'
  OBVIOUS
<1>1. CASE Load \/ LoadFails \/ AllLoaded \/ SetupEnds \/ SetupThrows \/ AllRegistered
  BY <1>1, LoadsKeep
<1>2. CASE Register
  BY <1>2, RegisterKeeps
<1>3. CASE \E p \in Plugins, e \in Events : Adds(p, e)
  BY <1>3, AddsKeeps
<1>4. CASE \E e \in Events : Emit(e)
  BY <1>4, EmitKeeps
<1>5. CASE \E i \in DOMAIN emits : Returns(i) \/ Throws(i)
  BY <1>5, HandlerEndsKeeps
<1>6. CASE UNCHANGED hvars
  BY <1>6, StutterKeeps
<1> QED BY <1>1, <1>2, <1>3, <1>4, <1>5, <1>6 DEF HooksNext

-----------------------------------------------------------------------------
\* Whatever plugins there are, whenever and from wherever they add handlers, and however
\* many dispatches are under way: the invariant holds.
THEOREM PluginInvariant == HooksSpec => []HooksInv
<1>1. HooksInit => HooksInv
  BY HooksStart
<1>2. HooksInv /\ [HooksNext]_hvars => HooksInv'
  BY HooksKeep
<1> QED BY <1>1, <1>2, PTL DEF HooksSpec

\* Prompts, answers, arguments and results of tools only come to plugins that asked for
\* them and may have them (redactPayload, registerPlugin).
THEOREM CapabilitiesHold == HooksSpec => []DataIsGranted
<1>1. HooksInv => DataIsGranted
  BY DEF HooksInv
<1> QED BY <1>1, PluginInvariant, PTL

\* Outside strict mode a plugin that fails keeps nothing from the others, and does not
\* end the session, unless it is its setup that throws (emit).
THEOREM FailuresAreIsolated == HooksSpec => []FailuresStayApart
<1>1. HooksInv => FailuresStayApart
  BY DEF HooksInv
<1> QED BY <1>1, PluginInvariant, PTL

\* Both: what a plugin may see and what it can break.
THEOREM PluginsAreContained == HooksSpec => []PluginsContained
<1>1. DataIsGranted /\ FailuresStayApart => PluginsContained
  BY DEF PluginsContained
<1> QED BY <1>1, CapabilitiesHold, FailuresAreIsolated, PTL

-----------------------------------------------------------------------------
(* The delegated tasks *)

AtWork == {"listing", "asking", "closing", "reporting"}
InTurn == AtWork \cup {"queued"}

\* The queue is a chain of promises: the i-th who waits has the promise that the one
\* before it resolves, the first has one that is resolved, and who works is the first.
QueueInv ==
  /\ order \in Seq(Callers) /\ pending = Len(order) /\ tail \in Nat /\ Len(order) <= tail
  /\ at \in [Callers -> InTurn \cup {"idle", "context", "ok", "threw"}]
  /\ promise \in [Callers -> Int] /\ own \in [Callers -> Int]
  /\ \A i, j \in 1..Len(order) : order[i] = order[j] => i = j
  /\ \A c \in Callers : at[c] \in InTurn <=> \E i \in 1..Len(order) : order[i] = c
  /\ \A i \in 1..Len(order) : /\ own[order[i]] = tail - Len(order) + i
                              /\ promise[order[i]] = tail - Len(order) + i - 1
  /\ resolved = 0..(tail - Len(order))
  /\ \A c \in Callers : at[c] \in AtWork => Len(order) > 0 /\ order[1] = c

\* The first leaves the queue.
LEMMA FirstLeaves ==
  ASSUME NEW S, NEW s \in Seq(S), Len(s) > 0,
         \A i, j \in 1..Len(s) : s[i] = s[j] => i = j
  PROVE  LET t == RemoveAt(s, CHOOSE i \in DOMAIN s : s[i] = s[1]) IN
           /\ t \in Seq(S) /\ Len(t) = Len(s) - 1
           /\ \A i \in 1..(Len(s) - 1) : t[i] = s[i + 1]
<1> DEFINE k == CHOOSE i \in DOMAIN s : s[i] = s[1]
<1>1. DOMAIN s = 1..Len(s) /\ 1 \in 1..Len(s)
  OBVIOUS
<1>2. k \in 1..Len(s) /\ s[k] = s[1]
  BY <1>1
<1>3. k = 1
  BY <1>1, <1>2
<1> HIDE DEF k
<1>4. RemoveAt(s, k) = SubSeq(s, 1, 0) \o SubSeq(s, 2, Len(s))
  BY <1>3 DEF RemoveAt
<1>5. SubSeq(s, 1, 0) = <<>>
  OBVIOUS
<1>6. /\ SubSeq(s, 2, Len(s)) \in Seq(S) /\ Len(SubSeq(s, 2, Len(s))) = Len(s) - 1
      /\ \A i \in 1..(Len(s) - 1) : SubSeq(s, 2, Len(s))[i] = s[i + 1]
  <2>1. s # <<>>
    OBVIOUS
  <2>2. /\ SubSeq(s, 2, Len(s)) = Tail(s) /\ Tail(s) \in Seq(S) /\ Len(Tail(s)) = Len(s) - 1
        /\ \A i \in 1..Len(Tail(s)) : Tail(s)[i] = s[i + 1]
    BY <2>1, TailIsSubSeq, HeadTailProperties
  <2> QED BY <2>2
<1>7. RemoveAt(s, k) = SubSeq(s, 2, Len(s))
  BY <1>4, <1>5, <1>6
<1> QED BY <1>6, <1>7 DEF k

\* A caller goes from one place to another while the queue stays.
LEMMA CallerMoves ==
  ASSUME QueueInv, NEW c \in Callers, NEW p \in InTurn \cup {"idle", "context", "ok", "threw"},
         Goes(c, p), UNCHANGED <<pending, promise, own, tail, resolved, order>>,
         at[c] \in InTurn <=> p \in InTurn,
         p \in AtWork => Len(order) > 0 /\ order[1] = c
  PROVE  QueueInv'
<1>1. at' = [at EXCEPT ![c] = p] /\ at \in [Callers -> InTurn \cup {"idle", "context", "ok", "threw"}]
  BY DEF Goes, QueueInv
<1>2. at' \in [Callers -> InTurn \cup {"idle", "context", "ok", "threw"}]
  BY <1>1
<1>3. at'[c] = p /\ \A d \in Callers : d # c => at'[d] = at[d]
  BY <1>1
<1> HIDE DEF InTurn, AtWork
<1> QED BY <1>2, <1>3 DEF QueueInv

LEMMA CallKeeps ==
  ASSUME QueueInv, NEW c \in Callers, Call(c)
  PROVE  QueueInv'
<1>1. PICK p \in {"threw", "context"} : Goes(c, p)
  BY DEF Call
<1>2. at[c] = "idle" /\ UNCHANGED <<pending, promise, own, tail, resolved, order>>
  BY DEF Call
<1> QED BY <1>1, <1>2, CallerMoves DEF InTurn, AtWork

LEMMA EnqueueKeeps ==
  ASSUME QueueInv, NEW c \in Callers, Enqueue(c)
  PROVE  QueueInv'
<1>1. /\ at[c] = "context" /\ pending' = pending + 1 /\ promise' = [promise EXCEPT ![c] = tail]
      /\ own' = [own EXCEPT ![c] = tail + 1] /\ tail' = tail + 1
      /\ order' = Append(order, c) /\ at' = [at EXCEPT ![c] = "queued"] /\ resolved' = resolved
  BY DEF Enqueue, Goes
<1>2. order \in Seq(Callers) /\ tail \in Nat /\ Len(order) \in Nat /\ Len(order) <= tail
  BY DEF QueueInv
<1>3. order' \in Seq(Callers) /\ Len(order') = Len(order) + 1 /\ order'[Len(order) + 1] = c
      /\ \A i \in 1..Len(order) : order'[i] = order[i]
  BY <1>1, <1>2
<1>4. \A i \in 1..Len(order) : order[i] # c /\ order[i] \in Callers
  <2> TAKE i \in 1..Len(order)
  <2>1. order[i] \in Callers
    BY <1>2
  <2>2. at[order[i]] \in InTurn
    BY <2>1 DEF QueueInv
  <2> QED BY <1>1, <2>1, <2>2 DEF InTurn, AtWork
<1>5. at' \in [Callers -> InTurn \cup {"idle", "context", "ok", "threw"}]
      /\ promise' \in [Callers -> Int] /\ own' \in [Callers -> Int]
  BY <1>1, <1>2 DEF QueueInv, InTurn, AtWork
<1>6. at'[c] = "queued" /\ \A d \in Callers : d # c => at'[d] = at[d]
  BY <1>1 DEF QueueInv
<1>7. promise'[c] = tail /\ \A d \in Callers : d # c => promise'[d] = promise[d]
  BY <1>1 DEF QueueInv
<1>8. own'[c] = tail + 1 /\ \A d \in Callers : d # c => own'[d] = own[d]
  BY <1>1 DEF QueueInv
<1>9. \A i, j \in 1..Len(order') : order'[i] = order'[j] => i = j
  <2> SUFFICES ASSUME NEW i \in 1..Len(order'), NEW j \in 1..Len(order'), order'[i] = order'[j]
               PROVE  i = j
    OBVIOUS
  <2>1. \A m \in 1..Len(order') : m = Len(order) + 1 \/ m \in 1..Len(order)
    BY <1>2, <1>3
  <2>2. CASE i \in 1..Len(order) /\ j \in 1..Len(order)
    BY <1>3, <2>2 DEF QueueInv
  <2> QED BY <1>3, <1>4, <2>1, <2>2
<1>10. ASSUME NEW d \in Callers
       PROVE  at'[d] \in InTurn <=> \E i \in 1..Len(order') : order'[i] = d
  <2>1. CASE d = c
    BY <1>2, <1>3, <1>6, <2>1 DEF InTurn
  <2>2. CASE d # c
    <3>1. (\E i \in 1..Len(order') : order'[i] = d) <=> \E i \in 1..Len(order) : order[i] = d
      BY <1>2, <1>3, <2>2
    <3> QED BY <1>6, <2>2, <3>1 DEF QueueInv
  <2> QED BY <2>1, <2>2
<1>11. ASSUME NEW i \in 1..Len(order')
       PROVE  /\ own'[order'[i]] = tail' - Len(order') + i
              /\ promise'[order'[i]] = tail' - Len(order') + i - 1
  <2>1. tail' - Len(order') = tail - Len(order)
    BY <1>1, <1>2, <1>3
  <2>2. CASE i = Len(order) + 1
    <3>1. tail - Len(order) + (Len(order) + 1) = tail + 1
      BY <1>2
    <3> QED BY <1>2, <1>3, <1>7, <1>8, <2>1, <2>2, <3>1
  <2>3. CASE i \in 1..Len(order)
    <3>1. order'[i] = order[i] /\ order[i] # c /\ order[i] \in Callers
      BY <1>3, <1>4, <2>3
    <3>2. own[order[i]] = tail - Len(order) + i /\ promise[order[i]] = tail - Len(order) + i - 1
      BY <2>3 DEF QueueInv
    <3> QED BY <1>7, <1>8, <2>1, <3>1, <3>2
  <2> QED BY <1>2, <1>3, <2>2, <2>3
<1>12. resolved' = 0..(tail' - Len(order'))
  <2>1. tail' - Len(order') = tail - Len(order)
    BY <1>1, <1>2, <1>3
  <2> QED BY <1>1, <2>1 DEF QueueInv
<1>13. ASSUME NEW d \in Callers, at'[d] \in AtWork PROVE Len(order') > 0 /\ order'[1] = d
  <2>1. d # c /\ at[d] \in AtWork
    BY <1>6, <1>13 DEF AtWork
  <2>2. Len(order) > 0 /\ order[1] = d /\ 1 \in 1..Len(order)
    BY <1>2, <2>1 DEF QueueInv
  <2> QED BY <1>2, <1>3, <2>2
<1>14. pending' = Len(order') /\ tail' \in Nat /\ Len(order') <= tail'
  BY <1>1, <1>2, <1>3 DEF QueueInv
<1> QED BY <1>3, <1>5, <1>9, <1>10, <1>11, <1>12, <1>13, <1>14 DEF QueueInv

\* Who works leaves the queue, and resolves the promise of the next.
LEMMA ReleaseKeeps ==
  ASSUME QueueInv, NEW c \in Callers, NEW p \in {"ok", "threw"}, at[c] \in AtWork,
         Release(c), Goes(c, p), UNCHANGED <<promise, own, tail>>
  PROVE  QueueInv'
<1> DEFINE n == Len(order)
<1>1. order \in Seq(Callers) /\ n \in Nat /\ n > 0 /\ order[1] = c /\ tail \in Nat /\ n <= tail
      /\ pending = n /\ \A i, j \in 1..n : order[i] = order[j] => i = j
  BY DEF QueueInv
<1>2. order' = RemoveAt(order, CHOOSE i \in DOMAIN order : order[i] = order[1])
  BY <1>1 DEF Release
<1>3. order' \in Seq(Callers) /\ Len(order') = n - 1 /\ \A i \in 1..(n - 1) : order'[i] = order[i + 1]
  BY <1>1, <1>2, FirstLeaves
<1>4. pending' = n - 1 /\ own[c] = tail - n + 1 /\ resolved' = resolved \cup {own[c]}
  BY <1>1 DEF Release, QueueInv
<1>5. at' \in [Callers -> InTurn \cup {"idle", "context", "ok", "threw"}]
      /\ at'[c] = p /\ \A d \in Callers : d # c => at'[d] = at[d]
  BY DEF Goes, QueueInv
<1>6. resolved' = 0..(tail' - Len(order'))
  <2>1. resolved = 0..(tail - n) /\ tail' - Len(order') = tail - n + 1 /\ tail - n \in Nat
    BY <1>1, <1>3 DEF QueueInv
  <2> QED BY <1>4, <2>1
<1>7. \A i \in 1..(n - 1) : i + 1 \in 1..n /\ i + 1 # 1
  BY <1>1
<1>8. \A i, j \in 1..Len(order') : order'[i] = order'[j] => i = j
  BY <1>1, <1>3, <1>7
<1>9. ASSUME NEW d \in Callers
      PROVE  at'[d] \in InTurn <=> \E i \in 1..Len(order') : order'[i] = d
  <2>1. CASE d = c
    <3>1. \A i \in 1..(n - 1) : order'[i] # c
      BY <1>1, <1>3, <1>7
    <3> QED BY <1>3, <1>5, <2>1, <3>1 DEF InTurn, AtWork
  <2>2. CASE d # c
    <3>1. ASSUME NEW i \in 1..n, order[i] = d PROVE i - 1 \in 1..(n - 1) /\ order'[i - 1] = d
      <4>1. i # 1
        BY <1>1, <2>2, <3>1
      <4>2. i - 1 \in 1..(n - 1) /\ (i - 1) + 1 = i
        BY <1>1, <4>1
      <4> QED BY <1>3, <3>1, <4>2
    <3>2. (\E i \in 1..(n - 1) : order'[i] = d) <=> \E i \in 1..n : order[i] = d
      BY <1>3, <1>7, <3>1
    <3> QED BY <1>3, <1>5, <2>2, <3>2 DEF QueueInv
  <2> QED BY <2>1, <2>2
<1>10. ASSUME NEW i \in 1..Len(order')
       PROVE  /\ own'[order'[i]] = tail' - Len(order') + i
              /\ promise'[order'[i]] = tail' - Len(order') + i - 1
  <2>1. i \in 1..(n - 1) /\ i + 1 \in 1..n /\ order'[i] = order[i + 1]
    BY <1>3, <1>7
  <2>2. own[order[i + 1]] = tail - n + (i + 1) /\ promise[order[i + 1]] = tail - n + (i + 1) - 1
    BY <2>1 DEF QueueInv
  <2>3. tail' - Len(order') + i = tail - n + (i + 1)
    BY <1>1, <1>3, <2>1
  <2> QED BY <1>1, <2>1, <2>2, <2>3
<1>11. ASSUME NEW d \in Callers, at'[d] \in AtWork PROVE FALSE
  BY <1>1, <1>5, <1>11 DEF QueueInv, AtWork
<1>12. /\ order' \in Seq(Callers) /\ pending' = Len(order') /\ tail' \in Nat
       /\ Len(order') <= tail'
  BY <1>1, <1>3, <1>4
<1>13. promise' \in [Callers -> Int] /\ own' \in [Callers -> Int]
  BY DEF QueueInv
<1>14. \A d \in Callers : at'[d] \in AtWork => Len(order') > 0 /\ order'[1] = d
  BY <1>11
<1> HIDE DEF n
<1> QED BY <1>5, <1>6, <1>8, <1>9, <1>10, <1>12, <1>13, <1>14 DEF QueueInv

LEMMA TaskKeeps ==
  ASSUME QueueInv, NEW c \in Callers, TaskMoves(c)
  PROVE  QueueInv'
<1>1. ASSUME TurnComes(c) PROVE QueueInv'
  <2>1. at[c] = "queued" /\ promise[c] \in resolved /\ order \in Seq(Callers)
        /\ Len(order) \in Nat /\ tail \in Nat
    BY <1>1 DEF TurnComes, QueueInv
  <2>2. PICK i \in 1..Len(order) : order[i] = c
    BY <2>1 DEF QueueInv, InTurn
  <2>3. promise[c] = tail - Len(order) + i - 1 /\ promise[c] <= tail - Len(order)
    BY <2>1, <2>2 DEF QueueInv
  <2>4. i = 1
    BY <2>1, <2>3
  <2>5. Len(order) > 0 /\ order[1] = c
    BY <2>1, <2>2, <2>4
  <2> QED BY <1>1, <2>1, <2>5, CallerMoves DEF TurnComes, InTurn, AtWork
<1>2. ASSUME Works(c) PROVE QueueInv'
  <2>1. PICK p \in {"asking", "closing", "reporting"} : Goes(c, p)
    BY <1>2 DEF Works
  <2>2. at[c] \in AtWork /\ UNCHANGED <<pending, promise, own, tail, resolved, order>>
    BY <1>2 DEF Works, AtWork
  <2>3. Len(order) > 0 /\ order[1] = c
    BY <2>2 DEF QueueInv
  <2> QED BY <2>1, <2>2, <2>3, CallerMoves DEF InTurn, AtWork
<1>3. ASSUME FailsToStart(c) PROVE QueueInv'
  BY <1>3, ReleaseKeeps DEF FailsToStart, AtWork
<1>4. ASSUME Reports(c) PROVE QueueInv'
  BY <1>4, ReleaseKeeps DEF Reports, AtWork
<1> QED BY <1>1, <1>2, <1>3, <1>4, EnqueueKeeps DEF TaskMoves

\* The caller has its result and goes on.
LEMMA NextCallKeeps ==
  ASSUME QueueInv, NEW c \in Callers, at[c] \in {"ok", "threw"}, Goes(c, "idle"),
         UNCHANGED <<pending, promise, own, tail, resolved, order>>
  PROVE  QueueInv'
BY CallerMoves DEF InTurn, AtWork

\* The inductive invariant of the delegated tasks.
THEOREM QueueInvariant == SubSpec => []QueueInv
<1>1. SubInit => QueueInv
  BY DEF SubInit, QueueInv, InTurn, AtWork
<1>2. QueueInv /\ [SubNext]_savars => QueueInv'
  <2> SUFFICES ASSUME QueueInv, [SubNext]_savars PROVE QueueInv'
    OBVIOUS
  <2>1. Asker \in Callers /\ \A a \in Approving : a \in Callers
    BY DEF Callers
  <2>2. ASSUME UNCHANGED tasks PROVE QueueInv'
    BY <2>2 DEF tasks, QueueInv
  <2>3. ASSUME Delegates \/ AskGoesOn PROVE QueueInv'
    BY <2>1, <2>3, CallKeeps, NextCallKeeps DEF Delegates, AskGoesOn
  <2>4. ASSUME NEW a \in Approving, DelegatedStep(a) \/ DelegatedStepEnds(a) PROVE QueueInv'
    BY <2>1, <2>4, CallKeeps, NextCallKeeps DEF DelegatedStep, DelegatedStepEnds
  <2>5. ASSUME Blocked \/ TogglePlan \/ Reject PROVE QueueInv'
    BY <2>2, <2>5 DEF Blocked, TogglePlan, Reject
  <2>6. ASSUME NEW a \in Approving, Approve(a) \/ ToolStep(a) PROVE QueueInv'
    BY <2>2, <2>6 DEF Approve, ToolStep
  <2>7. ASSUME UNCHANGED savars PROVE QueueInv'
    BY <2>2, <2>7 DEF savars
  <2> QED BY <2>3, <2>4, <2>5, <2>6, <2>7, TaskKeeps DEF SubNext
<1> QED BY <1>1, <1>2, PTL DEF SubSpec

\* Sub-agents work one at a time in the order they were called for, and a failure of one
\* does not keep the next from its turn.
THEOREM TasksTakeTurns == SubSpec => []DelegatesInTurn
<1>1. QueueInv => DelegatesInTurn
  <2> SUFFICES ASSUME QueueInv PROVE DelegatesInTurn
    OBVIOUS
  <2>1. order \in Seq(Callers) /\ Len(order) \in Nat /\ pending = Len(order) /\ tail \in Nat
        /\ Len(order) <= tail
    BY DEF QueueInv
  <2>2. CASE Working # {}
    <3>1. \A c \in Working : Len(order) > 0 /\ c = order[1]
      BY DEF Working, QueueInv, AtWork
    <3> QED BY <2>1, <2>2, <3>1 DEF DelegatesInTurn
  <2>3. CASE Working = {}
    <3>1. ASSUME order # <<>> PROVE promise[Head(order)] \in resolved
      <4>1. 1 \in 1..Len(order) /\ Head(order) = order[1]
        BY <2>1, <3>1
      <4>2. promise[order[1]] = tail - Len(order) + 1 - 1 /\ resolved = 0..(tail - Len(order))
        BY <4>1 DEF QueueInv
      <4> QED BY <2>1, <4>1, <4>2
    <3> QED BY <2>1, <2>3, <3>1 DEF DelegatesInTurn
  <2> QED BY <2>2, <2>3
<1> QED BY <1>1, QueueInvariant, PTL

-----------------------------------------------------------------------------
(* The message of a turn *)

\* When a turn is over the loop is off; and unless an edit was in flight then, none is
\* but the last one.
StreamInv ==
  /\ version \in Nat /\ flight \subseteq Nat \cup {Final}
  /\ sched \in [on : BOOLEAN, last : Int, backoff : Int]
  /\ phase = "running" => Final \notin flight
  /\ phase # "running" => ~sched.on
  /\ phase # "running" /\ excuses = {} => flight \subseteq {Final}
  /\ AnswerStands

\* The inductive invariant of the streaming message.
THEOREM StreamInvariant == StreamSpec => []StreamInv
<1>1. StreamInit => StreamInv
  BY DEF StreamInit, StreamInv, AnswerStands, Final
<1>2. StreamInv /\ [StreamNext]_svars => StreamInv'
  <2> SUFFICES ASSUME StreamInv, [StreamNext]_svars PROVE StreamInv'
    OBVIOUS
  <2> USE DEF StreamInv, AnswerStands, Final, Deleted
  <2>1. ASSUME Changes PROVE StreamInv'
    BY <2>1 DEF Changes
  <2>2. ASSUME BackOff PROVE StreamInv'
    BY <2>2 DEF BackOff
  <2>3. ASSUME Tick PROVE StreamInv'
    BY <2>3 DEF Tick, Rendered
  <2>4. ASSUME Delete PROVE StreamInv'
    BY <2>4 DEF Delete
  <2>5. ASSUME NEW v \in flight, EditDone(v) PROVE StreamInv'
    <3>1. v \in Nat
      BY <2>5 DEF EditDone
    <3>2. sched' \in [on : BOOLEAN, last : Int, backoff : Int] /\ sched'.on = sched.on
      <4>1. sched' = [sched EXCEPT !.last = v, !.backoff = 0] /\ v \in Int /\ 0 \in Int
        BY <2>5, <3>1 DEF EditDone
      <4>2. sched' = [on |-> sched.on, last |-> v, backoff |-> 0]
        BY <4>1
      <4> QED BY <4>1, <4>2
    <3> QED BY <2>5, <3>1, <3>2 DEF EditDone
  <2>6. ASSUME NEW v \in flight, NEW why \in Refusals, EditRefused(v, why) PROVE StreamInv'
    <3>1. sched' \in [on : BOOLEAN, last : Int, backoff : Int] /\ (sched'.on => sched.on)
      <4>1. \/ \E n \in 1..MaxBackoff : sched' = [sched EXCEPT !.backoff = n]
            \/ sched' = Off \/ sched' = sched
        BY <2>6 DEF EditRefused
      <4>2. ASSUME NEW n \in 1..MaxBackoff, sched' = [sched EXCEPT !.backoff = n]
            PROVE  sched' \in [on : BOOLEAN, last : Int, backoff : Int] /\ sched'.on = sched.on
        <5>1. n \in Int
          OBVIOUS
        <5> QED BY <4>2, <5>1
      <4> QED BY <4>1, <4>2 DEF Off
    <3> QED BY <2>6, <3>1 DEF EditRefused
  <2>7. ASSUME NEW how, Finalize(how) PROVE StreamInv'
    <3>1. sched' \in [on : BOOLEAN, last : Int, backoff : Int] /\ ~sched'.on
      BY <2>7 DEF Finalize, Off
    <3> QED BY <2>7, <3>1 DEF Finalize
  <2>8. ASSUME LastEditDone PROVE StreamInv'
    BY <2>8 DEF LastEditDone
  <2>9. ASSUME NEW why \in Refusals, LastEditRefused(why) PROVE StreamInv'
    BY <2>9 DEF LastEditRefused
  <2>10. ASSUME NEW ok \in BOOLEAN, LastSend(ok) PROVE StreamInv'
    BY <2>10 DEF LastSend
  <2>11. ASSUME UNCHANGED svars PROVE StreamInv'
    BY <2>11 DEF svars
  <2> QED BY <2>1, <2>2, <2>3, <2>4, <2>5, <2>6, <2>7, <2>8, <2>9, <2>10, <2>11
          DEF StreamNext, Hook, Heartbeat
<1> QED BY <1>1, <1>2, PTL DEF StreamSpec

\* The last text of a turn that ended stands.
THEOREM LastTextStands == StreamSpec => []AnswerStands
<1>1. StreamInv => AnswerStands
  BY DEF StreamInv
<1> QED BY <1>1, StreamInvariant, PTL

-----------------------------------------------------------------------------
(* The line interface and watch mode *)

Places == {"free", "prompt", "reading", "asking", "confirm", "offer", "message", "shell",
           "leaving", "out", "query", "lost"}

\* The search offers nothing.
Playing == does \in [Actors -> Places] /\ does["search"] \in {"free", "query", "lost"}

OnWatch(w) == does[w] # "free"

\* Whose question is open waits for its answer; one run of watch mode goes on while
\* `running`, from the user's value of max_iterations.
WatchInv ==
  /\ Playing /\ limit \in Limits
  /\ prior \in [Watchers -> {Base}]
  /\ \A w \in Watchers : question = w => does[w] \in {"confirm", "offer", "message"}
  /\ \A w, x \in Watchers : OnWatch(w) /\ OnWatch(x) => w = x
  /\ running <=> \E w \in Watchers : OnWatch(w)
  /\ unrun => active
  /\ WatchModeHolds

LEMMA WatcherIs ==
  ASSUME NEW w \in Watchers
  PROVE  w \in Actors /\ w # "loop" /\ w # "search" /\ w # "none"
  BY ReplAssumption DEF Actors

\* Steps that leave watch mode's own state alone and start or end no run.
LEMMA RunsGoOn ==
  ASSUME WatchInv, Playing',
         \A w \in Watchers : OnWatch(w)' <=> OnWatch(w),
         \A w \in Watchers : question' = w => does'[w] \in {"confirm", "offer", "message"},
         UNCHANGED watchvars
  PROVE  WatchInv'
  BY DEF WatchInv, watchvars, WatchModeHolds, IterationsRestored, ChangesWait, OnWatch

LEMMA WatchStops ==
  ASSUME WatchInv, Playing',
         \A w \in Watchers : OnWatch(w)' <=> OnWatch(w),
         \A w \in Watchers : question' = w => does'[w] \in {"confirm", "offer", "message"},
         StopWatchMode
  PROVE  WatchInv'
  BY DEF WatchInv, StopWatchMode, WatchModeHolds, IterationsRestored, ChangesWait, OnWatch

\* A run that starts when no other goes on.
LEMMA RunStarts ==
  ASSUME WatchInv, NEW w \in Watchers, NEW places \in [Actors -> Places], NEW n,
         RunWatchPrompt(w, places, n), n = Base,
         places["search"] \in {"free", "query", "lost"},
         \A x \in Watchers : places[x] = "free",
         \A x \in Watchers : question' # x
  PROVE  WatchInv'
<1> USE DEF Places, Playing
<1>0. "search" \in Actors
  BY DEF Actors
<1>1. /\ does' = [places EXCEPT ![w] = "asking"] /\ running' = TRUE /\ unrun' = FALSE
      /\ prior' = [prior EXCEPT ![w] = Base] /\ iterations' = Capped(Base, limit)
      /\ UNCHANGED <<active, limit>>
  BY DEF RunWatchPrompt
<1>2. Playing' /\ does'[w] = "asking"
      /\ \A x \in Watchers : x # w => does'[x] = "free"
  <2>1. "asking" \in Places /\ w # "search" /\ \A x \in Watchers : x \in Actors
    BY WatcherIs DEF Places
  <2> QED BY <1>0, <1>1, <2>1
<1>3. OnWatch(w)' /\ \A x \in Watchers : OnWatch(x)' => x = w
  BY <1>2 DEF OnWatch
<1> QED BY <1>1, <1>2, <1>3 DEF WatchInv, WatchModeHolds, IterationsRestored, ChangesWait, OnWatch

\* The turn of an actor ends, and the question it may have had.
LEMMA FinishKeeps ==
  ASSUME WatchInv, NEW a \in Actors \ {"search"}, Finish(a), does[a] # "free",
         \A w \in Watchers : question' = w => w # a /\ question = w
  PROVE  WatchInv'
<1> USE DEF Places, Playing
<1>0. Playing /\ "search" \in Actors /\ a \in Actors /\ \A w \in Watchers : w \in Actors
  BY WatcherIs DEF WatchInv, Actors
<1>1. CASE a = "loop"
  <2>1. does' = [does EXCEPT ![a] = "prompt"] /\ UNCHANGED watchvars
    BY <1>1 DEF Finish
  <2>2. "prompt" \in Places /\ \A w \in Watchers : w # a
    BY <1>1, WatcherIs DEF Places
  <2>3. Playing' /\ \A w \in Watchers : does'[w] = does[w]
    BY <1>0, <2>1, <2>2
  <2> QED BY <2>1, <2>3, RunsGoOn DEF OnWatch, WatchInv
<1>2. CASE a # "loop"
  <2>1. a \in Watchers /\ FinishWatch(a) /\ OnWatch(a)
    BY <1>0, <1>2 DEF Finish, Actors, OnWatch
  <2>2. \A w \in Watchers : w # a => does[w] = "free"
    BY <2>1 DEF WatchInv, OnWatch
  <2>3. \A w \in Watchers : question' # w
    BY <2>2 DEF WatchInv
  <2>4. prior[a] = Base
    BY <2>1 DEF WatchInv
  <2> DEFINE places == [does EXCEPT ![a] = "free"]
  <2>5. places \in [Actors -> Places] /\ places["search"] \in {"free", "query", "lost"} /\ \A w \in Watchers : places[w] = "free"
    <3>1. "free" \in Places
      BY DEF Places
    <3>2. /\ places \in [Actors -> Places] /\ places["search"] \in {"free", "query", "lost"} /\ places[a] = "free"
          /\ \A w \in Actors : w # a => places[w] = does[w]
      BY <1>0, <3>1
    <3> QED BY <1>0, <2>2, <3>2
  <2>6. CASE queued
    <3>1. RunWatchPrompt(a, places, prior[a])
      BY <2>1, <2>6 DEF FinishWatch
    <3> HIDE DEF places
    <3> QED BY <2>1, <2>3, <2>4, <2>5, <3>1, RunStarts
  <2>7. CASE ~queued
    <3>1. /\ running' = FALSE /\ iterations' = Base /\ does' = places
          /\ UNCHANGED <<active, limit, timer, queued, prior, unrun>>
      BY <2>1, <2>4, <2>7 DEF FinishWatch
    <3> HIDE DEF places
    <3> QED BY <2>3, <2>5, <2>7, <3>1
            DEF WatchInv, WatchModeHolds, IterationsRestored, ChangesWait, OnWatch
  <2> QED BY <2>6, <2>7
<1> QED BY <1>1, <1>2

LEMMA TurnKeeps ==
  ASSUME WatchInv, NEW a \in Actors \ {"search"}, Turn(a)
  PROVE  WatchInv'
<1> USE DEF Places, Playing
<1>0. Playing /\ "search" \in Actors /\ a \in Actors /\ \A w \in Watchers : w \in Actors
  BY WatcherIs DEF WatchInv, Actors
<1>1. ASSUME NEW place \in {"confirm", "offer"}, Does(a, {"asking"}), Question(a, place),
             UNCHANGED watchvars
      PROVE  WatchInv'
  <2>1. PICK p \in {place, "lost"} : does' = [does EXCEPT ![a] = p] /\ (question' = a => p = place \/ question = a)
    BY <1>1 DEF Question
  <2>2. question' = question \/ question' = a
    BY <1>1 DEF Question
  <2>3. \A w \in Watchers : question = w => w # a
    BY <1>1 DEF WatchInv, Does
  <2>4. Playing' /\ does'[a] = p /\ \A w \in Actors : w # a => does'[w] = does[w]
    BY <1>0, <1>1, <2>1
  <2>5. ASSUME NEW w \in Watchers PROVE OnWatch(w)' <=> OnWatch(w)
    BY <1>0, <1>1, <2>4 DEF OnWatch, Does
  <2>6. ASSUME NEW w \in Watchers, question' = w PROVE does'[w] \in {"confirm", "offer", "message"}
    BY <1>0, <1>1, <2>1, <2>2, <2>3, <2>4, <2>6 DEF WatchInv
  <2> QED BY <1>1, <2>4, <2>5, <2>6, RunsGoOn
<1>2. ASSUME Asks(a) \/ Offer(a) PROVE WatchInv'
  BY <1>1, <1>2 DEF Asks, Offer
<1>3. ASSUME Confirmed(a) PROVE WatchInv'
  <2>1. UNCHANGED watchvars /\ does[a] = "confirm"
    BY <1>3 DEF Confirmed, Does
  <2>2. CASE Answers(a, "asking")
    <3>1. question' = "none" /\ does' = [does EXCEPT ![a] = "asking"]
      BY <2>2 DEF Answers
    <3>2. Playing' /\ does'[a] = "asking" /\ \A w \in Actors : w # a => does'[w] = does[w]
      BY <1>0, <3>1
    <3> QED BY <1>0, <2>1, <3>1, <3>2, WatcherIs, RunsGoOn DEF OnWatch
  <2>3. CASE UNCHANGED <<does, question>>
    BY <1>0, <2>1, <2>3, RunsGoOn DEF OnWatch, WatchInv
  <2> QED BY <1>3, <2>2, <2>3 DEF Confirmed
<1>4. ASSUME Message(a) PROVE WatchInv'
  <2>1. /\ does[a] = "offer" /\ question' = question /\ UNCHANGED watchvars
        /\ does' = [does EXCEPT ![a] = "message"]
    BY <1>4 DEF Message, Does
  <2>2. Playing' /\ does'[a] = "message" /\ \A w \in Actors : w # a => does'[w] = does[w]
    BY <1>0, <2>1
  <2> QED BY <1>0, <2>1, <2>2, RunsGoOn DEF OnWatch, WatchInv
<1>6. ASSUME TurnEnds(a) PROVE WatchInv'
  BY <1>6, FinishKeeps DEF TurnEnds, Does, WatchInv
<1>7. ASSUME Offered(a) PROVE WatchInv'
  BY <1>7, FinishKeeps, WatcherIs DEF Offered, Does
<1> QED BY <1>2, <1>3, <1>4, <1>6, <1>7 DEF Turn

LEMMA LoopKeeps ==
  ASSUME WatchInv, Prompt \/ LoopEnds \/ Dispatch \/ Search \/ Searched
  PROVE  WatchInv'
<1> USE DEF Places, Playing
<1>0. Playing /\ "loop" \in Actors /\ "search" \in Actors
  BY DEF WatchInv, Actors
<1>1. ASSUME NEW a \in {"loop", "search"}, NEW p \in Places, does' = [does EXCEPT ![a] = p],
             a = "search" => p \in {"free", "query", "lost"},
             \A w \in Watchers : question' = w => question = w
      PROVE  /\ Playing' /\ \A w \in Watchers : OnWatch(w)' <=> OnWatch(w)
             /\ \A w \in Watchers : question' = w => does'[w] \in {"confirm", "offer", "message"}
  <2>1. Playing' /\ \A w \in Actors : w # a => does'[w] = does[w]
    BY <1>0, <1>1
  <2> QED BY <1>1, <2>1, WatcherIs DEF OnWatch, WatchInv
<1>2. ASSUME NEW place, Line(place), place \in Places
      PROVE  /\ Playing' /\ \A w \in Watchers : OnWatch(w)' <=> OnWatch(w)
             /\ \A w \in Watchers : question' = w => does'[w] \in {"confirm", "offer", "message"}
  BY <1>1, <1>2, WatcherIs DEF Line, Answers
<1>3. ASSUME Prompt PROVE WatchInv'
  <2>1. UNCHANGED watchvars /\ Question("loop", "reading")
    BY <1>3 DEF Prompt
  <2> QED BY <1>1, <2>1, WatcherIs, RunsGoOn DEF Question
<1>4. ASSUME LoopEnds PROVE WatchInv'
  BY <1>1, <1>4, WatchStops DEF LoopEnds
<1>5. ASSUME Task \/ Edit \/ Shell \/ Quit PROVE WatchInv'
  BY <1>2, <1>5, RunsGoOn DEF Task, Edit, Shell, Quit
<1>6. ASSUME ShellEnds PROVE WatchInv'
  BY <1>1, <1>6, RunsGoOn DEF ShellEnds
<1>7. ASSUME Watch PROVE WatchInv'
  <2>1. Line("prompt")
    BY <1>7 DEF Watch
  <2>2. CASE StopWatchMode
    BY <1>2, <2>1, <2>2, WatchStops
  <2>3. ASSUME NEW l \in Limits, NEW ok \in BOOLEAN, StartWatchMode(l, ok) PROVE WatchInv'
    BY <1>2, <2>1, <2>3
       DEF StartWatchMode, WatchInv, WatchModeHolds, IterationsRestored, ChangesWait, OnWatch
  <2> QED BY <1>7, <2>2, <2>3 DEF Watch
<1>8. ASSUME Search PROVE WatchInv'
  <2>1. UNCHANGED watchvars /\ Question("search", "query")
    BY <1>8 DEF Search
  <2> QED BY <1>1, <2>1, WatcherIs, RunsGoOn DEF Question
<1>9. ASSUME Searched PROVE WatchInv'
  <2>1. UNCHANGED watchvars /\ Answers("search", "free")
    BY <1>9 DEF Searched
  <2> QED BY <1>1, <2>1, WatcherIs, RunsGoOn DEF Answers
<1> QED BY <1>3, <1>4, <1>5, <1>6, <1>7, <1>8, <1>9 DEF Dispatch

LEMMA SignalsKeep ==
  ASSUME WatchInv, InputEnds \/ Interrupt \/ Forgotten \/ Terminate \/ SaveCurrentSession \/ Shutdown
  PROVE  WatchInv'
<1> USE DEF Places, Playing
<1>0. Playing /\ "search" \in Actors /\ \A w \in Watchers : w \in Actors
  BY WatcherIs DEF WatchInv, Actors
<1>1. ASSUME InputEnds PROVE WatchInv'
  <2>1. question' = "none" /\ \A w \in Watchers : question' # w
    BY <1>1, WatcherIs DEF InputEnds
  <2>2. CASE question \in Actors /\ does[question] \in {"offer", "message"}
    <3>1. question # "search" /\ Finish(question)
      BY <1>0, <1>1, <2>2 DEF InputEnds
    <3> QED BY <2>1, <2>2, <3>1, FinishKeeps
  <2>3. CASE ~(question \in Actors /\ does[question] \in {"offer", "message"})
    <3>1. /\ does' = [a \in Actors |->
                IF a # question THEN does[a]
                ELSE CASE does[a] = "reading" -> "prompt" [] does[a] = "confirm" -> "asking"
                       [] OTHER -> "free"]
          /\ UNCHANGED watchvars
      BY <1>1, <2>3 DEF InputEnds
    <3>2. Playing'
      BY <1>0, <3>1
    <3>3. ASSUME NEW w \in Watchers PROVE OnWatch(w)' <=> OnWatch(w)
      BY <1>0, <2>3, <3>1 DEF OnWatch, WatchInv
    <3> QED BY <2>1, <3>1, <3>2, <3>3, RunsGoOn
  <2> QED BY <2>2, <2>3
<1>2. ASSUME UNCHANGED <<does, question>>, StopWatchMode PROVE WatchInv'
  BY <1>0, <1>2, WatchStops DEF OnWatch, WatchInv
<1>3. ASSUME UNCHANGED <<does, question, watchvars>> PROVE WatchInv'
  BY <1>0, <1>3, RunsGoOn DEF OnWatch, WatchInv
<1>4. ASSUME Interrupt PROVE WatchInv'
  BY <1>2, <1>3, <1>4 DEF Interrupt
<1> QED BY <1>1, <1>2, <1>3, <1>4 DEF Forgotten, Terminate, SaveCurrentSession, Shutdown

LEMMA TimerKeeps ==
  ASSUME WatchInv, Change \/ Debounced
  PROVE  WatchInv'
<1>1. ASSUME Change PROVE WatchInv'
  BY <1>1 DEF Change, WatchInv, WatchModeHolds, IterationsRestored, ChangesWait, OnWatch, Playing
<1>2. ASSUME Debounced PROVE WatchInv'
  <2>1. question' = question
    BY <1>2 DEF Debounced
  <2>2. ASSUME ~running, NEW w \in Watchers, RunWatchPrompt(w, does, iterations) PROVE WatchInv'
    <3>1. Playing /\ \A x \in Watchers : does[x] = "free"
      BY <2>2 DEF WatchInv, OnWatch, Playing
    <3>2. iterations = Base /\ \A x \in Watchers : question' # x
      BY <2>1, <3>1 DEF WatchInv, WatchModeHolds, IterationsRestored
    <3> QED BY <2>2, <3>1, <3>2, RunStarts DEF Playing
  <2>3. ASSUME /\ queued' = (queued \/ active) /\ ~(active /\ ~running)
               /\ UNCHANGED <<does, active, watched, limit, running, iterations, prior, unrun>>
        PROVE  WatchInv'
    BY <2>1, <2>3 DEF WatchInv, WatchModeHolds, IterationsRestored, ChangesWait, OnWatch, Playing
  <2> QED BY <1>2, <2>2, <2>3 DEF Debounced, RunRefused
<1> QED BY <1>1, <1>2

\* The inductive invariant of the line interface and watch mode.
THEOREM WatchInvariant == ReplSpec => []WatchInv
<1>1. ReplInit => WatchInv
  <2> SUFFICES ASSUME ReplInit PROVE WatchInv
    OBVIOUS
  <2>1. Playing /\ \A w \in Watchers : does[w] = "free" /\ question # w
    BY WatcherIs DEF ReplInit, Playing, Places, Actors
  <2> QED BY <2>1 DEF ReplInit, WatchInv, WatchModeHolds, IterationsRestored, ChangesWait, OnWatch, Playing
<1>2. WatchInv /\ [ReplNext]_rvars => WatchInv'
  <2> SUFFICES ASSUME WatchInv, [ReplNext]_rvars PROVE WatchInv'
    OBVIOUS
  <2>1. ASSUME UNCHANGED rvars PROVE WatchInv'
    BY <2>1 DEF rvars, watchvars, WatchInv, WatchModeHolds, IterationsRestored, ChangesWait, OnWatch, Playing
  <2> QED BY <2>1, TimerKeeps, TurnKeeps, LoopKeeps, SignalsKeep DEF ReplNext
<1> QED BY <1>1, <1>2, PTL DEF ReplSpec

\* Watch mode gives the user's number of iterations back, and forgets no change of a file.
THEOREM WatchModeIsKept == ReplSpec => []WatchModeHolds
<1>1. WatchInv => WatchModeHolds
  BY DEF WatchInv
<1> QED BY <1>1, WatchInvariant, PTL
=============================================================================
