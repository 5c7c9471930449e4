-------------------------- MODULE BotTurns_proofs --------------------------
(***************************************************************************)
(* For any number of messages, sessions, turns and agents, and every limit *)
(* of the bot: as long as the user sends messages, /cancel and /escalate,  *)
(* a running ask can be reached by /cancel and by the watchdog; and if     *)
(* sessions can be created and placeholders sent, no session stays in      *)
(* flight, or escalated, without a turn that will see to it.  Whatever the *)
(* user's commands are, no message is worked on twice.                     *)
(***************************************************************************)
EXTENDS BotTurns, WellFoundedInduction, SequenceTheorems, TLAPS

\* The session of the chat is replaced by nobody but its own turns.
OwnCommands == Commands \subseteq {"cancel", "escalate"}

\* Where a turn works on the session of the chat; and where it, or one back from a call of
\* processMessage, is all that does.
Owning == {"escalating", "keyword", "init", "local", "request", "waitCompact", "waitServer",
           "notify", "autoEsc", "closing"}
Idle == {"free", "nested"}
Pcs == Owning \cup Idle \cup {"resumed", "deesc"}

TurnRec ==
  [pc : Pcs, sess : Sids \cup {0}, id : Nat, msg : Msgs \cup {NoMsg}, agent : Agents \cup {0},
   fresh : Sids \cup {0}, aborted : BOOLEAN, signalled : BOOLEAN, pending : BOOLEAN,
   compacted : Sids \cup {0}, grace : Nat, rounds : Nat, last : BOOLEAN,
   parent : Tids \cup {0}]

SessRec ==
  [inFlight : BOOLEAN, state : {"idle", "running", "canceling", "resetting"}, queue : Seq(Msgs),
   turnId : Nat, ctrl : Tids \cup {0}, agent : Agents \cup {0}, pendingEsc : 0..NModels,
   model : 0..NModels, escCount : Nat, compacts : Nat, stale : BOOLEAN]

Sessions == [Sids -> SessRec]
Turns == [Tids -> TurnRec]

\* What a turn t with record r has of the chat's session c.
Stands(ss, r, t, c) ==
  /\ r.pc \in Owning => /\ c # 0 /\ r.sess = c /\ r.msg \in Msgs
                        /\ ss[c].inFlight /\ ss[c].turnId = r.id
  /\ r.pc \in {"local", "request", "waitCompact", "waitServer"} => ss[c].ctrl = t
  /\ r.pc \in {"escalating", "keyword", "autoEsc", "deesc"} => c # 0 /\ r.fresh = c
  /\ r.pc = "deesc" => ~CanBegin(ss, c)
  /\ r.pc = "notify" => EscOn

\* Of all turns of the chat but one, nothing is left to do before that one returns.
OneFront(tt) == \A t, u \in Tids : tt[t].pc \notin Idle /\ tt[u].pc \notin Idle => t = u

BudgetIsOfModel(ss, c) == c # 0 /\ ss[c].model = 0 => ss[c].escCount = 0

Sound(ss, tt, c) ==
  /\ ss \in Sessions /\ tt \in Turns /\ c \in Sids \cup {0}
  /\ OneFront(tt) /\ \A t \in Tids : Stands(ss, tt[t], t, c)
  /\ BudgetIsOfModel(ss, c)

\* What is in flight, and what is escalated, has a turn.
Tidy(ss, tt, c) ==
  c # 0 => /\ ss[c].inFlight => \E t \in Tids : tt[t].pc \in Owning
           /\ ss[c].model > 0 => \E t \in Tids : tt[t].pc \in Owning \cup {"resumed"}

Rest ==
  /\ timers \in Seq(Msgs) /\ unsent \subseteq Msgs
  /\ request \in [Agents -> Tids \cup {0}]
  /\ update.kind \in {"free", "create"}
  /\ update.kind = "create" => chat = 0 /\ update.msg \in Msgs

\* The inductive invariant.
TurnInv == Sound(sess, turn, chat) /\ (MayFail = {} => Tidy(sess, turn, chat)) /\ Rest

-----------------------------------------------------------------------------
(* Records *)

LEMMA Least ==
  ASSUME NEW S \in SUBSET Nat, S # {}
  PROVE  Pick(S) \in S
<1>1. PICK i \in S : \A j \in S : ~(<<j, i>> \in OpToRel(<, Nat))
  BY NatLessThanWellFounded, WFMin
<1>2. \A j \in S : ~(j < i)
  BY <1>1 DEF OpToRel
<1>3. \A j \in S : i <= j
  BY <1>2
<1> QED BY <1>3 DEF Pick

LEMMA Picks ==
  /\ FreeSids # {} => Pick(FreeSids) \in Sids /\ Pick(FreeSids) # 0
  /\ FreeTids # {} => Pick(FreeTids) \in Tids /\ turn[Pick(FreeTids)].pc = "free"
  /\ FreeAgents # {} => Pick(FreeAgents) \in Agents
<1>1. Sids \subseteq Nat \ {0} /\ Tids \subseteq Nat /\ Agents \subseteq Nat
  BY BotAssumption
<1>2. FreeSids \in SUBSET Nat /\ FreeTids \in SUBSET Nat /\ FreeAgents \in SUBSET Nat
  BY <1>1 DEF FreeSids, FreeTids, FreeAgents
<1>3. /\ FreeSids # {} => Pick(FreeSids) \in FreeSids
      /\ FreeTids # {} => Pick(FreeTids) \in FreeTids
      /\ FreeAgents # {} => Pick(FreeAgents) \in FreeAgents
  BY <1>2, Least
<1> QED BY <1>1, <1>3 DEF FreeSids, FreeTids, FreeAgents, Live

LEMMA NoTurnTyped ==
  NoTurn \in TurnRec /\ NoTurn.pc = "free" /\ NoTurn.msg = NoMsg
BY DEF NoTurn, TurnRec, Pcs, Idle

LEMMA NewSessionTyped ==
  ASSUME NEW a \in Agents \cup {0}
  PROVE  /\ NewSession(a) \in SessRec /\ ~NewSession(a).inFlight
         /\ NewSession(a).model = 0 /\ NewSession(a).escCount = 0
         /\ NewSession(a).state = "idle"
<1>1. <<>> \in Seq(Msgs) /\ 0 \in 0..NModels
  BY BotAssumption
<1> QED BY <1>1 DEF NewSession, SessRec

\* One session object changes.
LEMMA OneSession ==
  ASSUME NEW ss \in Sessions, NEW s \in Sids, NEW r \in SessRec
  PROVE  /\ [ss EXCEPT ![s] = r] \in Sessions /\ [ss EXCEPT ![s] = r][s] = r
         /\ \A q \in Sids \ {s} : [ss EXCEPT ![s] = r][q] = ss[q]
BY DEF Sessions

LEMMA BeginTurnIs ==
  ASSUME NEW ss \in Sessions, NEW s \in Sids
  PROVE  /\ BeginTurn(ss, s) \in Sessions
         /\ BeginTurn(ss, s)[s].inFlight /\ BeginTurn(ss, s)[s].turnId \in Nat
         /\ BeginTurn(ss, s)[s].model = ss[s].model
         /\ BeginTurn(ss, s)[s].escCount = ss[s].escCount
         /\ BeginTurn(ss, s)[s].pendingEsc = ss[s].pendingEsc
<1> DEFINE r == [ss[s] EXCEPT !.inFlight = TRUE, !.state = "running", !.turnId = @ + 1,
                              !.ctrl = 0, !.stale = FALSE, !.compacts = 0]
<1>1. BeginTurn(ss, s) = [ss EXCEPT ![s] = r]
  BY DEF BeginTurn, Sessions
<1>2. ss[s] \in SessRec /\ ss[s].turnId + 1 \in Nat
  BY DEF Sessions, SessRec
<1>3. /\ r \in SessRec /\ r.inFlight /\ r.turnId \in Nat
      /\ r.model = ss[s].model /\ r.escCount = ss[s].escCount
      /\ r.pendingEsc = ss[s].pendingEsc
  BY <1>2 DEF SessRec
<1> HIDE DEF r
<1>4. [ss EXCEPT ![s] = r] \in Sessions /\ [ss EXCEPT ![s] = r][s] = r
  BY <1>3, OneSession
<1> QED BY <1>1, <1>3, <1>4

LEMMA RecreateStartIs ==
  ASSUME NEW ss \in Sessions, NEW s \in Sids
  PROVE  /\ RecreateStart(ss, s) \in Sessions
         /\ RecreateStart(ss, s)[s].inFlight = ss[s].inFlight
         /\ RecreateStart(ss, s)[s].turnId = ss[s].turnId
         /\ RecreateStart(ss, s)[s].model = ss[s].model
         /\ RecreateStart(ss, s)[s].escCount = ss[s].escCount
         /\ RecreateStart(ss, s)[s].state = "resetting"
<1> DEFINE r == [ss[s] EXCEPT !.state = "resetting", !.queue = <<>>]
<1>1. RecreateStart(ss, s) = [ss EXCEPT ![s] = r]
  BY DEF RecreateStart, Sessions
<1>2. ss[s] \in SessRec /\ <<>> \in Seq(Msgs)
  BY DEF Sessions
<1>3. /\ r \in SessRec /\ r.inFlight = ss[s].inFlight /\ r.turnId = ss[s].turnId
      /\ r.model = ss[s].model /\ r.escCount = ss[s].escCount /\ r.state = "resetting"
  BY <1>2 DEF SessRec
<1> HIDE DEF r
<1>4. [ss EXCEPT ![s] = r] \in Sessions /\ [ss EXCEPT ![s] = r][s] = r
  BY <1>3, OneSession
<1> QED BY <1>1, <1>3, <1>4

LEMMA RecreateEndIs ==
  ASSUME NEW ss \in Sessions, NEW s \in Sids, NEW a \in Agents
  PROVE  /\ RecreateEnd(ss, s, a) \in Sessions
         /\ ~RecreateEnd(ss, s, a)[s].inFlight
         /\ RecreateEnd(ss, s, a)[s].state = "idle"
         /\ RecreateEnd(ss, s, a)[s].model = ss[s].model
         /\ RecreateEnd(ss, s, a)[s].escCount = ss[s].escCount
<1> DEFINE r == [ss[s] EXCEPT !.agent = a, !.inFlight = FALSE, !.state = "idle",
                              !.ctrl = 0, !.stale = TRUE]
<1>1. RecreateEnd(ss, s, a) = [ss EXCEPT ![s] = r]
  BY DEF RecreateEnd, Sessions
<1>2. ss[s] \in SessRec
  BY DEF Sessions
<1>3. /\ r \in SessRec /\ ~r.inFlight /\ r.state = "idle"
      /\ r.model = ss[s].model /\ r.escCount = ss[s].escCount
  BY <1>2 DEF SessRec
<1> HIDE DEF r
<1>4. [ss EXCEPT ![s] = r] \in Sessions /\ [ss EXCEPT ![s] = r][s] = r
  BY <1>3, OneSession
<1> QED BY <1>1, <1>3, <1>4

LEMMA FinishTurnIs ==
  ASSUME NEW ss \in Sessions, chat \in Sids, NEW id
  PROVE  /\ FinishTurn(ss, id) \in Sessions
         /\ FinishTurn(ss, id)[chat].inFlight => ss[chat].inFlight /\ ss[chat].turnId # id
         /\ ~ss[chat].inFlight /\ ss[chat].state = "idle" =>
              ~FinishTurn(ss, id)[chat].inFlight /\ FinishTurn(ss, id)[chat].state = "idle"
         /\ FinishTurn(ss, id)[chat].model = ss[chat].model
         /\ FinishTurn(ss, id)[chat].escCount = ss[chat].escCount
<1> DEFINE r == [ss[chat] EXCEPT !.inFlight = FALSE, !.state = "idle", !.ctrl = 0]
<1>1. CASE chat # 0 /\ ss[chat].turnId = id
  <2>1. FinishTurn(ss, id) = [ss EXCEPT ![chat] = r]
    BY <1>1 DEF FinishTurn, Sessions
  <2>2. ss[chat] \in SessRec
    BY DEF Sessions
  <2>3. /\ r \in SessRec /\ ~r.inFlight /\ r.state = "idle"
        /\ r.model = ss[chat].model /\ r.escCount = ss[chat].escCount
    BY <2>2 DEF SessRec
  <2> HIDE DEF r
  <2>4. [ss EXCEPT ![chat] = r] \in Sessions /\ [ss EXCEPT ![chat] = r][chat] = r
    BY <2>3, OneSession
  <2> QED BY <2>1, <2>3, <2>4
<1>2. CASE ~(chat # 0 /\ ss[chat].turnId = id)
  <2>1. FinishTurn(ss, id) = ss /\ chat # 0
    BY <1>2, BotAssumption DEF FinishTurn
  <2>2. ss[chat].turnId # id
    BY <1>2, <2>1
  <2> QED BY <2>1, <2>2
<1> QED BY <1>1, <1>2

\* An abort leaves every turn where it is.
SameTurns(tt, uu) ==
  \A u \in Tids : /\ uu[u].pc = tt[u].pc /\ uu[u].sess = tt[u].sess /\ uu[u].id = tt[u].id
                  /\ uu[u].msg = tt[u].msg /\ uu[u].fresh = tt[u].fresh
                  /\ uu[u].parent = tt[u].parent

LEMMA AbortIs ==
  ASSUME NEW ss \in Sessions, NEW tt \in Turns, NEW s \in Sids
  PROVE  /\ Abort(ss, tt, s) \in Turns /\ SameTurns(tt, Abort(ss, tt, s))
         /\ Signalled(tt, ss[s].ctrl) \in Turns /\ SameTurns(tt, Signalled(tt, ss[s].ctrl))
<1>1. ASSUME NEW c
      PROVE  Signalled(tt, c) \in Turns /\ SameTurns(tt, Signalled(tt, c))
  <2>1. ASSUME NEW u \in Tids
        PROVE  /\ Signalled(tt, c)[u] \in TurnRec
               /\ Signalled(tt, c)[u].pc = tt[u].pc /\ Signalled(tt, c)[u].sess = tt[u].sess
               /\ Signalled(tt, c)[u].id = tt[u].id /\ Signalled(tt, c)[u].msg = tt[u].msg
               /\ Signalled(tt, c)[u].fresh = tt[u].fresh
               /\ Signalled(tt, c)[u].parent = tt[u].parent
    <3>1. tt[u] \in TurnRec
      BY DEF Turns
    <3>2. \/ Signalled(tt, c)[u] = tt[u]
          \/ \E b \in BOOLEAN :
               Signalled(tt, c)[u] = [tt[u] EXCEPT !.signalled = TRUE, !.aborted = b]
      <4>1. (tt[u].aborted \/ (tt[u].pc = "request" /\ ~tt[u].signalled)) \in BOOLEAN
        OBVIOUS
      <4> QED BY <3>1, <4>1 DEF Signalled, TurnRec
    <3> QED BY <3>1, <3>2 DEF TurnRec
  <2>2. Signalled(tt, c) = [u \in Tids |-> Signalled(tt, c)[u]]
    BY DEF Signalled
  <2>3. Signalled(tt, c) \in [Tids -> TurnRec]
    BY <2>1, <2>2
  <2> QED BY <2>1, <2>3 DEF Turns, SameTurns
<1>2. ASSUME NEW uu \in Turns, NEW a
      PROVE  CancelledRequest(uu, a) \in Turns /\ SameTurns(uu, CancelledRequest(uu, a))
  <2>1. ASSUME NEW u \in Tids
        PROVE  /\ CancelledRequest(uu, a)[u] \in TurnRec
               /\ CancelledRequest(uu, a)[u].pc = uu[u].pc
               /\ CancelledRequest(uu, a)[u].sess = uu[u].sess
               /\ CancelledRequest(uu, a)[u].id = uu[u].id
               /\ CancelledRequest(uu, a)[u].msg = uu[u].msg
               /\ CancelledRequest(uu, a)[u].fresh = uu[u].fresh
               /\ CancelledRequest(uu, a)[u].parent = uu[u].parent
    <3>1. uu[u] \in TurnRec
      BY DEF Turns
    <3>2. \/ CancelledRequest(uu, a)[u] = uu[u]
          \/ CancelledRequest(uu, a)[u] = [uu[u] EXCEPT !.aborted = TRUE]
      BY DEF CancelledRequest
    <3> QED BY <3>1, <3>2 DEF TurnRec
  <2>2. CancelledRequest(uu, a) = [u \in Tids |-> CancelledRequest(uu, a)[u]]
    BY DEF CancelledRequest
  <2>3. CancelledRequest(uu, a) \in [Tids -> TurnRec]
    BY <2>1, <2>2
  <2> QED BY <2>1, <2>3 DEF Turns, SameTurns
<1>3. SameTurns(tt, Signalled(tt, ss[s].ctrl)) /\ Signalled(tt, ss[s].ctrl) \in Turns
  BY <1>1
<1>4. Abort(ss, tt, s) \in Turns /\ SameTurns(Signalled(tt, ss[s].ctrl), Abort(ss, tt, s))
  BY <1>2, <1>3 DEF Abort
<1> QED BY <1>3, <1>4 DEF SameTurns

-----------------------------------------------------------------------------
(* Fronts *)

\* The turn at the front moves, and stands where it comes.
LEMMA FrontMoves ==
  ASSUME NEW ss \in Sessions, NEW tt \in Turns, NEW c \in Sids \cup {0}, NEW t \in Tids,
         \A u \in Tids \ {t} : tt[u].pc \in Idle,
         Stands(ss, tt[t], t, c), BudgetIsOfModel(ss, c)
  PROVE  Sound(ss, tt, c)
<1>1. OneFront(tt)
  BY DEF OneFront
<1>2. ASSUME NEW u \in Tids PROVE Stands(ss, tt[u], u, c)
  <2>1. CASE tt[u].pc \in Idle
    BY <2>1 DEF Stands, Idle, Owning
  <2>2. CASE u = t
    BY <2>2
  <2> QED BY <2>1, <2>2
<1> QED BY <1>1, <1>2 DEF Sound

\* Nothing of what a turn stands on changes.
LEMMA NothingMoves ==
  ASSUME NEW ss, NEW tt, NEW c, Sound(ss, tt, c), NEW qq \in Sessions, NEW uu \in Turns,
         SameTurns(tt, uu),
         c # 0 => /\ qq[c].inFlight = ss[c].inFlight /\ qq[c].turnId = ss[c].turnId
                  /\ qq[c].ctrl = ss[c].ctrl /\ qq[c].model = ss[c].model
                  /\ qq[c].escCount = ss[c].escCount
                  /\ ~CanBegin(ss, c) => ~CanBegin(qq, c)
  PROVE  Sound(qq, uu, c) /\ (Tidy(ss, tt, c) => Tidy(qq, uu, c))
<1>1. \A u \in Tids : /\ uu[u].pc = tt[u].pc /\ uu[u].sess = tt[u].sess /\ uu[u].id = tt[u].id
                      /\ uu[u].msg = tt[u].msg /\ uu[u].fresh = tt[u].fresh
  BY DEF SameTurns
<1>2. OneFront(uu)
  BY <1>1 DEF Sound, OneFront
<1>3. ASSUME NEW u \in Tids PROVE Stands(qq, uu[u], u, c)
  <2>1. Stands(ss, tt[u], u, c)
    BY DEF Sound
  <2>2. CASE c # 0
    BY <1>1, <2>1, <2>2 DEF Stands
  <2>3. CASE c = 0
    <3>1. uu[u].pc \notin Owning /\ uu[u].pc # "deesc"
      BY <1>1, <2>1, <2>3 DEF Stands
    <3> QED BY <3>1 DEF Stands, Owning
  <2> QED BY <2>2, <2>3
<1>4. BudgetIsOfModel(qq, c)
  BY DEF Sound, BudgetIsOfModel
<1>5. Tidy(ss, tt, c) => Tidy(qq, uu, c)
  BY <1>1 DEF Tidy
<1> QED BY <1>2, <1>3, <1>4, <1>5 DEF Sound

\* A turn ends: the one that awaits it, if any, is all that is left.
LEMMA EndedSound ==
  ASSUME NEW ss \in Sessions, NEW tt \in Turns, NEW c \in Sids \cup {0}, NEW t \in Tids,
         \A u \in Tids \ {t} : tt[u].pc \in Idle, BudgetIsOfModel(ss, c)
  PROVE  Sound(ss, Ended(tt, t), c)
<1> DEFINE uu == Ended(tt, t)
<1>1. ASSUME NEW u \in Tids
      PROVE  /\ uu[u] \in TurnRec
             /\ uu[u].pc \in Idle \/ u = tt[t].parent
             /\ uu[u].pc \in Idle \cup {"resumed"}
  <2>1. tt[u] \in TurnRec
    BY DEF Turns
  <2>2. CASE u = t
    BY <2>2, NoTurnTyped DEF Ended, Idle
  <2>3. CASE u # t /\ tt[t].parent = u
    <3>1. uu[u] = [tt[u] EXCEPT !.pc = "resumed"]
      BY <2>3 DEF Ended
    <3> QED BY <2>1, <2>3, <3>1 DEF TurnRec, Pcs
  <2>4. CASE u # t /\ tt[t].parent # u
    BY <2>1, <2>4 DEF Ended
  <2> QED BY <2>2, <2>3, <2>4
<1>2. uu \in Turns
  <2>1. uu = [u \in Tids |-> uu[u]]
    BY DEF Ended
  <2> HIDE DEF uu
  <2> QED BY <1>1, <2>1 DEF Turns
<1> HIDE DEF uu
<1>3. OneFront(uu)
  BY <1>1 DEF OneFront
<1>4. ASSUME NEW u \in Tids PROVE Stands(ss, uu[u], u, c)
  BY <1>1 DEF Stands, Idle, Owning
<1> QED BY <1>2, <1>3, <1>4 DEF Sound, uu

\* Before a turn begins there is no other: nothing is in flight, or being recreated.
LEMMA NoFront ==
  ASSUME Sound(sess, turn, chat), Quiet, chat = 0 \/ CanBegin(sess, chat)
  PROVE  \A u \in Tids : turn[u].pc \in Idle
<1> SUFFICES ASSUME NEW u \in Tids PROVE turn[u].pc \in Idle
  OBVIOUS
<1>1. Stands(sess, turn[u], u, chat) /\ turn[u] \in TurnRec
  BY DEF Sound, Turns
<1>2. turn[u].pc \in Owning \cup Idle \cup {"resumed", "deesc"}
  BY <1>1 DEF TurnRec, Pcs
<1>3. turn[u].pc \notin Owning
  BY <1>1 DEF Stands, CanBegin
<1>4. turn[u].pc # "deesc"
  BY <1>1 DEF Stands
<1> QED BY <1>2, <1>3, <1>4 DEF Quiet

-----------------------------------------------------------------------------
(* The beginning of a turn *)

LEMMA AwaitRecreateIs ==
  ASSUME NEW ss \in Sessions, NEW tt \in Turns, NEW c \in Sids, NEW t \in Tids,
         NEW r \in TurnRec
  PROVE  LET p == AwaitRecreate(ss, tt, c, t, r)
         IN  /\ p.sess = RecreateStart(ss, c) /\ p.turn \in Turns
             /\ p.turn[t] = [r EXCEPT !.fresh = c]
             /\ \A u \in Tids \ {t} : p.turn[u].pc = tt[u].pc
<1>1. Abort(ss, tt, c) \in Turns /\ SameTurns(tt, Abort(ss, tt, c))
  BY AbortIs
<1>2. [r EXCEPT !.fresh = c] \in TurnRec
  BY DEF TurnRec
<1> QED BY <1>1, <1>2 DEF AwaitRecreate, Turns, SameTurns

\* A turn that holds the chat's session goes on to its first ask, or has the session
\* recreated first.
LEMMA KeywordCheckIs ==
  ASSUME NEW ss \in Sessions, NEW tt \in Turns, NEW c \in Sids, NEW t \in Tids,
         NEW r \in TurnRec, \A u \in Tids \ {t} : tt[u].pc \in Idle,
         r.sess = c, r.msg \in Msgs, ss[c].inFlight, ss[c].turnId = r.id,
         BudgetIsOfModel(ss, c)
  PROVE  LET p == KeywordCheck(ss, tt, c, t, r)
         IN  Sound(p.sess, p.turn, c) /\ p.turn[t].pc \in Owning
<1>1. ss[c] \in SessRec /\ c # 0 /\ Tier[r.msg] \in 0..NModels /\ NModels \in Nat
  BY BotAssumption DEF Sessions
<1>2. CASE Tier[r.msg] > ss[c].model
  <2> DEFINE q  == [ss[c] EXCEPT !.model = Tier[r.msg], !.escCount = @ + 1]
             qq == [ss EXCEPT ![c] = q]
             rr == [r EXCEPT !.pc = "keyword"]
  <2>1. KeywordCheck(ss, tt, c, t, r) = AwaitRecreate(qq, tt, c, t, rr)
    BY <1>2 DEF KeywordCheck, Sessions
  <2>2. /\ q \in SessRec /\ q.inFlight /\ q.turnId = r.id /\ q.model > 0
    <3>1. ss[c].escCount + 1 \in Nat /\ ss[c].model \in Nat
      BY <1>1 DEF SessRec
    <3>2. q.model = Tier[r.msg] /\ q.inFlight /\ q.turnId = r.id
      BY <1>1 DEF SessRec
    <3>3. q \in SessRec
      BY <1>1, <3>1 DEF SessRec
    <3> HIDE DEF q
    <3> QED BY <1>1, <1>2, <3>1, <3>2, <3>3
  <2>3. /\ rr \in TurnRec /\ rr.pc = "keyword" /\ rr.sess = c /\ rr.id = r.id
        /\ rr.msg = r.msg
    BY DEF TurnRec, Pcs, Owning
  <2> HIDE DEF q, rr
  <2>4. qq \in Sessions /\ qq[c] = q
    BY <2>2, OneSession
  <2> HIDE DEF qq
  <2> DEFINE p == AwaitRecreate(qq, tt, c, t, rr)
  <2>5. /\ p.sess = RecreateStart(qq, c) /\ p.turn \in Turns
        /\ p.turn[t] = [rr EXCEPT !.fresh = c]
        /\ \A u \in Tids \ {t} : p.turn[u].pc = tt[u].pc
    BY <2>3, <2>4, AwaitRecreateIs
  <2> HIDE DEF p
  <2>6. /\ p.sess \in Sessions /\ p.sess[c].inFlight /\ p.sess[c].turnId = r.id
        /\ p.sess[c].model > 0
    BY <2>2, <2>4, <2>5, RecreateStartIs
  <2>7. /\ p.turn[t].pc = "keyword" /\ p.turn[t].sess = c /\ p.turn[t].id = r.id
        /\ p.turn[t].msg \in Msgs /\ p.turn[t].fresh = c
    BY <2>3, <2>5 DEF TurnRec
  <2>8. Stands(p.sess, p.turn[t], t, c)
    BY <1>1, <2>6, <2>7 DEF Stands
  <2>9. BudgetIsOfModel(p.sess, c)
    BY <2>6 DEF BudgetIsOfModel
  <2>10. Sound(p.sess, p.turn, c)
    BY <2>5, <2>6, <2>8, <2>9, FrontMoves
  <2> QED BY <2>1, <2>7, <2>10 DEF p, Owning
<1>3. CASE ~(Tier[r.msg] > ss[c].model)
  <2> DEFINE rr == [r EXCEPT !.pc = "init"]
             uu == [tt EXCEPT ![t] = rr]
  <2>1. KeywordCheck(ss, tt, c, t, r) = [sess |-> ss, turn |-> uu]
    BY <1>3 DEF KeywordCheck
  <2>2. /\ rr \in TurnRec /\ rr.pc = "init" /\ rr.sess = c /\ rr.id = r.id
        /\ rr.msg = r.msg
    BY DEF TurnRec, Pcs, Owning
  <2> HIDE DEF rr
  <2>3. uu \in Turns /\ uu[t] = rr /\ \A u \in Tids \ {t} : uu[u] = tt[u]
    BY <2>2 DEF Turns
  <2> HIDE DEF uu
  <2>4. Stands(ss, uu[t], t, c)
    BY <1>1, <2>2, <2>3 DEF Stands
  <2>5. Sound(ss, uu, c)
    BY <2>3, <2>4, FrontMoves
  <2> QED BY <2>1, <2>2, <2>3, <2>5 DEF Owning
<1> QED BY <1>2, <1>3

\* processMessage: a new turn takes the session, if there is none.
LEMMA ProcessIs ==
  ASSUME NEW ss \in Sessions, NEW tt \in Turns, NEW c \in Sids, NEW m \in Msgs,
         NEW t \in Tids, NEW parent \in Tids \cup {0}, BudgetIsOfModel(ss, c),
         CanBegin(ss, c), \A u \in Tids : tt[u].pc \in Idle
  PROVE  LET p == Process(ss, tt, c, m, t, parent)
         IN  Sound(p.sess, p.turn, c) /\ p.turn[t].pc \in Owning
<1> DEFINE began == BeginTurn(ss, c)
           r     == [NoTurn EXCEPT !.sess = c, !.id = began[c].turnId, !.msg = m,
                                   !.parent = parent]
           model == ss[c].pendingEsc
<1>1. /\ began \in Sessions /\ began[c].inFlight /\ began[c].turnId \in Nat
      /\ began[c].model = ss[c].model /\ began[c].escCount = ss[c].escCount
      /\ began[c].pendingEsc = ss[c].pendingEsc
  BY BeginTurnIs
<1> HIDE DEF began
<1>2. r \in TurnRec /\ r.sess = c /\ r.id = began[c].turnId /\ r.msg = m
  BY <1>1, NoTurnTyped DEF NoTurn, TurnRec, Pcs, Idle
<1> HIDE DEF r
<1>3. ss[c] \in SessRec /\ began[c] \in SessRec /\ c # 0 /\ model \in 0..NModels
  BY <1>1, BotAssumption DEF Sessions, SessRec
<1>4. CASE model # 0
  <2> DEFINE q  == [began[c] EXCEPT !.pendingEsc = 0, !.model = model, !.escCount = @ + 1]
             qq == [began EXCEPT ![c] = q]
             rr == [r EXCEPT !.pc = "escalating"]
             p  == AwaitRecreate(qq, tt, c, t, rr)
  <2>1. Process(ss, tt, c, m, t, parent) = p
    BY <1>1, <1>4 DEF Process, began, r, Sessions
  <2>2. q \in SessRec /\ q.inFlight /\ q.turnId = r.id /\ q.model # 0
    <3>1. began[c].escCount + 1 \in Nat /\ 0 \in 0..NModels
      <4>1. began[c].escCount \in Nat
        BY <1>3 DEF SessRec
      <4> QED BY <4>1, BotAssumption
    <3> HIDE DEF model
    <3>2. q.model = model /\ q.inFlight /\ q.turnId = r.id
      BY <1>1, <1>2, <1>3 DEF SessRec
    <3>3. q \in SessRec
      BY <1>3, <3>1 DEF SessRec
    <3> HIDE DEF q
    <3> QED BY <1>4, <3>2, <3>3
  <2>3. /\ rr \in TurnRec /\ rr.pc = "escalating" /\ rr.sess = c /\ rr.id = r.id
        /\ rr.msg = m
    BY <1>2 DEF TurnRec, Pcs, Owning
  <2> HIDE DEF q, rr
  <2>4. qq \in Sessions /\ qq[c] = q
    BY <1>1, <2>2, OneSession
  <2> HIDE DEF qq
  <2>5. /\ p.sess = RecreateStart(qq, c) /\ p.turn \in Turns
        /\ p.turn[t] = [rr EXCEPT !.fresh = c]
        /\ \A u \in Tids \ {t} : p.turn[u].pc = tt[u].pc
    BY <2>3, <2>4, AwaitRecreateIs
  <2> HIDE DEF p
  <2>6. /\ p.sess \in Sessions /\ p.sess[c].inFlight /\ p.sess[c].turnId = r.id
        /\ p.sess[c].model # 0
    BY <2>2, <2>4, <2>5, RecreateStartIs
  <2>7. /\ p.turn[t].pc = "escalating" /\ p.turn[t].sess = c /\ p.turn[t].id = r.id
        /\ p.turn[t].msg = m /\ p.turn[t].fresh = c
    BY <2>3, <2>5 DEF TurnRec
  <2>8. Stands(p.sess, p.turn[t], t, c)
    BY <1>3, <2>6, <2>7 DEF Stands
  <2>9. BudgetIsOfModel(p.sess, c)
    BY <2>6 DEF BudgetIsOfModel
  <2>10. Sound(p.sess, p.turn, c)
    BY <2>5, <2>6, <2>8, <2>9, FrontMoves
  <2> QED BY <2>1, <2>7, <2>10 DEF Owning
<1>5. CASE model = 0
  <2>1. Process(ss, tt, c, m, t, parent) = KeywordCheck(began, tt, c, t, r)
    BY <1>5 DEF Process, began, r
  <2>2. BudgetIsOfModel(began, c)
    BY <1>1 DEF BudgetIsOfModel
  <2> QED BY <1>1, <1>2, <2>1, <2>2, KeywordCheckIs
<1> QED BY <1>4, <1>5

\* A turn that may find the session taken.
LEMMA ProcessSound ==
  ASSUME Sound(sess, turn, chat), chat # 0, Quiet, NEW m \in Msgs, FreeTids # {},
         MayFail = {} => Tidy(sess, turn, chat)
  PROVE  LET p == Process(sess, turn, chat, m, Pick(FreeTids), 0)
         IN  Sound(p.sess, p.turn, chat) /\ (MayFail = {} => Tidy(p.sess, p.turn, chat))
<1> DEFINE n == Pick(FreeTids)
           p == Process(sess, turn, chat, m, n, 0)
<1>1. n \in Tids
  BY Picks
<1>2. CASE CanBegin(sess, chat)
  <2>1. \A u \in Tids : turn[u].pc \in Idle
    BY <1>2, NoFront
  <2>2. Sound(p.sess, p.turn, chat) /\ p.turn[n].pc \in Owning
    BY <1>1, <1>2, <2>1, ProcessIs DEF Sound
  <2> HIDE DEF p, n
  <2>3. Tidy(p.sess, p.turn, chat)
    BY <1>1, <2>2 DEF Tidy
  <2> QED BY <2>2, <2>3 DEF p, n
<1>3. CASE ~CanBegin(sess, chat)
  <2>1. p = [sess |-> sess, turn |-> turn]
    BY <1>3 DEF Process
  <2> HIDE DEF p, n
  <2>2. p.sess = sess /\ p.turn = turn
    BY <2>1
  <2> QED BY <2>2 DEF p, n
<1> QED BY <1>2, <1>3

-----------------------------------------------------------------------------
(* Steps of a turn *)

\* A turn that moves is at the front: the others wait for a call.
LEMMA AtTheFront ==
  ASSUME Sound(sess, turn, chat), NEW t \in Tids, turn[t].pc \notin Idle
  PROVE  /\ \A u \in Tids \ {t} : turn[u].pc \in Idle
         /\ Stands(sess, turn[t], t, chat) /\ turn[t] \in TurnRec
         /\ sess \in Sessions /\ turn \in Turns /\ chat \in Sids \cup {0}
         /\ BudgetIsOfModel(sess, chat)
BY DEF Sound, OneFront, Turns

\* Its record changes, and that of its session.
LEMMA TurnMoves ==
  ASSUME Sound(sess, turn, chat), NEW t \in Tids, turn[t].pc \notin Idle,
         NEW ss \in Sessions, NEW tt \in Turns, tt[t].pc \in Owning,
         \A u \in Tids \ {t} : tt[u].pc = turn[u].pc,
         Stands(ss, tt[t], t, chat), BudgetIsOfModel(ss, chat)
  PROVE  Sound(ss, tt, chat) /\ Tidy(ss, tt, chat)
<1>1. \A u \in Tids \ {t} : tt[u].pc \in Idle
  BY AtTheFront
<1>2. Sound(ss, tt, chat)
  BY <1>1, AtTheFront, FrontMoves
<1>3. Tidy(ss, tt, chat)
  BY DEF Tidy
<1> QED BY <1>2, <1>3

LEMMA StartAskIs ==
  ASSUME Sound(sess, turn, chat), NEW t \in Tids, turn[t].pc \in Owning
  PROVE  LET p == StartAsk(sess, turn, t)
         IN  Sound(p.sess, p.turn, chat) /\ Tidy(p.sess, p.turn, chat)
<1>1. /\ Stands(sess, turn[t], t, chat) /\ turn[t] \in TurnRec /\ turn[t].pc \notin Idle
      /\ sess \in Sessions /\ turn \in Turns /\ chat \in Sids \cup {0}
      /\ BudgetIsOfModel(sess, chat)
  BY AtTheFront DEF Owning, Idle
<1>2. /\ chat # 0 /\ chat \in Sids /\ turn[t].sess = chat /\ turn[t].msg \in Msgs
      /\ sess[chat].inFlight /\ sess[chat].turnId = turn[t].id
      /\ sess[chat] \in SessRec
  BY <1>1 DEF Stands, Sessions
<1> DEFINE q  == [sess[chat] EXCEPT !.ctrl = t]
           ss == [sess EXCEPT ![chat] = q]
           r  == [turn[t] EXCEPT !.pc = "local", !.agent = sess[chat].agent,
                                 !.aborted = FALSE, !.signalled = FALSE, !.rounds = 0]
           tt == [turn EXCEPT ![t] = r]
<1>3. StartAsk(sess, turn, t) = [sess |-> ss, turn |-> tt]
  BY <1>1, <1>2 DEF StartAsk, Sessions, Turns
<1>4. /\ q \in SessRec /\ q.inFlight /\ q.turnId = turn[t].id /\ q.ctrl = t
      /\ q.model = sess[chat].model /\ q.escCount = sess[chat].escCount
  BY <1>2 DEF SessRec
<1>5. /\ r \in TurnRec /\ r.pc = "local" /\ r.sess = chat /\ r.id = turn[t].id
      /\ r.msg = turn[t].msg
  BY <1>1, <1>2 DEF TurnRec, SessRec, Pcs, Owning
<1> HIDE DEF q, r
<1>6. ss \in Sessions /\ ss[chat] = q
  BY <1>1, <1>2, <1>4, OneSession
<1>7. tt \in Turns /\ tt[t] = r /\ \A u \in Tids \ {t} : tt[u] = turn[u]
  BY <1>1, <1>5 DEF Turns
<1> HIDE DEF ss, tt
<1>8. Stands(ss, tt[t], t, chat) /\ BudgetIsOfModel(ss, chat) /\ tt[t].pc \in Owning
  BY <1>1, <1>2, <1>4, <1>5, <1>6, <1>7 DEF Stands, BudgetIsOfModel, Owning
<1>9. Sound(ss, tt, chat) /\ Tidy(ss, tt, chat)
  BY <1>1, <1>6, <1>7, <1>8, TurnMoves
<1> QED BY <1>3, <1>9

\* After a recreation the turn begins again on the session, or gives its message back and
\* ends.
LEMMA ReacquireIs ==
  ASSUME Sound(sess, turn, chat), NEW t \in Tids, turn[t].pc \in {"escalating", "keyword"},
         NEW ss \in Sessions, BudgetIsOfModel(ss, chat), NEW check \in BOOLEAN
  PROVE  LET p == Reacquire(ss, t, check)
         IN  /\ Sound(p.sess, p.turn, chat)
             /\ CanBegin(ss, chat) => Tidy(p.sess, p.turn, chat)
<1>1. /\ Stands(sess, turn[t], t, chat) /\ turn[t] \in TurnRec /\ turn[t].pc \notin Idle
      /\ turn \in Turns /\ \A u \in Tids \ {t} : turn[u].pc \in Idle
      /\ turn[t].pc \in Owning
  BY AtTheFront DEF Owning, Idle
<1>2. chat # 0 /\ chat \in Sids /\ turn[t].sess = chat /\ turn[t].msg \in Msgs
  BY <1>1 DEF Stands, Sound
<1> DEFINE began == BeginTurn(ss, chat)
           r     == [turn[t] EXCEPT !.id = began[chat].turnId, !.fresh = 0]
           p     == Reacquire(ss, t, check)
<1>3. CASE CanBegin(ss, chat)
  <2>1. /\ began \in Sessions /\ began[chat].inFlight /\ began[chat].turnId \in Nat
        /\ began[chat].model = ss[chat].model /\ began[chat].escCount = ss[chat].escCount
    BY <1>2, BeginTurnIs
  <2>2. [began EXCEPT ![chat] = began[chat]] = began
    BY <2>1 DEF Sessions
  <2> HIDE DEF began
  <2>3. /\ r \in TurnRec /\ r.sess = chat /\ r.id = began[chat].turnId
        /\ r.msg = turn[t].msg /\ r.pc = turn[t].pc
    BY <1>1, <1>2, <2>1 DEF TurnRec
  <2>4. BudgetIsOfModel(began, chat)
    BY <2>1 DEF BudgetIsOfModel
  <2>5. CASE check
    <3>1. p = KeywordCheck(began, turn, chat, t, r)
      BY <1>2, <1>3, <2>2, <2>5 DEF Reacquire, began
    <3> HIDE DEF r
    <3>2. /\ Sound(KeywordCheck(began, turn, chat, t, r).sess,
                   KeywordCheck(began, turn, chat, t, r).turn, chat)
          /\ KeywordCheck(began, turn, chat, t, r).turn[t].pc \in Owning
      BY <1>1, <1>2, <2>1, <2>3, <2>4, KeywordCheckIs
    <3> HIDE DEF p
    <3>3. Sound(p.sess, p.turn, chat) /\ p.turn[t].pc \in Owning
      BY <3>1, <3>2
    <3>4. Tidy(p.sess, p.turn, chat)
      BY <3>3 DEF Tidy
    <3> QED BY <3>3, <3>4 DEF p
  <2>6. CASE ~check
    <3> DEFINE rr == [r EXCEPT !.pc = "init"]
               tt == [turn EXCEPT ![t] = rr]
    <3>1. p = [sess |-> began, turn |-> tt]
      BY <1>2, <1>3, <2>2, <2>6 DEF Reacquire, began
    <3> HIDE DEF r
    <3>2. /\ rr \in TurnRec /\ rr.pc = "init" /\ rr.sess = chat
          /\ rr.id = began[chat].turnId /\ rr.msg = turn[t].msg
      BY <2>3 DEF TurnRec, Pcs, Owning
    <3> HIDE DEF rr
    <3>3. tt \in Turns /\ tt[t] = rr /\ \A u \in Tids \ {t} : tt[u] = turn[u]
      BY <1>1, <3>2 DEF Turns
    <3> HIDE DEF tt
    <3>4. Stands(began, tt[t], t, chat) /\ tt[t].pc \in Owning
      BY <1>2, <2>1, <3>2, <3>3 DEF Stands, Owning
    <3>5. Sound(began, tt, chat) /\ Tidy(began, tt, chat)
      BY <1>1, <2>1, <2>4, <3>3, <3>4, TurnMoves
    <3> HIDE DEF p
    <3>6. p.sess = began /\ p.turn = tt
      BY <3>1
    <3> QED BY <3>5, <3>6 DEF p
  <2> QED BY <2>5, <2>6
<1>4. CASE ~CanBegin(ss, chat)
  <2> DEFINE q  == [ss[chat] EXCEPT !.queue = <<turn[t].msg>> \o @]
             qq == [ss EXCEPT ![chat] = q]
  <2>1. p = [sess |-> qq, turn |-> Ended(turn, t)]
    BY <1>2, <1>4 DEF Reacquire, Sessions
  <2>2. ss[chat] \in SessRec /\ <<turn[t].msg>> \o ss[chat].queue \in Seq(Msgs)
    BY <1>2 DEF Sessions, SessRec
  <2>3. q \in SessRec /\ q.model = ss[chat].model /\ q.escCount = ss[chat].escCount
    BY <2>2 DEF SessRec
  <2> HIDE DEF q
  <2>4. qq \in Sessions /\ qq[chat] = q
    BY <1>2, <2>3, OneSession
  <2> HIDE DEF qq
  <2>5. BudgetIsOfModel(qq, chat)
    BY <2>3, <2>4 DEF BudgetIsOfModel
  <2>6. Sound(qq, Ended(turn, t), chat)
    BY <1>1, <1>2, <2>4, <2>5, EndedSound
  <2> HIDE DEF p
  <2>7. p.sess = qq /\ p.turn = Ended(turn, t)
    BY <2>1
  <2> QED BY <1>4, <2>6, <2>7 DEF p
<1> QED BY <1>3, <1>4

\* Where a turn asks, or closes, without more of its session.
LEMMA AskMoves ==
  ASSUME Sound(sess, turn, chat), NEW t \in Tids, turn[t].pc \in Owning,
         NEW r \in TurnRec, r.pc \in Owning \ {"escalating", "keyword", "autoEsc"},
         r.sess = turn[t].sess, r.id = turn[t].id, r.msg = turn[t].msg,
         r.pc \in {"local", "request", "waitCompact", "waitServer"} => t \in Asking,
         r.pc = "notify" => EscOn,
         NEW ss \in Sessions,
         chat # 0 => /\ ss[chat].inFlight = sess[chat].inFlight
                     /\ ss[chat].turnId = sess[chat].turnId
                     /\ ss[chat].ctrl = sess[chat].ctrl /\ ss[chat].model = sess[chat].model
                     /\ ss[chat].escCount = sess[chat].escCount
  PROVE  Sound(ss, [turn EXCEPT ![t] = r], chat) /\ Tidy(ss, [turn EXCEPT ![t] = r], chat)
<1> DEFINE tt == [turn EXCEPT ![t] = r]
<1>1. /\ Stands(sess, turn[t], t, chat) /\ turn[t].pc \notin Idle /\ turn \in Turns
      /\ BudgetIsOfModel(sess, chat)
  BY AtTheFront DEF Owning, Idle
<1>2. /\ tt \in Turns /\ tt[t] = r /\ \A u \in Tids \ {t} : tt[u] = turn[u]
  BY <1>1 DEF Turns
<1> HIDE DEF tt
<1>3. chat # 0 /\ turn[t].sess = chat /\ turn[t].msg \in Msgs /\ sess[chat].inFlight
      /\ sess[chat].turnId = turn[t].id
  BY <1>1 DEF Stands
<1>4. r.pc \in {"local", "request", "waitCompact", "waitServer"} => sess[chat].ctrl = t
  BY <1>1 DEF Stands, Asking
<1>5. Stands(ss, tt[t], t, chat)
  BY <1>2, <1>3, <1>4 DEF Stands, Owning
<1>6. BudgetIsOfModel(ss, chat)
  BY <1>1 DEF BudgetIsOfModel
<1>7. Sound(ss, tt, chat) /\ Tidy(ss, tt, chat)
  BY <1>1, <1>2, <1>5, <1>6, TurnMoves
<1> QED BY <1>7 DEF tt

\* The session of the chat changes in what turns do not stand on.
LEMMA SessionMoves ==
  ASSUME Sound(sess, turn, chat), chat # 0, NEW r \in SessRec, NEW tt \in Turns,
         SameTurns(turn, tt),
         r.inFlight = sess[chat].inFlight, r.turnId = sess[chat].turnId,
         r.ctrl = sess[chat].ctrl, r.model = sess[chat].model,
         r.escCount = sess[chat].escCount,
         r.state = sess[chat].state \/ (r.inFlight /\ r.state # "idle")
  PROVE  /\ Sound([sess EXCEPT ![chat] = r], tt, chat)
         /\ Tidy(sess, turn, chat) => Tidy([sess EXCEPT ![chat] = r], tt, chat)
<1> DEFINE ss == [sess EXCEPT ![chat] = r]
<1>1. sess \in Sessions /\ chat \in Sids
  BY DEF Sound
<1>2. ss \in Sessions /\ ss[chat] = r
  BY <1>1, OneSession
<1> HIDE DEF ss
<1>3. ~CanBegin(sess, chat) => ~CanBegin(ss, chat)
  BY <1>2 DEF CanBegin
<1>4. Sound(ss, tt, chat) /\ (Tidy(sess, turn, chat) => Tidy(ss, tt, chat))
  BY <1>2, <1>3, NothingMoves
<1> QED BY <1>4 DEF ss

LEMMA SameSame == SameTurns(turn, turn)
BY DEF SameTurns

-----------------------------------------------------------------------------
(* The steps *)

\* Looking at what is in flight.
LEMMA ProgressIs ==
  ASSUME Sound(sess, turn, chat), NEW t \in Tids
  PROVE  /\ Progress(sess, t) \in Sessions
         /\ chat # 0 => /\ Progress(sess, t)[chat].inFlight = sess[chat].inFlight
                        /\ Progress(sess, t)[chat].turnId = sess[chat].turnId
                        /\ Progress(sess, t)[chat].ctrl = sess[chat].ctrl
                        /\ Progress(sess, t)[chat].model = sess[chat].model
                        /\ Progress(sess, t)[chat].escCount = sess[chat].escCount
<1>1. sess \in Sessions /\ chat \in Sids \cup {0}
  BY DEF Sound
<1>2. CASE IsTurnActive(turn[t].id)
  <2> DEFINE r == [sess[chat] EXCEPT !.stale = FALSE]
  <2>1. chat \in Sids /\ sess[chat] \in SessRec
    BY <1>1, <1>2 DEF IsTurnActive, Sessions
  <2>2. Progress(sess, t) = [sess EXCEPT ![chat] = r]
    BY <1>1, <1>2, <2>1 DEF Progress, Sessions
  <2>3. /\ r \in SessRec /\ r.inFlight = sess[chat].inFlight /\ r.turnId = sess[chat].turnId
        /\ r.ctrl = sess[chat].ctrl /\ r.model = sess[chat].model
        /\ r.escCount = sess[chat].escCount
    BY <2>1 DEF SessRec
  <2> HIDE DEF r
  <2>4. [sess EXCEPT ![chat] = r] \in Sessions /\ [sess EXCEPT ![chat] = r][chat] = r
    BY <1>1, <2>1, <2>3, OneSession
  <2> QED BY <2>2, <2>3, <2>4
<1>3. CASE ~IsTurnActive(turn[t].id)
  BY <1>1, <1>3 DEF Progress
<1> QED BY <1>2, <1>3

\* What a step of an ask leaves of its turn.
AskStep(t) ==
  SendRequest(t) \/ ToolCalls(t) \/ Answer(t) \/ Aborted(t) \/ AskFails(t) \/ ServerWaited(t)

AskedPcs == {"local", "request", "waitCompact", "waitServer", "closing", "notify"}

LEMMA AskStepIs ==
  ASSUME sess \in Sessions, turn \in Turns, NEW t \in Tids, turn[t].sess \in Sids, AskStep(t)
  PROVE  \E r \in TurnRec :
           /\ turn' = [turn EXCEPT ![t] = r] /\ r.pc \in AskedPcs
           /\ r.sess = turn[t].sess /\ r.id = turn[t].id /\ r.msg = turn[t].msg
           /\ r.parent = turn[t].parent /\ (r.pc = "notify" => EscOn)
           /\ sess' \in {sess, Progress(sess, t)}
<1> DEFINE Goal == \E r \in TurnRec :
           /\ turn' = [turn EXCEPT ![t] = r] /\ r.pc \in AskedPcs
           /\ r.sess = turn[t].sess /\ r.id = turn[t].id /\ r.msg = turn[t].msg
           /\ r.parent = turn[t].parent /\ (r.pc = "notify" => EscOn)
           /\ sess' \in {sess, Progress(sess, t)}
<1>1. turn \in Turns
  OBVIOUS
<1>2. /\ turn[t] \in TurnRec /\ turn[t].rounds + 1 \in Nat /\ GraceAfter(t) \in Nat
      /\ sess \in Sessions
  <2>1. turn[t] \in TurnRec /\ turn[t].rounds \in Nat /\ turn[t].grace \in Nat
    BY <1>1 DEF Turns, TurnRec
  <2> QED BY <2>1 DEF GraceAfter
<1>3. sess[turn[t].sess].agent \in Agents \cup {0}
  BY DEF Sessions, SessRec
<1>4. ASSUME NEW r \in TurnRec, turn' = [turn EXCEPT ![t] = r],
             r.pc \in {"local", "request", "waitCompact", "waitServer", "closing", "notify"},
             r.sess = turn[t].sess, r.id = turn[t].id, r.msg = turn[t].msg,
             r.parent = turn[t].parent,
             r.pc = "notify" => EscOn, sess' \in {sess, Progress(sess, t)}
      PROVE  Goal
  BY <1>4 DEF AskedPcs
<1> HIDE DEF Goal
<1> SUFFICES Goal
  BY DEF Goal
<1>5. CASE SendRequest(t)
  <2> DEFINE r == [turn[t] EXCEPT !.pc = "request", !.rounds = @ + 1]
  <2>1. turn' = [turn EXCEPT ![t] = r] /\ sess' = sess
    BY <1>1, <1>5 DEF SendRequest, Turns
  <2>2. /\ r \in TurnRec /\ r.pc = "request" /\ r.sess = turn[t].sess /\ r.id = turn[t].id
        /\ r.msg = turn[t].msg /\ r.parent = turn[t].parent
    BY <1>2 DEF TurnRec, Pcs, Owning
  <2> HIDE DEF r
  <2> QED BY <1>4, <2>1, <2>2
<1>6. CASE ToolCalls(t)
  <2>1. PICK b \in BOOLEAN : turn' = [turn EXCEPT ![t].pc = "local", ![t].aborted = b,
                                                  ![t].grace = GraceAfter(t)]
    BY <1>2, <1>6 DEF ToolCalls, TurnRec
  <2> DEFINE r == [turn[t] EXCEPT !.pc = "local", !.aborted = b, !.grace = GraceAfter(t)]
  <2>2. turn' = [turn EXCEPT ![t] = r] /\ sess' = Progress(sess, t)
    BY <1>1, <1>6, <2>1 DEF ToolCalls, Turns
  <2>3. /\ r \in TurnRec /\ r.pc = "local" /\ r.sess = turn[t].sess /\ r.id = turn[t].id
        /\ r.msg = turn[t].msg /\ r.parent = turn[t].parent
    <3>1. ASSUME NEW g \in Nat
          PROVE  [turn[t] EXCEPT !.pc = "local", !.aborted = b, !.grace = g] \in TurnRec
      BY <1>2, <2>1 DEF TurnRec, Pcs, Owning
    <3>2. r \in TurnRec
      BY <1>2, <3>1
    <3>3. /\ r.pc = "local" /\ r.sess = turn[t].sess /\ r.id = turn[t].id
          /\ r.msg = turn[t].msg /\ r.parent = turn[t].parent
      BY <1>2 DEF TurnRec
    <3> QED BY <3>2, <3>3
  <2> HIDE DEF r
  <2> QED BY <1>4, <2>2, <2>3
<1>7. ASSUME NEW pc \in {"notify", "closing", "waitCompact", "waitServer"}
      PROVE  /\ AskOver(t, pc) \in TurnRec /\ AskOver(t, pc).pc = pc
             /\ AskOver(t, pc).sess = turn[t].sess /\ AskOver(t, pc).id = turn[t].id
             /\ AskOver(t, pc).msg = turn[t].msg /\ AskOver(t, pc).parent = turn[t].parent
  <2>1. (turn[t].signalled /\ pc = "waitServer") \in BOOLEAN
    OBVIOUS
  <2>2. pc \in Pcs
    BY <1>7 DEF Pcs, Owning
  <2> QED BY <1>2, <2>1, <2>2 DEF AskOver, TurnRec
<1>8. CASE Answer(t)
  <2>1. PICK up \in BOOLEAN :
          /\ up => EscOn
          /\ turn' = [turn EXCEPT ![t] = [AskOver(t, IF up THEN "notify" ELSE "closing")
                                            EXCEPT !.grace = GraceAfter(t)]]
    <3>1. PICK marker \in BOOLEAN :
            LET s == sess[turn[t].sess]
                up == marker /\ EscOn /\ ~turn[t].last /\ s.escCount < MaxEscalations
            IN  turn' = [turn EXCEPT ![t] = [AskOver(t, IF up THEN "notify" ELSE "closing")
                                               EXCEPT !.grace = GraceAfter(t)]]
      BY <1>8 DEF Answer
    <3>2. CASE marker /\ EscOn /\ ~turn[t].last /\ sess[turn[t].sess].escCount < MaxEscalations
      BY <3>1, <3>2
    <3>3. CASE ~(marker /\ EscOn /\ ~turn[t].last /\ sess[turn[t].sess].escCount < MaxEscalations)
      BY <3>1, <3>3
    <3> QED BY <3>2, <3>3
  <2> DEFINE pc == IF up THEN "notify" ELSE "closing"
             r  == [AskOver(t, pc) EXCEPT !.grace = GraceAfter(t)]
  <2>2. pc \in {"notify", "closing"} /\ (pc = "notify" => EscOn)
    BY <2>1
  <2>3. turn' = [turn EXCEPT ![t] = r] /\ sess' = Progress(sess, t)
    BY <1>8, <2>1 DEF Answer
  <2> HIDE DEF pc
  <2>4. /\ r \in TurnRec /\ r.pc = pc /\ r.sess = turn[t].sess /\ r.id = turn[t].id
        /\ r.msg = turn[t].msg /\ r.parent = turn[t].parent
    <3>1. /\ AskOver(t, pc) \in TurnRec /\ AskOver(t, pc).pc = pc
          /\ AskOver(t, pc).sess = turn[t].sess /\ AskOver(t, pc).id = turn[t].id
          /\ AskOver(t, pc).msg = turn[t].msg /\ AskOver(t, pc).parent = turn[t].parent
      BY <1>7, <2>2
    <3> QED BY <1>2, <3>1 DEF TurnRec
  <2> HIDE DEF r
  <2> QED BY <1>4, <2>2, <2>3, <2>4
<1>9. CASE Aborted(t) \/ AskFails(t)
  <2>1. PICK pc \in {"closing", "waitCompact", "waitServer"} :
          turn' = [turn EXCEPT ![t] = AskOver(t, pc)] /\ sess' = sess
    BY <1>9 DEF Aborted, AskFails
  <2>2. /\ AskOver(t, pc) \in TurnRec /\ AskOver(t, pc).pc = pc
        /\ AskOver(t, pc).sess = turn[t].sess /\ AskOver(t, pc).id = turn[t].id
        /\ AskOver(t, pc).msg = turn[t].msg /\ AskOver(t, pc).parent = turn[t].parent
    BY <1>7
  <2> QED BY <1>4, <2>1, <2>2
<1>10. CASE ServerWaited(t)
  <2> DEFINE r == [turn[t] EXCEPT !.pc = "local", !.last = TRUE, !.rounds = 0,
                                  !.agent = sess[turn[t].sess].agent]
             q == [turn[t] EXCEPT !.pc = "closing"]
  <2>1. sess' = sess /\ (turn' = [turn EXCEPT ![t] = r] \/ turn' = [turn EXCEPT ![t] = q])
    BY <1>1, <1>10 DEF ServerWaited, Turns
  <2>2. /\ r \in TurnRec /\ r.pc = "local" /\ r.sess = turn[t].sess /\ r.id = turn[t].id
        /\ r.msg = turn[t].msg /\ r.parent = turn[t].parent
    <3>1. ASSUME NEW a \in Agents \cup {0}
          PROVE  [turn[t] EXCEPT !.pc = "local", !.last = TRUE, !.rounds = 0, !.agent = a]
                   \in TurnRec
      BY <1>2 DEF TurnRec, Pcs, Owning
    <3>2. r \in TurnRec
      BY <1>3, <3>1
    <3>3. /\ r.pc = "local" /\ r.sess = turn[t].sess /\ r.id = turn[t].id
          /\ r.msg = turn[t].msg /\ r.parent = turn[t].parent
      BY <1>2 DEF TurnRec
    <3> QED BY <3>2, <3>3
  <2>3. /\ q \in TurnRec /\ q.pc = "closing" /\ q.sess = turn[t].sess /\ q.id = turn[t].id
        /\ q.msg = turn[t].msg /\ q.parent = turn[t].parent
    BY <1>2 DEF TurnRec, Pcs, Owning
  <2> HIDE DEF r, q
  <2> QED BY <1>4, <2>1, <2>2, <2>3
<1> QED BY <1>5, <1>6, <1>8, <1>9, <1>10 DEF AskStep

LEMMA AskKeeps ==
  ASSUME TurnInv, NEW t \in Tids, AskStep(t)
  PROVE  TurnInv'
<1>1. /\ Sound(sess, turn, chat) /\ chat' = chat /\ t \in Asking /\ turn[t].pc \in Owning
      /\ UNCHANGED <<timers, update, unsent>>
  BY DEF TurnInv, AskStep, SendRequest, ToolCalls, Answer, Aborted, AskFails, ServerWaited, At,
         Owning, Asking
<1>2. sess \in Sessions /\ turn \in Turns /\ turn[t].sess \in Sids
  BY <1>1 DEF Sound, Stands
<1>3. request' \in [Agents -> Tids \cup {0}]
  BY DEF TurnInv, Rest, AskStep, SendRequest, ToolCalls, Answer, Aborted, AskFails, ServerWaited
<1>4. Rest'
  BY <1>1, <1>3 DEF TurnInv, Rest
<1>5. PICK r \in TurnRec :
        /\ turn' = [turn EXCEPT ![t] = r] /\ r.pc \in AskedPcs
        /\ r.sess = turn[t].sess /\ r.id = turn[t].id /\ r.msg = turn[t].msg
        /\ r.parent = turn[t].parent /\ (r.pc = "notify" => EscOn)
        /\ sess' \in {sess, Progress(sess, t)}
  BY <1>2, AskStepIs
<1>6. /\ sess' \in Sessions
      /\ chat # 0 => /\ sess'[chat].inFlight = sess[chat].inFlight
                     /\ sess'[chat].turnId = sess[chat].turnId
                     /\ sess'[chat].ctrl = sess[chat].ctrl
                     /\ sess'[chat].model = sess[chat].model
                     /\ sess'[chat].escCount = sess[chat].escCount
  BY <1>1, <1>2, <1>5, ProgressIs
<1>7. r.pc \in Owning \ {"escalating", "keyword", "autoEsc"}
  BY <1>5 DEF Owning, AskedPcs
<1>8. Sound(sess', turn', chat) /\ Tidy(sess', turn', chat)
  BY <1>1, <1>5, <1>6, <1>7, AskMoves
<1> QED BY <1>1, <1>4, <1>8 DEF TurnInv

LEMMA BeginKeeps ==
  ASSUME TurnInv, NEW t \in Tids,
         InitDone(t) \/ Retry(t) \/ InitFails(t) \/ EscalateDone(t) \/ KeywordDone(t)
  PROVE  TurnInv'
<1>1. /\ Sound(sess, turn, chat) /\ chat' = chat /\ turn[t].pc \in Owning
      /\ UNCHANGED <<timers, update, unsent, request>>
  BY DEF TurnInv, InitDone, Retry, InitFails, EscalateDone, KeywordDone, At, Owning
<1>2. /\ \A u \in Tids \ {t} : turn[u].pc \in Idle
      /\ Stands(sess, turn[t], t, chat) /\ turn[t] \in TurnRec
      /\ sess \in Sessions /\ turn \in Turns /\ chat \in Sids \cup {0}
      /\ BudgetIsOfModel(sess, chat)
  BY <1>1, AtTheFront DEF Owning, Idle
<1>3. Rest'
  BY <1>1 DEF TurnInv, Rest
<1>4. chat \in Sids
  BY <1>1, <1>2 DEF Stands
<1>5. CASE InitDone(t) \/ Retry(t)
  <2>1. sess' = StartAsk(sess, turn, t).sess /\ turn' = StartAsk(sess, turn, t).turn
    BY <1>5 DEF InitDone, Retry, Run
  <2> QED BY <1>1, <1>3, <2>1, StartAskIs DEF TurnInv
<1>6. CASE InitFails(t)
  <2>1. sess' = sess /\ turn' = Ended(turn, t) /\ MayFail # {}
    BY <1>6 DEF InitFails
  <2>2. Sound(sess', turn', chat)
    BY <1>2, <2>1, EndedSound
  <2> QED BY <1>1, <1>3, <2>1, <2>2 DEF TurnInv
<1>7. ASSUME turn[t].pc \in {"escalating", "keyword"}, NEW check \in BOOLEAN, NEW ss,
             \/ \E a \in Agents : ss = RecreateEnd(sess, chat, a)
             \/ MayFail # {} /\ ss = sess,
             sess' = Reacquire(ss, t, check).sess, turn' = Reacquire(ss, t, check).turn
      PROVE  TurnInv'
  <2>1. CASE \E a \in Agents : ss = RecreateEnd(sess, chat, a)
    <3>1. PICK a \in Agents : ss = RecreateEnd(sess, chat, a)
      BY <2>1
    <3>2. /\ ss \in Sessions /\ ~ss[chat].inFlight /\ ss[chat].state = "idle"
          /\ ss[chat].model = sess[chat].model /\ ss[chat].escCount = sess[chat].escCount
      BY <1>2, <1>4, <3>1, RecreateEndIs
    <3>3. CanBegin(ss, chat) /\ BudgetIsOfModel(ss, chat)
      BY <1>2, <1>4, <3>2, BotAssumption DEF CanBegin, BudgetIsOfModel
    <3>4. Sound(sess', turn', chat) /\ Tidy(sess', turn', chat)
      BY <1>1, <1>7, <3>2, <3>3, ReacquireIs
    <3> QED BY <1>1, <1>3, <3>4 DEF TurnInv
  <2>2. CASE MayFail # {} /\ ss = sess
    <3>1. Sound(sess', turn', chat)
      BY <1>1, <1>2, <1>7, <2>2, ReacquireIs
    <3> QED BY <1>1, <1>3, <2>2, <3>1 DEF TurnInv
  <2> QED BY <1>7, <2>1, <2>2
<1>8. CASE EscalateDone(t)
  <2>1. turn[t].pc = "escalating" /\ turn[t].fresh = chat
    BY <1>2, <1>8 DEF EscalateDone, At, Stands
  <2>2. CASE FreeAgents # {} /\ Run(Reacquire(RecreateEnd(sess, turn[t].fresh, Pick(FreeAgents)),
                                             t, TRUE))
    <3>1. Pick(FreeAgents) \in Agents
      BY <2>2, Picks
    <3>2. \E a \in Agents : RecreateEnd(sess, chat, Pick(FreeAgents)) = RecreateEnd(sess, chat, a)
      BY <3>1
    <3>3. /\ sess' = Reacquire(RecreateEnd(sess, chat, Pick(FreeAgents)), t, TRUE).sess
          /\ turn' = Reacquire(RecreateEnd(sess, chat, Pick(FreeAgents)), t, TRUE).turn
      BY <2>1, <2>2 DEF Run
    <3> QED BY <1>7, <2>1, <3>2, <3>3
  <2>3. CASE "createSession" \in MayFail /\ Run(Reacquire(sess, t, TRUE))
    <3>1. /\ sess' = Reacquire(sess, t, TRUE).sess /\ turn' = Reacquire(sess, t, TRUE).turn
          /\ MayFail # {}
      BY <2>3 DEF Run
    <3> QED BY <1>7, <2>1, <3>1
  <2> QED BY <1>8, <2>2, <2>3 DEF EscalateDone
<1>9. CASE KeywordDone(t)
  <2>1. turn[t].pc = "keyword" /\ turn[t].fresh = chat
    BY <1>2, <1>9 DEF KeywordDone, At, Stands
  <2>2. CASE FreeAgents # {} /\ Run(Reacquire(RecreateEnd(sess, turn[t].fresh, Pick(FreeAgents)),
                                             t, FALSE))
    <3>1. Pick(FreeAgents) \in Agents
      BY <2>2, Picks
    <3>2. \E a \in Agents : RecreateEnd(sess, chat, Pick(FreeAgents)) = RecreateEnd(sess, chat, a)
      BY <3>1
    <3>3. /\ sess' = Reacquire(RecreateEnd(sess, chat, Pick(FreeAgents)), t, FALSE).sess
          /\ turn' = Reacquire(RecreateEnd(sess, chat, Pick(FreeAgents)), t, FALSE).turn
      BY <2>1, <2>2 DEF Run
    <3> QED BY <1>7, <2>1, <3>2, <3>3
  <2>3. CASE turn' = [turn EXCEPT ![t].pc = "init", ![t].fresh = 0] /\ sess' = sess
    <3> DEFINE r == [turn[t] EXCEPT !.pc = "init", !.fresh = 0]
    <3>1. turn' = [turn EXCEPT ![t] = r]
      BY <1>2, <2>3 DEF Turns
    <3>2. /\ r \in TurnRec /\ r.pc = "init" /\ r.sess = turn[t].sess /\ r.id = turn[t].id
          /\ r.msg = turn[t].msg
      BY <1>2 DEF TurnRec, Pcs, Owning
    <3> HIDE DEF r
    <3>3. r.pc \in Owning \ {"escalating", "keyword", "autoEsc"}
      BY <3>2 DEF Owning
    <3>4. Sound(sess, [turn EXCEPT ![t] = r], chat) /\ Tidy(sess, [turn EXCEPT ![t] = r], chat)
      BY <1>1, <1>2, <3>2, <3>3, AskMoves
    <3> QED BY <1>1, <1>3, <2>3, <3>1, <3>4 DEF TurnInv
  <2> QED BY <1>9, <2>2, <2>3 DEF KeywordDone
<1> QED BY <1>5, <1>6, <1>8, <1>9

LEMMA AutoEscalateKeeps ==
  ASSUME TurnInv, NEW t \in Tids, AutoEscalate(t)
  PROVE  TurnInv'
<1>1. /\ Sound(sess, turn, chat) /\ chat' = chat /\ turn[t].pc = "notify"
      /\ UNCHANGED <<timers, update, unsent, request>>
  BY DEF TurnInv, AutoEscalate, At
<1>2. /\ Stands(sess, turn[t], t, chat) /\ turn[t] \in TurnRec
      /\ sess \in Sessions /\ turn \in Turns /\ chat \in Sids \cup {0}
  BY <1>1, AtTheFront DEF Owning, Idle
<1>3. Rest'
  BY <1>1 DEF TurnInv, Rest
<1>4. /\ chat # 0 /\ chat \in Sids /\ turn[t].sess = chat /\ turn[t].msg \in Msgs
      /\ sess[chat].inFlight /\ sess[chat].turnId = turn[t].id /\ EscOn
      /\ sess[chat] \in SessRec
  BY <1>1, <1>2 DEF Stands, Owning, Sessions
<1> DEFINE model == Lesser(sess[chat].model + 1, NModels)
           q     == [sess[chat] EXCEPT !.pendingEsc = model, !.model = model, !.escCount = @ + 1]
           ss    == [sess EXCEPT ![chat] = q]
           r     == [turn[t] EXCEPT !.pc = "autoEsc"]
           p     == AwaitRecreate(ss, turn, chat, t, r)
<1>5. Run(p)
  BY <1>2, <1>4 DEF AutoEscalate, Sessions
<1>6. model \in 0..NModels /\ model # 0
  <2>1. sess[chat].model \in 0..NModels /\ NModels \in Nat /\ NModels > 0
    BY <1>4, BotAssumption DEF SessRec, EscOn
  <2> QED BY <2>1 DEF Lesser
<1> HIDE DEF model
<1>7. q \in SessRec /\ q.inFlight /\ q.turnId = turn[t].id /\ q.model # 0
  <2>1. sess[chat].escCount + 1 \in Nat
    <3>1. sess[chat].escCount \in Nat
      BY <1>4 DEF SessRec
    <3> QED BY <3>1
  <2>2. q.model = model /\ q.inFlight /\ q.turnId = turn[t].id
    BY <1>4 DEF SessRec
  <2>3. q \in SessRec
    BY <1>4, <1>6, <2>1 DEF SessRec
  <2> QED BY <1>6, <2>2, <2>3
<1>8. /\ r \in TurnRec /\ r.pc = "autoEsc" /\ r.sess = chat /\ r.id = turn[t].id
      /\ r.msg = turn[t].msg
  BY <1>2, <1>4 DEF TurnRec, Pcs, Owning
<1> HIDE DEF q, r
<1>9. ss \in Sessions /\ ss[chat] = q
  BY <1>2, <1>4, <1>7, OneSession
<1> HIDE DEF ss
<1>10. /\ p.sess = RecreateStart(ss, chat) /\ p.turn \in Turns
       /\ p.turn[t] = [r EXCEPT !.fresh = chat]
       /\ \A u \in Tids \ {t} : p.turn[u].pc = turn[u].pc
  BY <1>2, <1>4, <1>8, <1>9, AwaitRecreateIs
<1> HIDE DEF p
<1>11. /\ p.sess \in Sessions /\ p.sess[chat].inFlight /\ p.sess[chat].turnId = r.id
       /\ p.sess[chat].model # 0
  BY <1>4, <1>7, <1>8, <1>9, <1>10, RecreateStartIs
<1>12. /\ p.turn[t].pc = "autoEsc" /\ p.turn[t].sess = chat /\ p.turn[t].id = r.id
       /\ p.turn[t].msg \in Msgs /\ p.turn[t].fresh = chat
  BY <1>4, <1>8, <1>10 DEF TurnRec
<1>13. Stands(p.sess, p.turn[t], t, chat) /\ p.turn[t].pc \in Owning
  BY <1>4, <1>11, <1>12 DEF Stands, Owning
<1>14. BudgetIsOfModel(p.sess, chat)
  BY <1>11 DEF BudgetIsOfModel
<1>15. turn[t].pc \notin Idle
  BY <1>1 DEF Idle
<1>16. Sound(p.sess, p.turn, chat) /\ Tidy(p.sess, p.turn, chat)
  BY <1>1, <1>10, <1>11, <1>13, <1>14, <1>15, TurnMoves
<1> QED BY <1>1, <1>3, <1>5, <1>16 DEF TurnInv, Run

\* The message is run again in a turn of its own, or the turn is closed.
LEMMA AutoEscDoneKeeps ==
  ASSUME TurnInv, NEW t \in Tids, AutoEscDone(t)
  PROVE  TurnInv'
<1>1. /\ Sound(sess, turn, chat) /\ chat' = chat /\ turn[t].pc = "autoEsc"
      /\ UNCHANGED <<timers, update, unsent, request>>
  BY DEF TurnInv, AutoEscDone, At
<1>2. /\ \A u \in Tids \ {t} : turn[u].pc \in Idle
      /\ Stands(sess, turn[t], t, chat) /\ turn[t] \in TurnRec
      /\ sess \in Sessions /\ turn \in Turns /\ chat \in Sids \cup {0}
      /\ BudgetIsOfModel(sess, chat)
  BY <1>1, AtTheFront DEF Owning, Idle
<1>3. Rest'
  BY <1>1 DEF TurnInv, Rest
<1>4. chat # 0 /\ chat \in Sids /\ turn[t].fresh = chat /\ turn[t].msg \in Msgs
  BY <1>1, <1>2 DEF Stands, Owning
<1>5. CASE /\ FreeAgents # {} /\ FreeTids # {}
           /\ LET back == RecreateEnd(sess, turn[t].fresh, Pick(FreeAgents))
                  ss   == FinishTurn(back, turn[t].id)
                  tt   == [turn EXCEPT ![t].fresh = 0, ![t].pc = "nested"]
              IN  IF CanBegin(ss, chat)
                  THEN Run(Process(ss, tt, chat, turn[t].msg, Pick(FreeTids), t))
                  ELSE Run([sess |-> ss, turn |-> [tt EXCEPT ![t].pc = "resumed"]])
  <2> DEFINE back == RecreateEnd(sess, chat, Pick(FreeAgents))
             ss   == FinishTurn(back, turn[t].id)
             r    == [turn[t] EXCEPT !.fresh = 0, !.pc = "nested"]
             tt   == [turn EXCEPT ![t] = r]
             n    == Pick(FreeTids)
             p    == Process(ss, tt, chat, turn[t].msg, n, t)
  <2>1. [turn EXCEPT ![t].fresh = 0, ![t].pc = "nested"] = tt
    BY <1>2 DEF Turns
  <2>2. Pick(FreeAgents) \in Agents /\ n \in Tids
    BY <1>5, Picks
  <2>3. /\ back \in Sessions /\ ~back[chat].inFlight /\ back[chat].state = "idle"
        /\ back[chat].model = sess[chat].model /\ back[chat].escCount = sess[chat].escCount
    BY <1>2, <1>4, <2>2, RecreateEndIs
  <2>4. IF CanBegin(ss, chat)
        THEN Run(p) ELSE Run([sess |-> ss, turn |-> [tt EXCEPT ![t].pc = "resumed"]])
    BY <1>4, <1>5, <2>1
  <2> HIDE DEF back
  <2>5. /\ ss \in Sessions /\ ~ss[chat].inFlight /\ ss[chat].state = "idle"
        /\ ss[chat].model = sess[chat].model /\ ss[chat].escCount = sess[chat].escCount
    BY <1>4, <2>3, FinishTurnIs
  <2> HIDE DEF ss
  <2>6. CanBegin(ss, chat) /\ BudgetIsOfModel(ss, chat)
    BY <1>2, <1>4, <2>5 DEF CanBegin, BudgetIsOfModel
  <2>7. r \in TurnRec /\ r.pc \in Idle
    BY <1>2 DEF TurnRec, Pcs, Idle
  <2> HIDE DEF r
  <2>8. tt \in Turns /\ tt[t] = r /\ \A u \in Tids \ {t} : tt[u] = turn[u]
    BY <1>2, <2>7 DEF Turns
  <2>9. \A u \in Tids : tt[u].pc \in Idle
    BY <1>2, <2>7, <2>8
  <2>10. Run(p)
    BY <2>4, <2>6
  <2> HIDE DEF tt, n
  <2>11. Sound(p.sess, p.turn, chat) /\ p.turn[n].pc \in Owning
    BY <1>4, <2>2, <2>5, <2>6, <2>8, <2>9, ProcessIs
  <2> HIDE DEF p
  <2>12. Tidy(p.sess, p.turn, chat)
    BY <2>2, <2>11 DEF Tidy
  <2> QED BY <1>1, <1>3, <2>10, <2>11, <2>12 DEF Run, TurnInv
<1>6. CASE turn' = [turn EXCEPT ![t].pc = "closing", ![t].fresh = 0] /\ sess' = sess
  <2> DEFINE r == [turn[t] EXCEPT !.pc = "closing", !.fresh = 0]
  <2>1. turn' = [turn EXCEPT ![t] = r]
    BY <1>2, <1>6 DEF Turns
  <2>2. /\ r \in TurnRec /\ r.pc = "closing" /\ r.sess = turn[t].sess /\ r.id = turn[t].id
        /\ r.msg = turn[t].msg
    BY <1>2 DEF TurnRec, Pcs, Owning
  <2> HIDE DEF r
  <2>3. r.pc \in Owning \ {"escalating", "keyword", "autoEsc"} /\ turn[t].pc \in Owning
    BY <1>1, <2>2 DEF Owning
  <2>4. Sound(sess, [turn EXCEPT ![t] = r], chat) /\ Tidy(sess, [turn EXCEPT ![t] = r], chat)
    BY <1>1, <1>2, <2>2, <2>3, AskMoves
  <2> QED BY <1>1, <1>3, <1>6, <2>1, <2>4 DEF TurnInv
<1> QED BY <1>5, <1>6 DEF AutoEscDone

-----------------------------------------------------------------------------
(* The end of a turn *)

LEMMA BaseModelIs ==
  ASSUME NEW ss \in Sessions, chat \in Sids
  PROVE  /\ BaseModel(ss) \in Sessions /\ BaseModel(ss)[chat].inFlight = ss[chat].inFlight
         /\ BaseModel(ss)[chat].model = 0 /\ BaseModel(ss)[chat].escCount = 0
<1> DEFINE r == [ss[chat] EXCEPT !.model = 0, !.escCount = 0]
<1>1. BaseModel(ss) = [ss EXCEPT ![chat] = r]
  BY DEF BaseModel, Sessions
<1>2. ss[chat] \in SessRec /\ 0 \in 0..NModels
  BY BotAssumption DEF Sessions
<1>3. r \in SessRec /\ r.inFlight = ss[chat].inFlight /\ r.model = 0 /\ r.escCount = 0
  BY <1>2 DEF SessRec
<1> HIDE DEF r
<1>4. [ss EXCEPT ![chat] = r] \in Sessions /\ [ss EXCEPT ![chat] = r][chat] = r
  BY <1>3, OneSession
<1> QED BY <1>1, <1>3, <1>4

LEMMA ServeQueueIs ==
  ASSUME NEW ss \in Sessions, chat \in Sids, timers \in Seq(Msgs), NEW current,
         ServeQueue(ss, current)
  PROVE  /\ sess' \in Sessions /\ sess'[chat].inFlight = ss[chat].inFlight
         /\ sess'[chat].model = ss[chat].model /\ sess'[chat].escCount = ss[chat].escCount
         /\ timers' \in Seq(Msgs)
<1>1. ss[chat] \in SessRec /\ ss[chat].queue \in Seq(Msgs)
  BY DEF Sessions, SessRec
<1>2. CASE chat # 0 /\ ss[chat].queue # <<>>
  <2> DEFINE r == [ss[chat] EXCEPT !.queue = Tail(@)]
  <2>1. sess' = [ss EXCEPT ![chat] = r]
    BY <1>2 DEF ServeQueue, Sessions
  <2>2. Tail(ss[chat].queue) \in Seq(Msgs) /\ Head(ss[chat].queue) \in Msgs
    BY <1>1, <1>2, HeadTailProperties
  <2>3. /\ r \in SessRec /\ r.inFlight = ss[chat].inFlight /\ r.model = ss[chat].model
        /\ r.escCount = ss[chat].escCount
    BY <1>1, <2>2 DEF SessRec
  <2> HIDE DEF r
  <2>4. [ss EXCEPT ![chat] = r] \in Sessions /\ [ss EXCEPT ![chat] = r][chat] = r
    BY <2>3, OneSession
  <2>5. timers' = timers \/ timers' = Append(timers, Head(ss[chat].queue))
    BY <1>2 DEF ServeQueue
  <2>6. Append(timers, Head(ss[chat].queue)) \in Seq(Msgs)
    BY <2>2, AppendProperties
  <2> QED BY <2>1, <2>3, <2>4, <2>5, <2>6
<1>3. CASE ~(chat # 0 /\ ss[chat].queue # <<>>)
  BY <1>3 DEF ServeQueue
<1> QED BY <1>2, <1>3

\* The turn at the front ends, with nothing of the session left to it.
LEMMA EndKeeps ==
  ASSUME TurnInv, NEW t \in Tids, turn[t].pc \notin Idle, chat \in Sids,
         NEW ss \in Sessions, BudgetIsOfModel(ss, chat),
         MayFail = {} => ~ss[chat].inFlight /\ ss[chat].model = 0,
         NEW current, ServeQueue(ss, current), turn' = Ended(turn, t),
         UNCHANGED <<chat, request, update, unsent>>
  PROVE  TurnInv'
<1>1. /\ Sound(sess, turn, chat) /\ turn \in Turns
      /\ \A u \in Tids \ {t} : turn[u].pc \in Idle
  BY AtTheFront DEF TurnInv
<1>2. timers \in Seq(Msgs)
  BY DEF TurnInv, Rest
<1>3. /\ sess' \in Sessions /\ sess'[chat].inFlight = ss[chat].inFlight
      /\ sess'[chat].model = ss[chat].model /\ sess'[chat].escCount = ss[chat].escCount
      /\ timers' \in Seq(Msgs)
  BY <1>2, ServeQueueIs
<1>4. BudgetIsOfModel(sess', chat)
  BY <1>3 DEF BudgetIsOfModel
<1>5. Sound(sess', turn', chat)
  BY <1>1, <1>3, <1>4, EndedSound
<1>6. MayFail = {} => Tidy(sess', turn', chat)
  BY <1>3 DEF Tidy
<1>7. Rest'
  BY <1>3 DEF TurnInv, Rest
<1> QED BY <1>5, <1>6, <1>7 DEF TurnInv

LEMMA FinishKeeps ==
  ASSUME TurnInv, NEW t \in Tids, Finish(t)
  PROVE  TurnInv'
<1>1. /\ Sound(sess, turn, chat) /\ chat' = chat /\ turn[t].pc \in {"closing", "resumed"}
      /\ UNCHANGED <<request, update, unsent>>
  BY DEF TurnInv, Finish, At
<1>2. /\ turn[t].pc \notin Idle /\ \A u \in Tids \ {t} : turn[u].pc \in Idle
      /\ Stands(sess, turn[t], t, chat) /\ turn[t] \in TurnRec
      /\ sess \in Sessions /\ turn \in Turns /\ chat \in Sids \cup {0}
      /\ BudgetIsOfModel(sess, chat)
  BY <1>1, AtTheFront DEF Idle
<1>3. CASE chat = 0
  <2>1. turn' = Ended(turn, t) /\ sess' = sess /\ timers' = timers
    BY <1>3 DEF Finish
  <2>2. Sound(sess', turn', chat)
    BY <1>2, <2>1, EndedSound
  <2>3. Tidy(sess', turn', chat)
    BY <1>3 DEF Tidy
  <2>4. Rest'
    BY <1>1, <2>1 DEF TurnInv, Rest
  <2> QED BY <1>1, <2>2, <2>3, <2>4 DEF TurnInv
<1>4. CASE chat # 0
  <2> DEFINE ss == FinishTurn(sess, turn[t].id)
             bb == BaseModel(ss)
             r  == [turn[t] EXCEPT !.pc = "deesc"]
             p  == AwaitRecreate(bb, turn, chat, t, r)
  <2>1. chat \in Sids
    BY <1>2, <1>4
  <2>2. /\ ss \in Sessions
        /\ ss[chat].inFlight => sess[chat].inFlight /\ sess[chat].turnId # turn[t].id
        /\ ss[chat].model = sess[chat].model /\ ss[chat].escCount = sess[chat].escCount
    BY <1>2, <2>1, FinishTurnIs
  <2>3. MayFail = {} => ~ss[chat].inFlight
    <3>1. CASE turn[t].pc = "closing"
      <4>1. sess[chat].turnId = turn[t].id
        BY <1>2, <3>1 DEF Stands, Owning
      <4> QED BY <2>2, <4>1
    <3>2. CASE turn[t].pc = "resumed"
      <4>1. \A u \in Tids : turn[u].pc \notin Owning
        BY <1>2, <3>2 DEF Owning, Idle
      <4>2. MayFail = {} => ~sess[chat].inFlight
        BY <1>4, <4>1 DEF TurnInv, Tidy
      <4> QED BY <2>2, <4>2
    <3> QED BY <1>1, <3>1, <3>2
  <2>4. BudgetIsOfModel(ss, chat)
    BY <1>2, <2>2 DEF BudgetIsOfModel
  <2>5. CASE EscOn /\ ss[chat].model > 0
    <3>1. sess' = p.sess /\ turn' = p.turn /\ timers' = timers
      BY <1>4, <2>5 DEF Finish, Run
    <3> HIDE DEF ss
    <3>2. /\ bb \in Sessions /\ bb[chat].inFlight = ss[chat].inFlight
          /\ bb[chat].model = 0 /\ bb[chat].escCount = 0
      BY <2>1, <2>2, BaseModelIs
    <3> HIDE DEF bb
    <3>3. r \in TurnRec /\ r.pc = "deesc"
      BY <1>2 DEF TurnRec, Pcs
    <3> HIDE DEF r
    <3>4. /\ p.sess = RecreateStart(bb, chat) /\ p.turn \in Turns
          /\ p.turn[t] = [r EXCEPT !.fresh = chat]
          /\ \A u \in Tids \ {t} : p.turn[u].pc = turn[u].pc
      BY <1>2, <2>1, <3>2, <3>3, AwaitRecreateIs
    <3> HIDE DEF p
    <3>5. /\ p.sess \in Sessions /\ p.sess[chat].inFlight = bb[chat].inFlight
          /\ p.sess[chat].model = 0 /\ p.sess[chat].escCount = 0
          /\ p.sess[chat].state = "resetting"
      BY <2>1, <3>2, <3>4, RecreateStartIs
    <3>6. p.turn[t].pc = "deesc" /\ p.turn[t].fresh = chat
      BY <3>3, <3>4 DEF TurnRec
    <3>7. Stands(p.sess, p.turn[t], t, chat)
      BY <1>4, <3>5, <3>6 DEF Stands, Owning, CanBegin
    <3>8. BudgetIsOfModel(p.sess, chat)
      BY <3>5 DEF BudgetIsOfModel
    <3>9. Sound(p.sess, p.turn, chat)
      BY <1>2, <3>4, <3>5, <3>7, <3>8, FrontMoves
    <3>10. MayFail = {} => Tidy(p.sess, p.turn, chat)
      BY <2>3, <3>2, <3>5 DEF Tidy
    <3>11. Rest'
      BY <1>1, <3>1 DEF TurnInv, Rest
    <3> QED BY <1>1, <3>1, <3>9, <3>10, <3>11 DEF TurnInv
  <2>6. CASE ~(EscOn /\ ss[chat].model > 0)
    <3>1. ServeQueue(ss, chat) /\ turn' = Ended(turn, t)
      BY <1>4, <2>6 DEF Finish
    <3>2. ss[chat].model = 0
      <4>1. ss[chat].model \in 0..NModels /\ NModels \in Nat
        BY <2>1, <2>2, BotAssumption DEF Sessions, SessRec
      <4> HIDE DEF ss
      <4> QED BY <2>6, <4>1 DEF EscOn
    <3> HIDE DEF ss
    <3> QED BY <1>1, <1>2, <2>1, <2>2, <2>3, <2>4, <3>1, <3>2, EndKeeps
  <2> QED BY <2>5, <2>6
<1> QED BY <1>3, <1>4

LEMMA DeescDoneKeeps ==
  ASSUME TurnInv, NEW t \in Tids, DeescDone(t)
  PROVE  TurnInv'
<1>1. /\ Sound(sess, turn, chat) /\ chat' = chat /\ turn[t].pc = "deesc"
      /\ UNCHANGED <<request, update, unsent>> /\ turn' = Ended(turn, t)
  BY DEF TurnInv, DeescDone, At
<1>2. /\ turn[t].pc \notin Idle /\ \A u \in Tids \ {t} : turn[u].pc \in Idle
      /\ Stands(sess, turn[t], t, chat) /\ sess \in Sessions /\ chat \in Sids \cup {0}
      /\ BudgetIsOfModel(sess, chat)
  BY <1>1, AtTheFront DEF Idle
<1>3. chat # 0 /\ chat \in Sids /\ turn[t].fresh = chat
  BY <1>1, <1>2 DEF Stands
<1>4. CASE FreeAgents # {} /\ ServeQueue(RecreateEnd(sess, chat, Pick(FreeAgents)), chat)
  <2> DEFINE ss == RecreateEnd(sess, chat, Pick(FreeAgents))
  <2>1. Pick(FreeAgents) \in Agents
    BY <1>4, Picks
  <2>2. /\ ss \in Sessions /\ ~ss[chat].inFlight
        /\ ss[chat].model = sess[chat].model /\ ss[chat].escCount = sess[chat].escCount
    BY <1>2, <1>3, <2>1, RecreateEndIs
  <2>3. ServeQueue(ss, chat)
    BY <1>4
  <2> HIDE DEF ss
  <2>4. BudgetIsOfModel(ss, chat)
    BY <1>2, <2>2 DEF BudgetIsOfModel
  <2>5. MayFail = {} => ss[chat].model = 0
    <3>1. \A u \in Tids : turn[u].pc \notin Owning \cup {"resumed"}
      BY <1>1, <1>2 DEF Owning, Idle
    <3>2. MayFail = {} => ~(sess[chat].model > 0)
      BY <1>3, <3>1 DEF TurnInv, Tidy
    <3>3. sess[chat].model \in 0..NModels /\ NModels \in Nat
      BY <1>2, <1>3, BotAssumption DEF Sessions, SessRec
    <3> QED BY <2>2, <3>2, <3>3
  <2> QED BY <1>1, <1>2, <1>3, <2>2, <2>3, <2>4, <2>5, EndKeeps
<1>5. CASE "createSession" \in MayFail /\ ServeQueue(sess, chat)
  BY <1>1, <1>2, <1>3, <1>5, EndKeeps
<1> QED BY <1>3, <1>4, <1>5 DEF DeescDone

-----------------------------------------------------------------------------
(* The watchdog *)

\* What turns stand on, and all that is not of turns, stays.
LEMMA SameKeeps ==
  ASSUME TurnInv, UNCHANGED <<chat, request, timers, update, unsent>>,
         Sound(sess', turn', chat),
         Tidy(sess, turn, chat) => Tidy(sess', turn', chat)
  PROVE  TurnInv'
<1>1. Rest'
  BY DEF TurnInv, Rest
<1> QED BY <1>1 DEF TurnInv

\* lastProgressAt of a session is set, or becomes old.
LEMMA StaleIs ==
  ASSUME NEW s \in Sids \cup {0}, NEW b \in BOOLEAN, sess \in Sessions, NEW ss,
         ss = [sess EXCEPT ![s].stale = b], NEW c \in Sids
  PROVE  /\ ss \in Sessions /\ ss[c].inFlight = sess[c].inFlight
         /\ ss[c].turnId = sess[c].turnId /\ ss[c].ctrl = sess[c].ctrl
         /\ ss[c].model = sess[c].model /\ ss[c].escCount = sess[c].escCount
         /\ ss[c].state = sess[c].state
<1>1. CASE s \in Sids
  <2> DEFINE r == [sess[s] EXCEPT !.stale = b]
  <2>1. ss = [sess EXCEPT ![s] = r]
    BY DEF Sessions
  <2>2. sess[s] \in SessRec
    BY <1>1 DEF Sessions
  <2>3. /\ r \in SessRec /\ r.inFlight = sess[s].inFlight /\ r.turnId = sess[s].turnId
        /\ r.ctrl = sess[s].ctrl /\ r.model = sess[s].model
        /\ r.escCount = sess[s].escCount /\ r.state = sess[s].state
    BY <2>2 DEF SessRec
  <2> HIDE DEF r
  <2>4. sess \in [Sids -> SessRec] /\ r \in SessRec
    BY <2>3 DEF Sessions
  <2>5. ss \in [Sids -> SessRec] /\ ss[s] = r /\ (c # s => ss[c] = sess[c])
    BY <1>1, <2>1, <2>4
  <2> QED BY <2>3, <2>5 DEF Sessions
<1>2. CASE s \notin Sids
  <2>1. ss = sess
    BY <1>2 DEF Sessions
  <2> QED BY <2>1
<1> QED BY <1>1, <1>2

LEMMA FlagsKeep ==
  ASSUME TurnInv, UNCHANGED <<chat, request, timers, update, unsent>>,
         sess' \in Sessions, turn' \in Turns, SameTurns(turn, turn'),
         chat # 0 => /\ sess'[chat].inFlight = sess[chat].inFlight
                     /\ sess'[chat].turnId = sess[chat].turnId
                     /\ sess'[chat].ctrl = sess[chat].ctrl
                     /\ sess'[chat].model = sess[chat].model
                     /\ sess'[chat].escCount = sess[chat].escCount
                     /\ sess'[chat].state = sess[chat].state
  PROVE  TurnInv'
<1>1. Sound(sess, turn, chat) /\ chat' = chat
  BY DEF TurnInv
<1>2. chat # 0 => (~CanBegin(sess, chat) => ~CanBegin(sess', chat))
  BY DEF CanBegin
<1>3. Sound(sess', turn', chat) /\ (Tidy(sess, turn, chat) => Tidy(sess', turn', chat))
  BY <1>1, <1>2, NothingMoves
<1> QED BY <1>1, <1>3, SameKeeps

LEMMA StaleKeeps ==
  ASSUME TurnInv, UNCHANGED <<chat, request, timers, update, unsent>>,
         NEW s \in Sids \cup {0}, NEW b \in BOOLEAN,
         sess' = [sess EXCEPT ![s].stale = b], turn' \in Turns, SameTurns(turn, turn')
  PROVE  TurnInv'
<1>1. sess \in Sessions /\ chat \in Sids \cup {0}
  BY DEF TurnInv, Sound
<1>2. sess' \in Sessions
  <2>1. CASE Sids = {}
    BY <1>1, <2>1 DEF Sessions
  <2>2. CASE Sids # {}
    BY <1>1, <2>2, StaleIs
  <2> QED BY <2>1, <2>2
<1>3. ASSUME chat # 0
      PROVE  /\ sess'[chat].inFlight = sess[chat].inFlight
             /\ sess'[chat].turnId = sess[chat].turnId /\ sess'[chat].ctrl = sess[chat].ctrl
             /\ sess'[chat].model = sess[chat].model
             /\ sess'[chat].escCount = sess[chat].escCount
             /\ sess'[chat].state = sess[chat].state
  BY <1>1, <1>3, StaleIs
<1> QED BY <1>2, <1>3, FlagsKeep

\* One field of a turn that nothing stands on.
LEMMA FieldsAreFree ==
  ASSUME NEW tt \in Turns, SameTurns(turn, tt), NEW t \in Tids, NEW g \in Nat,
         NEW b \in BOOLEAN, NEW c \in Sids \cup {0}
  PROVE  /\ [tt EXCEPT ![t].grace = g] \in Turns
         /\ SameTurns(turn, [tt EXCEPT ![t].grace = g])
         /\ [tt EXCEPT ![t].pending = b, ![t].compacted = c] \in Turns
         /\ SameTurns(turn, [tt EXCEPT ![t].pending = b, ![t].compacted = c])
<1> DEFINE r == [tt[t] EXCEPT !.grace = g]
           q == [tt[t] EXCEPT !.pending = b, !.compacted = c]
<1>1. /\ [tt EXCEPT ![t].grace = g] = [tt EXCEPT ![t] = r]
      /\ [tt EXCEPT ![t].pending = b, ![t].compacted = c] = [tt EXCEPT ![t] = q]
  BY DEF Turns
<1>2. tt[t] \in TurnRec
  BY DEF Turns
<1>3. /\ r \in TurnRec /\ r.pc = tt[t].pc /\ r.sess = tt[t].sess /\ r.id = tt[t].id
      /\ r.msg = tt[t].msg /\ r.fresh = tt[t].fresh /\ r.parent = tt[t].parent
  BY <1>2 DEF TurnRec
<1>4. /\ q \in TurnRec /\ q.pc = tt[t].pc /\ q.sess = tt[t].sess /\ q.id = tt[t].id
      /\ q.msg = tt[t].msg /\ q.fresh = tt[t].fresh /\ q.parent = tt[t].parent
  BY <1>2 DEF TurnRec
<1> HIDE DEF r, q
<1>5. ASSUME NEW e \in TurnRec, e.pc = tt[t].pc, e.sess = tt[t].sess, e.id = tt[t].id,
             e.msg = tt[t].msg, e.fresh = tt[t].fresh, e.parent = tt[t].parent
      PROVE  [tt EXCEPT ![t] = e] \in Turns /\ SameTurns(turn, [tt EXCEPT ![t] = e])
  BY <1>5 DEF Turns, SameTurns
<1> QED BY <1>1, <1>3, <1>4, <1>5

\* A session is canceled; with it, what it asks.
LEMMA CancelKeeps ==
  ASSUME TurnInv, chat # 0, sess' = CancelledSession(sess, chat),
         turn' = CancelledTurns(sess, turn, chat),
         UNCHANGED <<chat, request, timers, update, unsent>>
  PROVE  TurnInv'
<1> DEFINE r == [sess[chat] EXCEPT !.queue = <<>>,
                   !.state = IF sess[chat].inFlight THEN "canceling" ELSE @]
<1>1. /\ Sound(sess, turn, chat) /\ sess \in Sessions /\ turn \in Turns /\ chat \in Sids
      /\ sess[chat] \in SessRec
  BY DEF TurnInv, Sound, Sessions
<1>2. sess' = [sess EXCEPT ![chat] = r]
  BY <1>1 DEF CancelledSession, Sessions
<1>3. /\ r \in SessRec /\ r.inFlight = sess[chat].inFlight /\ r.turnId = sess[chat].turnId
      /\ r.ctrl = sess[chat].ctrl /\ r.model = sess[chat].model
      /\ r.escCount = sess[chat].escCount
      /\ r.state = sess[chat].state \/ (r.inFlight /\ r.state # "idle")
  <2>1. <<>> \in Seq(Msgs)
    OBVIOUS
  <2> QED BY <1>1, <2>1 DEF SessRec
<1> HIDE DEF r
<1>4. turn' \in Turns /\ SameTurns(turn, turn')
  BY <1>1, AbortIs, SameSame DEF CancelledTurns
<1>5. Sound(sess', turn', chat) /\ (Tidy(sess, turn, chat) => Tidy(sess', turn', chat))
  BY <1>1, <1>2, <1>3, <1>4, SessionMoves
<1> QED BY <1>5, SameKeeps

LEMMA WatchdogKeeps ==
  ASSUME TurnInv, NEW t \in Tids, WatchdogStep(t) \/ CompactionDone(t) \/ GoesStale
  PROVE  TurnInv'
<1>1. /\ Sound(sess, turn, chat) /\ sess \in Sessions /\ turn \in Turns
      /\ chat \in Sids \cup {0} /\ turn[t] \in TurnRec
      /\ UNCHANGED <<chat, request, timers, update, unsent>>
  BY DEF TurnInv, Sound, Turns, WatchdogStep, WatchdogGrace, WatchdogCompact, WatchdogCancel,
         CompactionDone, GoesStale
<1>2. CASE WatchdogGrace(t)
  <2>1. turn' = [turn EXCEPT ![t].grace = turn[t].grace + 1]
    BY <1>1, <1>2 DEF WatchdogGrace, Turns
  <2>2. turn[t].grace + 1 \in Nat
    <3>1. turn[t].grace \in Nat
      BY <1>1 DEF TurnRec
    <3> QED BY <3>1
  <2>3. turn' \in Turns /\ SameTurns(turn, turn')
    BY <1>1, <2>1, <2>2, FieldsAreFree, SameSame
  <2> QED BY <1>1, <1>2, <2>3, StaleKeeps DEF WatchdogGrace
<1>3. CASE WatchdogCompact(t)
  <2> DEFINE r == [sess[chat] EXCEPT !.compacts = @ + 1]
  <2>1. chat # 0 /\ chat \in Sids /\ sess[chat] \in SessRec
    BY <1>1, <1>3 DEF WatchdogCompact, WatchdogDue, Sessions
  <2>2. sess' = [sess EXCEPT ![chat] = r]
    BY <1>1, <1>3 DEF WatchdogCompact, Sessions
  <2>3. /\ r \in SessRec /\ r.inFlight = sess[chat].inFlight /\ r.turnId = sess[chat].turnId
        /\ r.ctrl = sess[chat].ctrl /\ r.model = sess[chat].model
        /\ r.escCount = sess[chat].escCount /\ r.state = sess[chat].state
    <3>1. sess[chat].compacts + 1 \in Nat
      <4>1. sess[chat].compacts \in Nat
        BY <2>1 DEF SessRec
      <4> QED BY <4>1
    <3> QED BY <2>1, <3>1 DEF SessRec
  <2> HIDE DEF r
  <2>4. /\ Signalled(turn, sess[chat].ctrl) \in Turns
        /\ SameTurns(turn, Signalled(turn, sess[chat].ctrl))
    BY <1>1, <2>1, AbortIs
  <2>5. turn' \in Turns /\ SameTurns(turn, turn')
    BY <1>1, <1>3, <2>4, FieldsAreFree DEF WatchdogCompact
  <2>6. Sound(sess', turn', chat) /\ (Tidy(sess, turn, chat) => Tidy(sess', turn', chat))
    BY <1>1, <2>1, <2>2, <2>3, <2>5, SessionMoves
  <2> QED BY <1>1, <2>6, SameKeeps
<1>4. CASE WatchdogCancel(t)
  BY <1>1, <1>4, CancelKeeps DEF WatchdogCancel, WatchdogDue
<1>5. CASE CompactionDone(t)
  <2>1. turn' \in Turns /\ SameTurns(turn, turn')
    BY <1>1, <1>5, FieldsAreFree, SameSame DEF CompactionDone
  <2>2. turn[t].compacted \in Sids \cup {0}
    BY <1>1 DEF TurnRec
  <2>3. CASE sess' = [sess EXCEPT ![turn[t].compacted].stale = FALSE]
    BY <1>1, <2>1, <2>2, <2>3, StaleKeeps
  <2>4. CASE sess' = sess
    <3>1. Sound(sess', turn', chat) /\ (Tidy(sess, turn, chat) => Tidy(sess', turn', chat))
      BY <1>1, <2>1, <2>4, NothingMoves
    <3> QED BY <1>1, <3>1, SameKeeps
  <2> QED BY <1>5, <2>3, <2>4 DEF CompactionDone
<1>6. CASE GoesStale
  BY <1>1, <1>6, SameSame, StaleKeeps DEF GoesStale
<1> QED BY <1>2, <1>3, <1>4, <1>5, <1>6 DEF WatchdogStep

-----------------------------------------------------------------------------
(* The user, the handlers, the sweep and the timers *)

LEMMA MessageKeeps ==
  ASSUME TurnInv, NEW m \in Msgs, Message(m)
  PROVE  TurnInv'
<1>1. /\ Sound(sess, turn, chat) /\ sess \in Sessions /\ turn \in Turns /\ chat # 0
      /\ chat \in Sids /\ sess[chat] \in SessRec /\ Quiet
      /\ UNCHANGED <<chat, request, timers, update>> /\ unsent' = unsent \ {m}
  BY DEF TurnInv, Sound, Message, UpdateFree, Sessions
<1>2. Rest'
  BY <1>1 DEF TurnInv, Rest
<1>3. CASE sess[chat].inFlight /\ turn' = turn /\ sess' = sess
  <2>1. Sound(sess', turn', chat)
    BY <1>1, <1>3
  <2>2. Tidy(sess, turn, chat) => Tidy(sess', turn', chat)
    BY <1>3
  <2> QED BY <1>1, <1>2, <2>1, <2>2 DEF TurnInv
<1>4. CASE turn' = turn /\ sess' = [sess EXCEPT ![chat].queue = Append(@, m)]
  <2> DEFINE r == [sess[chat] EXCEPT !.queue = Append(@, m)]
  <2>1. sess' = [sess EXCEPT ![chat] = r]
    BY <1>1, <1>4 DEF Sessions
  <2>2. Append(sess[chat].queue, m) \in Seq(Msgs)
    <3>1. sess[chat].queue \in Seq(Msgs)
      BY <1>1 DEF SessRec
    <3> QED BY <3>1, AppendProperties
  <2>3. /\ r \in SessRec /\ r.inFlight = sess[chat].inFlight /\ r.turnId = sess[chat].turnId
        /\ r.ctrl = sess[chat].ctrl /\ r.model = sess[chat].model
        /\ r.escCount = sess[chat].escCount /\ r.state = sess[chat].state
    BY <1>1, <2>2 DEF SessRec
  <2> HIDE DEF r
  <2>4. Sound(sess', turn', chat) /\ (Tidy(sess, turn, chat) => Tidy(sess', turn', chat))
    BY <1>1, <1>4, <2>1, <2>3, SessionMoves, SameSame
  <2> QED BY <1>1, <1>2, <2>4 DEF TurnInv
<1>5. CASE FreeTids # {} /\ Run(Process(sess, turn, chat, m, Pick(FreeTids), 0))
  <2>1. /\ Sound(sess', turn', chat) /\ (MayFail = {} => Tidy(sess', turn', chat))
    BY <1>1, <1>5, ProcessSound DEF Run, TurnInv
  <2> QED BY <1>1, <1>2, <2>1 DEF TurnInv
<1> QED BY <1>3, <1>4, <1>5 DEF Message

LEMMA UserKeeps ==
  ASSUME TurnInv, OwnCommands, UserStep
  PROVE  TurnInv'
<1>1. /\ Sound(sess, turn, chat) /\ sess \in Sessions /\ turn \in Turns
      /\ chat \in Sids \cup {0}
  BY DEF TurnInv, Sound
<1>2. CASE \E m \in Msgs : Message(m)
  BY <1>2, MessageKeeps
<1>3. CASE \E m \in Msgs : FirstMessage(m)
  <2>1. PICK m \in Msgs : FirstMessage(m)
    BY <1>3
  <2>2. /\ sess' = sess /\ turn' = turn /\ chat' = chat /\ chat = 0
        /\ UNCHANGED <<request, timers>> /\ unsent' = unsent \ {m}
        /\ update'.kind = "create" /\ update'.msg = m
    BY <2>1 DEF FirstMessage, NoUpdate
  <2>3. Rest'
    BY <2>2 DEF TurnInv, Rest
  <2> QED BY <2>2, <2>3 DEF TurnInv
<1>4. CASE Cancel
  BY <1>4, CancelKeeps DEF Cancel
<1>5. CASE New \/ Dir \/ Deescalate
  BY <1>5 DEF New, Dir, Deescalate, Replace, OwnCommands
<1>6. CASE \E k \in 1..NModels : Escalate(k)
  <2>1. PICK k \in 1..NModels : Escalate(k)
    BY <1>6
  <2> DEFINE r == [sess[chat] EXCEPT !.pendingEsc = k]
  <2>2. chat # 0 /\ chat \in Sids /\ sess[chat] \in SessRec /\ k \in 0..NModels
    BY <1>1, <2>1, BotAssumption DEF Escalate, Sessions
  <2>3. /\ sess' = [sess EXCEPT ![chat] = r] /\ turn' = turn
        /\ UNCHANGED <<chat, request, timers, update, unsent>>
    BY <1>1, <2>1 DEF Escalate, Sessions
  <2>4. /\ r \in SessRec /\ r.inFlight = sess[chat].inFlight /\ r.turnId = sess[chat].turnId
        /\ r.ctrl = sess[chat].ctrl /\ r.model = sess[chat].model
        /\ r.escCount = sess[chat].escCount /\ r.state = sess[chat].state
    BY <2>2 DEF SessRec
  <2> HIDE DEF r
  <2>5. Sound(sess', turn', chat) /\ (Tidy(sess, turn, chat) => Tidy(sess', turn', chat))
    BY <1>1, <2>2, <2>3, <2>4, SessionMoves, SameSame
  <2> QED BY <2>3, <2>5, SameKeeps
<1> QED BY <1>2, <1>3, <1>4, <1>5, <1>6 DEF UserStep

LEMMA HandlerKeeps ==
  ASSUME TurnInv, HandlerStep
  PROVE  TurnInv'
<1>1. /\ Sound(sess, turn, chat) /\ sess \in Sessions /\ turn \in Turns
      /\ update.kind \in {"free", "create"}
  BY DEF TurnInv, Sound, Rest
<1>2. CASE CreateDone
  <2> DEFINE new == NewSession(Pick(FreeAgents))
             ss  == [sess EXCEPT ![chat'] = new]
             n   == Pick(FreeTids)
             p   == Process(ss, turn, chat', update.msg, n, 0)
  <2>1. /\ chat = 0 /\ update.msg \in Msgs /\ Quiet /\ chat' \in Sids /\ chat' # 0
        /\ Pick(FreeAgents) \in Agents /\ n \in Tids
        /\ UNCHANGED <<request, timers, unsent>> /\ update'.kind = "free"
    BY <1>2, Picks DEF CreateDone, TurnInv, Rest, NoUpdate
  <2>2. \A u \in Tids : turn[u].pc \in Idle
    BY <1>1, <2>1, NoFront
  <2>3. sess' = p.sess /\ turn' = p.turn
    BY <1>2 DEF CreateDone, Run
  <2>4. /\ new \in SessRec /\ ~new.inFlight /\ new.model = 0 /\ new.escCount = 0
        /\ new.state = "idle"
    BY <2>1, NewSessionTyped
  <2> HIDE DEF new
  <2>5. ss \in Sessions /\ ss[chat'] = new
    BY <1>1, <2>1, <2>4, OneSession
  <2> HIDE DEF ss, n
  <2>6. CanBegin(ss, chat') /\ BudgetIsOfModel(ss, chat')
    BY <2>1, <2>4, <2>5 DEF CanBegin, BudgetIsOfModel
  <2>7. Sound(p.sess, p.turn, chat') /\ p.turn[n].pc \in Owning
    BY <1>1, <2>1, <2>2, <2>5, <2>6, ProcessIs
  <2> HIDE DEF p
  <2>8. Tidy(sess', turn', chat')
    BY <2>1, <2>3, <2>7 DEF Tidy
  <2>9. Rest'
    BY <2>1 DEF TurnInv, Rest
  <2> QED BY <2>3, <2>7, <2>8, <2>9 DEF TurnInv
<1>3. CASE UpdateFails
  <2>1. /\ sess' = sess /\ turn' = turn /\ chat' = chat /\ update'.kind = "free"
        /\ UNCHANGED <<request, timers, unsent>>
    BY <1>3 DEF UpdateFails, NoUpdate
  <2>2. Rest'
    BY <2>1 DEF TurnInv, Rest
  <2> QED BY <2>1, <2>2 DEF TurnInv
<1>4. CASE DirDone \/ DeescalateDone
  BY <1>1, <1>4 DEF DirDone, DeescalateDone
<1> QED BY <1>2, <1>3, <1>4 DEF HandlerStep

\* A session that expires has no turn: every turn would hold it.
LEMMA ExpireKeeps ==
  ASSUME TurnInv, Expire
  PROVE  TurnInv'
<1>1. /\ Sound(sess, turn, chat) /\ sess \in Sessions /\ turn \in Turns /\ chat \in Sids
      /\ chat # 0 /\ chat' = 0 /\ sess' = Destroyed(sess, chat)
      /\ turn' = Abort(sess, turn, chat)
      /\ UNCHANGED <<request, timers, update, unsent>> /\ update.kind = "free"
  BY DEF TurnInv, Sound, Expire, Destroy, UpdateFree
<1>2. ASSUME NEW u \in Tids PROVE turn[u].pc = "free"
  <2>1. Stands(sess, turn[u], u, chat)
    BY <1>1 DEF Sound
  <2>2. turn[u].pc \in {"local", "request"} => turn[u].sess = chat
    BY <2>1 DEF Stands, Owning
  <2> QED BY <2>2 DEF Expire, Live
<1>3. turn' \in Turns /\ SameTurns(turn, turn')
  BY <1>1, AbortIs
<1>4. \A u \in Tids : turn'[u].pc = "free"
  BY <1>2, <1>3 DEF SameTurns
<1>5. sess' \in Sessions
  BY <1>1, RecreateStartIs DEF Destroyed, RecreateStart
<1>6. OneFront(turn')
  BY <1>4 DEF OneFront, Idle
<1>7. \A u \in Tids : Stands(sess', turn'[u], u, chat')
  BY <1>4 DEF Stands, Owning
<1>8. Sound(sess', turn', chat') /\ Tidy(sess', turn', chat')
  BY <1>1, <1>3, <1>5, <1>6, <1>7 DEF Sound, Tidy, BudgetIsOfModel
<1>9. Rest'
  BY <1>1 DEF TurnInv, Rest
<1> QED BY <1>8, <1>9 DEF TurnInv

LEMMA TimerKeeps ==
  ASSUME TurnInv, TimerFires
  PROVE  TurnInv'
<1>1. /\ Sound(sess, turn, chat) /\ timers \in Seq(Msgs) /\ timers # <<>>
      /\ UNCHANGED <<chat, request, update, unsent>> /\ timers' = Tail(timers)
      /\ Quiet /\ FreeTids # {}
  BY DEF TurnInv, Rest, TimerFires
<1>2. Tail(timers) \in Seq(Msgs) /\ Head(timers) \in Msgs
  BY <1>1, HeadTailProperties
<1>3. Rest'
  BY <1>1, <1>2 DEF TurnInv, Rest
<1>4. CASE chat = 0
  <2>1. sess' = sess /\ turn' = turn
    BY <1>4 DEF TimerFires
  <2> QED BY <1>1, <1>3, <2>1 DEF TurnInv
<1>5. CASE chat # 0
  <2>1. /\ sess' = Process(sess, turn, chat, Head(timers), Pick(FreeTids), 0).sess
        /\ turn' = Process(sess, turn, chat, Head(timers), Pick(FreeTids), 0).turn
    BY <1>5 DEF TimerFires, Run
  <2>2. Sound(sess', turn', chat) /\ (MayFail = {} => Tidy(sess', turn', chat))
    BY <1>1, <1>2, <1>5, <2>1, ProcessSound DEF TurnInv
  <2> QED BY <1>1, <1>3, <2>2 DEF TurnInv
<1> QED BY <1>4, <1>5

-----------------------------------------------------------------------------
(* The theorems *)

LEMMA TurnInit == Init => TurnInv
<1> SUFFICES ASSUME Init PROVE TurnInv
  OBVIOUS
<1>1. NoSession \in SessRec
  <2>1. NewSession(0) \in SessRec
    BY NewSessionTyped
  <2> QED BY <2>1 DEF NoSession, SessRec
<1>2. sess \in Sessions /\ turn \in Turns /\ \A t \in Tids : turn[t].pc = "free"
  BY <1>1, NoTurnTyped DEF Init, Sessions, Turns
<1>3. Sound(sess, turn, chat) /\ Tidy(sess, turn, chat)
  BY <1>2 DEF Init, Sound, Tidy, OneFront, Stands, BudgetIsOfModel, Owning, Idle
<1>4. Rest
  BY DEF Init, Rest, NoUpdate
<1> QED BY <1>3, <1>4 DEF TurnInv

LEMMA TurnNext ==
  ASSUME OwnCommands, TurnInv, [Next]_vars
  PROVE  TurnInv'
<1>1. CASE UNCHANGED vars
  BY <1>1 DEF vars, TurnInv, Rest
<1>2. CASE UserStep \/ HandlerStep \/ Expire \/ TimerFires
  BY <1>2, UserKeeps, HandlerKeeps, ExpireKeeps, TimerKeeps
<1>3. CASE GoesStale
  <2>1. /\ sess' = [sess EXCEPT ![chat].stale = TRUE] /\ turn' = turn
        /\ UNCHANGED <<chat, request, timers, update, unsent>>
    BY <1>3 DEF GoesStale
  <2>2. chat \in Sids \cup {0} /\ turn \in Turns
    BY DEF TurnInv, Sound
  <2> QED BY <2>1, <2>2, StaleKeeps, SameSame
<1>4. ASSUME NEW t \in Tids, TurnStep(t)
      PROVE  TurnInv'
  BY <1>4, AskKeeps, BeginKeeps, AutoEscalateKeeps, AutoEscDoneKeeps, FinishKeeps, DeescDoneKeeps
     DEF TurnStep, AskStep
<1>5. ASSUME NEW t \in Tids, WatchdogStep(t) \/ CompactionDone(t)
      PROVE  TurnInv'
  BY <1>5, WatchdogKeeps
<1> QED BY <1>1, <1>2, <1>3, <1>4, <1>5 DEF Next

\* The invariant of a chat whose user sends messages, /cancel and /escalate: the turns on
\* its session stand one behind another, the one at the front owns the session, and what
\* it has in the session (turnId, inFlight, its controller) is its own.
THEOREM TurnsInvariant ==
  ASSUME OwnCommands
  PROVE  Spec => []TurnInv
<1>1. Init => TurnInv
  BY TurnInit
<1>2. TurnInv /\ [Next]_vars => TurnInv'
  BY TurnNext
<1> QED BY <1>1, <1>2, PTL DEF Spec

\* /cancel and the watchdog reach the ask that runs, whichever calls fail: no interleaving
\* of messages, restart timers, escalations and retries leaves an ask behind the session.
THEOREM AskCanBeCancelled ==
  ASSUME OwnCommands
  PROVE  Spec => []AskIsCancellable
<1>1. TurnInv => AskIsCancellable
  BY DEF TurnInv, Sound, Stands, AskIsCancellable, Asking, Owning
<1> QED BY <1>1, TurnsInvariant, PTL

\* As long as sessions are created and placeholders sent, a session in flight has the turn
\* that will free it.
THEOREM FlightIsOwned ==
  ASSUME OwnCommands, MayFail = {}
  PROVE  Spec => []InFlightOwned
<1>1. TurnInv => InFlightOwned
  <2> SUFFICES ASSUME TurnInv, chat # 0, sess[chat].inFlight
               PROVE  \E t \in Live : turn[t].sess = chat /\ turn[t].id = sess[chat].turnId
    BY DEF InFlightOwned
  <2>1. PICK t \in Tids : turn[t].pc \in Owning
    BY DEF TurnInv, Tidy
  <2>2. t \in Live
    BY <2>1 DEF Live, Owning
  <2>3. turn[t].sess = chat /\ turn[t].id = sess[chat].turnId
    BY <2>1 DEF TurnInv, Sound, Stands
  <2> QED BY <2>2, <2>3
<1> QED BY <1>1, TurnsInvariant, PTL

\* Under the same condition no turn leaves the session escalated, or its budget used.
THEOREM BackOnBaseModel ==
  ASSUME OwnCommands, MayFail = {}
  PROVE  Spec => []IdleOnBaseModel
<1>1. TurnInv => IdleOnBaseModel
  <2> SUFFICES ASSUME TurnInv, chat # 0, Live = {}
               PROVE  sess[chat].model = 0 /\ sess[chat].escCount = 0
    BY DEF IdleOnBaseModel
  <2>1. \A t \in Tids : turn[t].pc = "free"
    BY DEF Live
  <2>2. ~(sess[chat].model > 0)
    BY <2>1 DEF TurnInv, Tidy, Owning
  <2>3. sess[chat].model \in 0..NModels /\ NModels \in Nat
    BY BotAssumption DEF TurnInv, Sound, Sessions, SessRec
  <2>4. sess[chat].model = 0
    BY <2>2, <2>3
  <2> QED BY <2>4 DEF TurnInv, Sound, BudgetIsOfModel
<1> QED BY <1>1, TurnsInvariant, PTL
-----------------------------------------------------------------------------
(* Where a message is, whatever the commands do to the sessions *)

In(m, s) == \E i \in DOMAIN s : s[i] = m
Distinct(s) == \A i, j \in DOMAIN s : s[i] = s[j] => i = j

\* The queue of the chat, and whether the end of a turn would serve it.
Waiting(ss, c) == IF c = 0 THEN <<>> ELSE ss[c].queue
Serves(ss, c) == c # 0 /\ ~(EscOn /\ ss[c].model > 0)

\* Queue q, timers tm, the update's message x and the unsent ones un share no message.
Apart(q, tm, x, un) ==
  /\ Distinct(q) /\ Distinct(tm)
  /\ \A m \in Msgs : /\ In(m, q) => ~In(m, tm)
                     /\ In(m, q) \/ In(m, tm) => m # x /\ m \notin un
                     /\ m = x => m \notin un

\* The turns of one message stand in a line, each started by the one before it, and all
\* but the last wait for a call; d counts the calls.
Ranked(tt, d) ==
  \A t \in Tids : tt[t].pc # "free" =>
    /\ tt[t].parent = 0 => d[t] = 0
    /\ tt[t].parent # 0 => /\ tt[t].parent \in Tids /\ tt[tt[t].parent].pc = "nested"
                           /\ tt[tt[t].parent].msg = tt[t].msg
                           /\ d[t] = d[tt[t].parent] + 1
    /\ \A u \in Tids \ {t} : tt[u].pc # "free" /\ tt[u].msg = tt[t].msg =>
         /\ d[u] # d[t]
         /\ tt[u].pc = "nested" \/ tt[t].pc = "nested"
         /\ tt[u].pc = "nested" /\ tt[t].pc # "nested" => d[u] < d[t]

InLine(tt) == \E d \in [Tids -> Nat] : Ranked(tt, d)

\* A message that has a turn is nowhere else, but for one that a turn gave back as it
\* ended: the caller that goes on then will not take it up, or finds no timer set for it.
Alone(tt, q, tm, x, un, serves) ==
  \A t \in Tids : tt[t].pc # "free" =>
    /\ tt[t].msg \in Msgs /\ tt[t].msg \notin un /\ tt[t].msg # x
    /\ In(tt[t].msg, q) \/ In(tt[t].msg, tm) =>
         \E r \in Tids : tt[r].pc = "resumed" /\ tt[r].msg = tt[t].msg
    /\ tt[t].pc = "resumed" => /\ (In(tt[t].msg, tm) => serves)
                               /\ \A u \in Tids : tt[u].pc = "resumed" => u = t

Once(tt, q, tm, x, un, serves) ==
  Apart(q, tm, x, un) /\ InLine(tt) /\ Alone(tt, q, tm, x, un, serves)

\* No more is anywhere than was.
Fewer(q, tm, x, un, q2, tm2, x2, un2) ==
  /\ Distinct(q2) /\ Distinct(tm2) /\ un2 \subseteq un /\ x2 \in {x, NoMsg}
  /\ \A m \in Msgs : (In(m, q2) => In(m, q)) /\ (In(m, tm2) => In(m, tm))

LEMMA FewerApart ==
  ASSUME NEW q, NEW tm, NEW x, NEW un, NEW q2, NEW tm2, NEW x2, NEW un2,
         Apart(q, tm, x, un), Fewer(q, tm, x, un, q2, tm2, x2, un2)
  PROVE  Apart(q2, tm2, x2, un2)
BY BotAssumption DEF Apart, Fewer

\* The same turns are there, and wait for the same calls.
SameLine(tt, uu) ==
  \A u \in Tids : /\ uu[u].msg = tt[u].msg /\ uu[u].parent = tt[u].parent
                  /\ (uu[u].pc = "free") = (tt[u].pc = "free")
                  /\ (uu[u].pc = "nested") = (tt[u].pc = "nested")

LEMMA LineStays ==
  ASSUME NEW tt, NEW uu, InLine(tt), SameLine(tt, uu)
  PROVE  InLine(uu)
<1>1. PICK d \in [Tids -> Nat] : Ranked(tt, d)
  BY DEF InLine
<1>2. Ranked(uu, d)
  <2>1. ASSUME NEW t \in Tids, uu[t].pc # "free"
        PROVE  /\ uu[t].parent = 0 => d[t] = 0
               /\ uu[t].parent # 0 => /\ uu[t].parent \in Tids
                                      /\ uu[uu[t].parent].pc = "nested"
                                      /\ uu[uu[t].parent].msg = uu[t].msg
                                      /\ d[t] = d[uu[t].parent] + 1
    BY <1>1, <2>1 DEF Ranked, SameLine
  <2>2. ASSUME NEW t \in Tids, uu[t].pc # "free", NEW u \in Tids \ {t},
               uu[u].pc # "free", uu[u].msg = uu[t].msg
        PROVE  /\ d[u] # d[t]
               /\ uu[u].pc = "nested" \/ uu[t].pc = "nested"
               /\ uu[u].pc = "nested" /\ uu[t].pc # "nested" => d[u] < d[t]
    <3>1. tt[t].pc # "free" /\ tt[u].pc # "free" /\ tt[u].msg = tt[t].msg
      BY <2>2 DEF SameLine
    <3>2. /\ d[u] # d[t]
          /\ tt[u].pc = "nested" \/ tt[t].pc = "nested"
          /\ tt[u].pc = "nested" /\ tt[t].pc # "nested" => d[u] < d[t]
      BY <1>1, <3>1 DEF Ranked
    <3> QED BY <3>2 DEF SameLine
  <2> QED BY <2>1, <2>2 DEF Ranked
<1> QED BY <1>2 DEF InLine

\* Nothing is handed on.
LEMMA OnceStays ==
  ASSUME NEW tt, NEW uu, NEW q, NEW tm, NEW x, NEW un, NEW serves,
         NEW q2, NEW tm2, NEW x2, NEW un2, NEW serves2,
         Once(tt, q, tm, x, un, serves), SameLine(tt, uu),
         \A u \in Tids : tt[u].pc # "resumed" /\ uu[u].pc # "resumed",
         Fewer(q, tm, x, un, q2, tm2, x2, un2)
  PROVE  Once(uu, q2, tm2, x2, un2, serves2)
<1>1. Apart(q2, tm2, x2, un2)
  BY FewerApart DEF Once
<1>2. InLine(uu)
  BY LineStays DEF Once
<1>3. ASSUME NEW t \in Tids, uu[t].pc # "free"
      PROVE  /\ uu[t].msg \in Msgs /\ uu[t].msg \notin un2 /\ uu[t].msg # x2
             /\ ~In(uu[t].msg, q2) /\ ~In(uu[t].msg, tm2)
  <2>1. tt[t].pc # "free" /\ uu[t].msg = tt[t].msg
    BY <1>3 DEF SameLine
  <2>2. /\ tt[t].msg \in Msgs /\ tt[t].msg \notin un /\ tt[t].msg # x
        /\ ~In(tt[t].msg, q) /\ ~In(tt[t].msg, tm)
    BY <2>1 DEF Once, Alone
  <2> QED BY <2>1, <2>2, BotAssumption DEF Fewer
<1>4. Alone(uu, q2, tm2, x2, un2, serves2)
  BY <1>3 DEF Alone
<1> QED BY <1>1, <1>2, <1>4 DEF Once

\* A turn begins for a message that has none.
LEMMA OnceStarts ==
  ASSUME NEW tt, NEW uu, NEW q, NEW tm, NEW x, NEW un, NEW serves,
         NEW q2, NEW tm2, NEW x2, NEW un2, NEW serves2,
         Once(tt, q, tm, x, un, serves), NEW n \in Tids, tt[n].pc = "free",
         NEW m \in Msgs, \A u \in Tids : tt[u].pc # "free" => tt[u].msg # m,
         uu[n].msg = m, uu[n].parent = 0, uu[n].pc \notin {"free", "nested", "resumed"},
         \A u \in Tids \ {n} : /\ uu[u].msg = tt[u].msg /\ uu[u].parent = tt[u].parent
                               /\ uu[u].pc = tt[u].pc,
         \A u \in Tids : tt[u].pc # "resumed",
         Fewer(q, tm, x, un, q2, tm2, x2, un2),
         ~In(m, q2), ~In(m, tm2), m # x2, m \notin un2
  PROVE  Once(uu, q2, tm2, x2, un2, serves2)
<1>1. Apart(q2, tm2, x2, un2)
  BY FewerApart DEF Once
<1>2. InLine(uu)
  <2>1. PICK d \in [Tids -> Nat] : Ranked(tt, d)
    BY DEF Once, InLine
  <2> DEFINE e == [d EXCEPT ![n] = 0]
  <2>2. e \in [Tids -> Nat] /\ e[n] = 0 /\ \A u \in Tids \ {n} : e[u] = d[u]
    BY <2>1
  <2> HIDE DEF e
  <2>3. ASSUME NEW t \in Tids, uu[t].pc # "free"
        PROVE  /\ uu[t].parent = 0 => e[t] = 0
               /\ uu[t].parent # 0 => /\ uu[t].parent \in Tids
                                      /\ uu[uu[t].parent].pc = "nested"
                                      /\ uu[uu[t].parent].msg = uu[t].msg
                                      /\ e[t] = e[uu[t].parent] + 1
    <3>1. CASE t = n
      BY <2>2, <3>1
    <3>2. CASE t # n
      <4>1. tt[t].pc # "free" /\ uu[t].parent = tt[t].parent /\ uu[t].msg = tt[t].msg
        BY <2>3, <3>2
      <4>2. /\ tt[t].parent = 0 => d[t] = 0
            /\ tt[t].parent # 0 => /\ tt[t].parent \in Tids
                                   /\ tt[tt[t].parent].pc = "nested"
                                   /\ tt[tt[t].parent].msg = tt[t].msg
                                   /\ d[t] = d[tt[t].parent] + 1
        BY <2>1, <4>1 DEF Ranked
      <4>3. CASE tt[t].parent # 0
        <5>1. tt[t].parent \in Tids \ {n}
          BY <4>2, <4>3
        <5> QED BY <2>2, <3>2, <4>1, <4>2, <4>3, <5>1
      <4> QED BY <2>2, <3>2, <4>1, <4>2, <4>3
    <3> QED BY <3>1, <3>2
  <2>4. ASSUME NEW t \in Tids, uu[t].pc # "free", NEW u \in Tids \ {t},
               uu[u].pc # "free", uu[u].msg = uu[t].msg
        PROVE  /\ e[u] # e[t]
               /\ uu[u].pc = "nested" \/ uu[t].pc = "nested"
               /\ uu[u].pc = "nested" /\ uu[t].pc # "nested" => e[u] < e[t]
    <3>1. t # n /\ u # n
      BY <2>4
    <3>2. /\ tt[t].pc # "free" /\ tt[u].pc # "free" /\ tt[u].msg = tt[t].msg
          /\ uu[t].pc = tt[t].pc /\ uu[u].pc = tt[u].pc
      BY <2>4, <3>1
    <3>3. /\ d[u] # d[t]
          /\ tt[u].pc = "nested" \/ tt[t].pc = "nested"
          /\ tt[u].pc = "nested" /\ tt[t].pc # "nested" => d[u] < d[t]
      BY <2>1, <3>2 DEF Ranked
    <3> QED BY <2>2, <3>1, <3>2, <3>3
  <2>5. Ranked(uu, e)
    BY <2>3, <2>4 DEF Ranked
  <2> QED BY <2>2, <2>5 DEF InLine
<1>3. ASSUME NEW t \in Tids, uu[t].pc # "free"
      PROVE  /\ uu[t].msg \in Msgs /\ uu[t].msg \notin un2 /\ uu[t].msg # x2
             /\ ~In(uu[t].msg, q2) /\ ~In(uu[t].msg, tm2) /\ uu[t].pc # "resumed"
  <2>1. CASE t = n
    BY <2>1
  <2>2. CASE t # n
    <3>1. tt[t].pc # "free" /\ uu[t].msg = tt[t].msg /\ uu[t].pc = tt[t].pc
      BY <1>3, <2>2
    <3>2. /\ tt[t].msg \in Msgs /\ tt[t].msg \notin un /\ tt[t].msg # x
          /\ ~In(tt[t].msg, q) /\ ~In(tt[t].msg, tm)
      BY <3>1 DEF Once, Alone
    <3> QED BY <3>1, <3>2, BotAssumption DEF Fewer
  <2> QED BY <2>1, <2>2
<1>4. Alone(uu, q2, tm2, x2, un2, serves2)
  BY <1>3 DEF Alone
<1> QED BY <1>1, <1>2, <1>4 DEF Once

\* A turn ends, and gives its message back or not; the one that awaits it goes on.
LEMMA OnceEnds ==
  ASSUME NEW tt, NEW uu, NEW q, NEW tm, NEW x, NEW un, NEW serves,
         NEW q2, NEW tm2, NEW serves2,
         Once(tt, q, tm, x, un, serves), NEW t \in Tids, tt[t].pc \notin {"free", "nested"},
         \A u \in Tids \ {t} : tt[u].pc # "resumed",
         uu[t].pc = "free",
         \A u \in Tids \ {t} :
           /\ uu[u].msg = tt[u].msg /\ uu[u].parent = tt[u].parent
           /\ uu[u].pc = IF tt[t].parent = u THEN "resumed" ELSE tt[u].pc,
         Apart(q2, tm2, x, un),
         \A m \in Msgs : In(m, q2) \/ In(m, tm2) => In(m, q) \/ In(m, tm) \/ m = tt[t].msg,
         In(tt[t].msg, tm2) => serves2, 0 \notin Tids
  PROVE  Once(uu, q2, tm2, x, un, serves2)
<1>1. PICK d \in [Tids -> Nat] : Ranked(tt, d)
  BY DEF Once, InLine
<1>2. /\ tt[t].parent = 0 => d[t] = 0
      /\ tt[t].parent # 0 => /\ tt[t].parent \in Tids /\ tt[tt[t].parent].pc = "nested"
                             /\ tt[tt[t].parent].msg = tt[t].msg
                             /\ d[t] = d[tt[t].parent] + 1
  BY <1>1 DEF Ranked
\* The other turns of its message wait for it, directly or not.
<1>3. ASSUME NEW u \in Tids \ {t}, tt[u].pc # "free", tt[u].msg = tt[t].msg
      PROVE  tt[u].pc = "nested" /\ d[u] < d[t] /\ tt[t].parent # 0
  <2>1. /\ tt[u].pc = "nested" \/ tt[t].pc = "nested"
        /\ tt[u].pc = "nested" /\ tt[t].pc # "nested" => d[u] < d[t]
    BY <1>1, <1>3 DEF Ranked
  <2>2. d[u] \in Nat /\ d[t] \in Nat
    BY <1>1
  <2> QED BY <1>2, <2>1, <2>2
\* Nobody else is awaited by the same turn.
<1>4. ASSUME NEW u \in Tids \ {t}, tt[u].pc # "free", tt[u].parent # 0
      PROVE  tt[u].parent # tt[t].parent
  <2> SUFFICES ASSUME tt[u].parent = tt[t].parent PROVE FALSE
    OBVIOUS
  <2>1. tt[tt[u].parent].msg = tt[u].msg /\ d[u] = d[tt[u].parent] + 1
    BY <1>1, <1>4 DEF Ranked
  <2>2. tt[u].msg = tt[t].msg /\ d[u] = d[t]
    BY <1>2, <1>4, <2>1
  <2> QED BY <1>1, <1>4, <2>2 DEF Ranked
<1>5. Ranked(uu, d)
  <2>1. ASSUME NEW v \in Tids, uu[v].pc # "free"
        PROVE  v # t /\ tt[v].pc # "free" /\ uu[v].msg = tt[v].msg /\ uu[v].parent = tt[v].parent
    <3>1. v # t
      BY <2>1
    <3>2. tt[v].pc # "free"
      BY <1>2, <2>1, <3>1
    <3> QED BY <3>1, <3>2
  <2>2. ASSUME NEW v \in Tids, uu[v].pc # "free"
        PROVE  /\ uu[v].parent = 0 => d[v] = 0
               /\ uu[v].parent # 0 => /\ uu[v].parent \in Tids
                                      /\ uu[uu[v].parent].pc = "nested"
                                      /\ uu[uu[v].parent].msg = uu[v].msg
                                      /\ d[v] = d[uu[v].parent] + 1
    <3>1. v # t /\ tt[v].pc # "free" /\ uu[v].msg = tt[v].msg /\ uu[v].parent = tt[v].parent
      BY <2>1, <2>2
    <3>2. /\ tt[v].parent = 0 => d[v] = 0
          /\ tt[v].parent # 0 => /\ tt[v].parent \in Tids /\ tt[tt[v].parent].pc = "nested"
                                 /\ tt[tt[v].parent].msg = tt[v].msg
                                 /\ d[v] = d[tt[v].parent] + 1
      BY <1>1, <3>1 DEF Ranked
    <3>3. CASE tt[v].parent # 0
      <4>1. tt[v].parent # t /\ tt[v].parent # tt[t].parent
        BY <1>4, <3>1, <3>2, <3>3
      <4>2. /\ uu[tt[v].parent].pc = "nested"
            /\ uu[tt[v].parent].msg = tt[tt[v].parent].msg
        BY <3>2, <3>3, <4>1
      <4> QED BY <3>1, <3>2, <3>3, <4>2
    <3> QED BY <3>1, <3>2, <3>3
  <2>3. ASSUME NEW v \in Tids, uu[v].pc # "free", NEW u \in Tids \ {v},
               uu[u].pc # "free", uu[u].msg = uu[v].msg
        PROVE  /\ d[u] # d[v]
               /\ uu[u].pc = "nested" \/ uu[v].pc = "nested"
               /\ uu[u].pc = "nested" /\ uu[v].pc # "nested" => d[u] < d[v]
    <3>1. /\ v # t /\ tt[v].pc # "free" /\ uu[v].msg = tt[v].msg
          /\ u # t /\ tt[u].pc # "free" /\ uu[u].msg = tt[u].msg
      BY <2>1, <2>3
    <3>2. /\ d[u] # d[v]
          /\ tt[u].pc = "nested" \/ tt[v].pc = "nested"
          /\ tt[u].pc = "nested" /\ tt[v].pc # "nested" => d[u] < d[v]
      BY <1>1, <2>3, <3>1 DEF Ranked
    <3>3. d[u] \in Nat /\ d[v] \in Nat /\ d[t] \in Nat
      BY <1>1
    <3>4. CASE tt[v].msg = tt[t].msg
      <4>1. /\ tt[u].pc = "nested" /\ d[u] < d[t] /\ tt[v].pc = "nested" /\ d[v] < d[t]
            /\ tt[t].parent # 0
        BY <1>3, <2>3, <3>1, <3>4
      <4>2. d[t] = d[tt[t].parent] + 1 /\ tt[t].parent \in Tids
        BY <1>2, <4>1
      <4>3. uu[u].pc = IF tt[t].parent = u THEN "resumed" ELSE tt[u].pc
        BY <3>1
      <4>4. uu[v].pc = IF tt[t].parent = v THEN "resumed" ELSE tt[v].pc
        BY <3>1
      <4>5. uu[u].pc = "nested" \/ uu[v].pc = "nested"
        BY <2>3, <4>1, <4>3, <4>4
      <4>6. ASSUME uu[u].pc = "nested", uu[v].pc # "nested" PROVE d[u] < d[v]
        <5>1. tt[t].parent = v
          BY <4>1, <4>4, <4>6
        <5>2. d[t] = d[v] + 1
          BY <4>2, <5>1
        <5> QED BY <3>2, <3>3, <4>1, <5>2
      <4> QED BY <3>2, <4>5, <4>6
    <3>5. CASE tt[v].msg # tt[t].msg
      <4>1. u # tt[t].parent /\ v # tt[t].parent
        <5>1. tt[u].msg # tt[t].msg
          BY <2>3, <3>1, <3>5
        <5> QED BY <1>2, <3>5, <5>1
      <4>2. uu[u].pc = tt[u].pc /\ uu[v].pc = tt[v].pc
        BY <3>1, <4>1
      <4> QED BY <3>2, <4>2
    <3> QED BY <3>4, <3>5
  <2> QED BY <2>2, <2>3 DEF Ranked
<1>6. ASSUME NEW u \in Tids, uu[u].pc # "free"
      PROVE  /\ uu[u].msg \in Msgs /\ uu[u].msg \notin un /\ uu[u].msg # x
             /\ In(uu[u].msg, q2) \/ In(uu[u].msg, tm2) =>
                  \E r \in Tids : uu[r].pc = "resumed" /\ uu[r].msg = uu[u].msg
             /\ uu[u].pc = "resumed" => /\ (In(uu[u].msg, tm2) => serves2)
                                        /\ \A v \in Tids : uu[v].pc = "resumed" => v = u
  <2>1. u # t /\ uu[u].msg = tt[u].msg /\ tt[u].pc # "free"
    <3>1. u # t
      BY <1>6
    <3> QED BY <1>2, <1>6, <3>1
  <2>2. tt[u].msg \in Msgs /\ tt[u].msg \notin un /\ tt[u].msg # x
    BY <2>1 DEF Once, Alone
  <2>3. ASSUME In(tt[u].msg, q2) \/ In(tt[u].msg, tm2)
        PROVE  \E r \in Tids : uu[r].pc = "resumed" /\ uu[r].msg = tt[u].msg
    <3>1. tt[u].msg = tt[t].msg
      <4> SUFFICES ASSUME tt[u].msg # tt[t].msg PROVE FALSE
        OBVIOUS
      <4>1. In(tt[u].msg, q) \/ In(tt[u].msg, tm)
        BY <2>2, <2>3
      <4>2. PICK r \in Tids : tt[r].pc = "resumed" /\ tt[r].msg = tt[u].msg
        BY <2>1, <4>1 DEF Once, Alone
      <4> QED BY <4>2
    <3>2. tt[t].parent # 0
      BY <1>3, <2>1, <3>1
    <3>3. tt[t].parent \in Tids \ {t} /\ tt[tt[t].parent].msg = tt[t].msg
      BY <1>2, <3>2
    <3>4. uu[tt[t].parent].pc = "resumed" /\ uu[tt[t].parent].msg = tt[u].msg
      BY <3>1, <3>3
    <3> QED BY <3>3, <3>4
  <2>4. ASSUME uu[u].pc = "resumed"
        PROVE  /\ (In(tt[u].msg, tm2) => serves2)
               /\ \A v \in Tids : uu[v].pc = "resumed" => v = u
    <3>1. u = tt[t].parent
      BY <2>1, <2>4
    <3>2. tt[u].msg = tt[t].msg
      <4>1. tt[t].parent # 0
        BY <3>1
      <4> QED BY <1>2, <3>1, <4>1
    <3>3. ASSUME NEW v \in Tids, uu[v].pc = "resumed" PROVE v = u
      <4>1. v # t
        BY <3>3
      <4> QED BY <3>1, <3>3, <4>1
    <3> QED BY <3>2, <3>3
  <2> QED BY <2>1, <2>2, <2>3, <2>4
<1>7. Alone(uu, q2, tm2, x, un, serves2)
  BY <1>6 DEF Alone
<1>8. InLine(uu)
  BY <1>1, <1>5 DEF InLine
<1> QED BY <1>7, <1>8 DEF Once

\* A turn hands its message to another that it awaits.
LEMMA OnceNests ==
  ASSUME NEW tt, NEW uu, NEW q, NEW tm, NEW x, NEW un, NEW serves,
         NEW q2, NEW serves2,
         Once(tt, q, tm, x, un, serves),
         NEW t \in Tids, tt[t].pc \notin {"free", "nested", "resumed"},
         NEW n \in Tids, tt[n].pc = "free",
         uu[t].pc = "nested", uu[t].msg = tt[t].msg, uu[t].parent = tt[t].parent,
         uu[n].pc \notin {"free", "nested", "resumed"}, uu[n].msg = tt[t].msg,
         uu[n].parent = t,
         \A u \in Tids \ {t, n} : /\ uu[u].msg = tt[u].msg /\ uu[u].parent = tt[u].parent
                                  /\ uu[u].pc = tt[u].pc,
         \A u \in Tids : tt[u].pc # "resumed",
         Fewer(q, tm, x, un, q2, tm, x, un), 0 \notin Tids
  PROVE  Once(uu, q2, tm, x, un, serves2)
<1>1. PICK d \in [Tids -> Nat] : Ranked(tt, d)
  BY DEF Once, InLine
<1> DEFINE e == [d EXCEPT ![n] = d[t] + 1]
<1>2. /\ e \in [Tids -> Nat] /\ e[n] = d[t] + 1 /\ d[t] \in Nat
      /\ \A u \in Tids \ {n} : e[u] = d[u]
  <2>1. d[t] \in Nat /\ d[t] + 1 \in Nat
    BY <1>1
  <2> QED BY <1>1, <2>1
<1> HIDE DEF e
<1>3. ASSUME NEW u \in Tids \ {t}, tt[u].pc # "free", tt[u].msg = tt[t].msg
      PROVE  tt[u].pc = "nested" /\ d[u] < d[t]
  BY <1>1, <1>3 DEF Ranked
<1>4. ASSUME NEW v \in Tids \ {n}, uu[v].pc # "free"
      PROVE  tt[v].pc # "free" /\ uu[v].msg = tt[v].msg /\ uu[v].parent = tt[v].parent
  BY <1>4
<1>5. ASSUME NEW v \in Tids, uu[v].pc # "free"
      PROVE  /\ uu[v].parent = 0 => e[v] = 0
             /\ uu[v].parent # 0 => /\ uu[v].parent \in Tids
                                    /\ uu[uu[v].parent].pc = "nested"
                                    /\ uu[uu[v].parent].msg = uu[v].msg
                                    /\ e[v] = e[uu[v].parent] + 1
  <2>1. CASE v = n
    <3>1. t # n /\ e[t] = d[t] /\ t # 0
      BY <1>2
    <3> QED BY <1>2, <2>1, <3>1
  <2>2. CASE v # n
    <3>1. tt[v].pc # "free" /\ uu[v].msg = tt[v].msg /\ uu[v].parent = tt[v].parent
          /\ e[v] = d[v]
      BY <1>2, <1>4, <1>5, <2>2
    <3>2. /\ tt[v].parent = 0 => d[v] = 0
          /\ tt[v].parent # 0 => /\ tt[v].parent \in Tids /\ tt[tt[v].parent].pc = "nested"
                                 /\ tt[tt[v].parent].msg = tt[v].msg
                                 /\ d[v] = d[tt[v].parent] + 1
      BY <1>1, <3>1 DEF Ranked
    <3>3. CASE tt[v].parent # 0
      <4>1. tt[v].parent \in Tids \ {t, n}
        BY <3>2, <3>3
      <4> QED BY <1>2, <3>1, <3>2, <3>3, <4>1
    <3> QED BY <3>1, <3>2, <3>3
  <2> QED BY <2>1, <2>2
<1>6. ASSUME NEW v \in Tids, uu[v].pc # "free", NEW u \in Tids \ {v},
             uu[u].pc # "free", uu[u].msg = uu[v].msg
      PROVE  /\ e[u] # e[v]
             /\ uu[u].pc = "nested" \/ uu[v].pc = "nested"
             /\ uu[u].pc = "nested" /\ uu[v].pc # "nested" => e[u] < e[v]
  <2>1. ASSUME NEW w \in Tids \ {n}, uu[w].pc # "free", uu[w].msg = tt[t].msg
        PROVE  uu[w].pc = "nested" /\ e[w] < e[n]
    <3>1. CASE w = t
      BY <1>2, <2>1, <3>1
    <3>2. CASE w # t
      <4>1. tt[w].pc = "nested" /\ d[w] < d[t] /\ d[w] \in Nat
        BY <1>1, <1>3, <1>4, <2>1, <3>2
      <4> QED BY <1>2, <2>1, <3>2, <4>1
    <3> QED BY <3>1, <3>2
  <2>2. e[u] \in Nat /\ e[v] \in Nat /\ e[n] \in Nat
    BY <1>2
  <2>3. CASE u = n
    <3>1. uu[v].pc = "nested" /\ e[v] < e[n]
      BY <1>6, <2>1, <2>3
    <3> QED BY <2>2, <2>3, <3>1
  <2>4. CASE v = n
    <3>1. uu[u].pc = "nested" /\ e[u] < e[n]
      BY <1>6, <2>1, <2>4
    <3> QED BY <2>2, <2>4, <3>1
  <2>5. CASE u # n /\ v # n
    <3>1. /\ tt[v].pc # "free" /\ uu[v].msg = tt[v].msg /\ e[v] = d[v]
          /\ tt[u].pc # "free" /\ uu[u].msg = tt[u].msg /\ e[u] = d[u]
      BY <1>2, <1>4, <1>6, <2>5
    <3>2. d[u] # d[v]
      BY <1>1, <1>6, <3>1 DEF Ranked
    <3>3. CASE uu[v].msg = tt[t].msg
      <4>1. uu[u].pc = "nested" /\ uu[v].pc = "nested"
        BY <1>6, <2>1, <2>5, <3>3
      <4> QED BY <3>1, <3>2, <4>1
    <3>4. CASE uu[v].msg # tt[t].msg
      <4>1. u # t /\ v # t
        BY <1>6, <3>4
      <4>2. uu[u].pc = tt[u].pc /\ uu[v].pc = tt[v].pc
        BY <2>5, <4>1
      <4>3. /\ tt[u].pc = "nested" \/ tt[v].pc = "nested"
            /\ tt[u].pc = "nested" /\ tt[v].pc # "nested" => d[u] < d[v]
        BY <1>1, <1>6, <3>1 DEF Ranked
      <4> QED BY <3>1, <3>2, <4>2, <4>3
    <3> QED BY <3>3, <3>4
  <2> QED BY <2>3, <2>4, <2>5
<1>7. InLine(uu)
  BY <1>2, <1>5, <1>6 DEF InLine, Ranked
<1>8. ASSUME NEW u \in Tids, uu[u].pc # "free"
      PROVE  /\ uu[u].msg \in Msgs /\ uu[u].msg \notin un /\ uu[u].msg # x
             /\ ~In(uu[u].msg, q2) /\ ~In(uu[u].msg, tm) /\ uu[u].pc # "resumed"
  <2>1. PICK w \in Tids : tt[w].pc # "free" /\ uu[u].msg = tt[w].msg
    <3>1. CASE u = n
      BY <3>1
    <3>2. CASE u # n
      BY <1>4, <1>8, <3>2
    <3> QED BY <3>1, <3>2
  <2>2. /\ tt[w].msg \in Msgs /\ tt[w].msg \notin un /\ tt[w].msg # x
        /\ ~In(tt[w].msg, q) /\ ~In(tt[w].msg, tm)
    BY <2>1 DEF Once, Alone
  <2>3. uu[u].pc # "resumed"
    BY <1>8
  <2> QED BY <2>1, <2>2, <2>3 DEF Fewer
<1>9. Alone(uu, q2, tm, x, un, serves2)
  BY <1>8 DEF Alone
<1>10. Apart(q2, tm, x, un)
  BY FewerApart DEF Once
<1> QED BY <1>7, <1>9, <1>10 DEF Once

\* A turn is back from its calls, or goes on to recreate the session, which clears the
\* queue.
LEMMA OnceResumes ==
  ASSUME NEW tt, NEW uu, NEW q, NEW tm, NEW x, NEW un, NEW serves,
         NEW q2, NEW serves2,
         Once(tt, q, tm, x, un, serves),
         NEW t \in Tids, tt[t].pc \notin {"free", "nested"},
         uu[t].pc \notin {"free", "nested"}, uu[t].msg = tt[t].msg,
         uu[t].parent = tt[t].parent,
         \A u \in Tids \ {t} : /\ uu[u].msg = tt[u].msg /\ uu[u].parent = tt[u].parent
                               /\ uu[u].pc = tt[u].pc /\ uu[u].pc # "resumed",
         Fewer(q, tm, x, un, q2, tm, x, un),
         ~In(tt[t].msg, q2), ~In(tt[t].msg, tm)
  PROVE  Once(uu, q2, tm, x, un, serves2)
<1>1. Apart(q2, tm, x, un)
  BY FewerApart DEF Once
<1>2. InLine(uu)
  <2>1. SameLine(tt, uu)
    BY DEF SameLine
  <2> QED BY <2>1, LineStays DEF Once
<1>3. ASSUME NEW u \in Tids, uu[u].pc # "free"
      PROVE  /\ uu[u].msg \in Msgs /\ uu[u].msg \notin un /\ uu[u].msg # x
             /\ ~In(uu[u].msg, q2) /\ ~In(uu[u].msg, tm)
             /\ uu[u].pc = "resumed" => u = t
  <2>1. tt[u].pc # "free" /\ uu[u].msg = tt[u].msg
    BY <1>3
  <2>2. tt[u].msg \in Msgs /\ tt[u].msg \notin un /\ tt[u].msg # x
    BY <2>1 DEF Once, Alone
  <2>3. ASSUME tt[u].msg # tt[t].msg
        PROVE  ~In(tt[u].msg, q) /\ ~In(tt[u].msg, tm)
    BY <2>1, <2>3 DEF Once, Alone
  <2>4. ~In(tt[u].msg, q2) /\ ~In(tt[u].msg, tm)
    BY <2>2, <2>3 DEF Fewer
  <2> QED BY <2>1, <2>2, <2>4
<1>4. Alone(uu, q2, tm, x, un, serves2)
  BY <1>3 DEF Alone
<1> QED BY <1>1, <1>2, <1>4 DEF Once

-----------------------------------------------------------------------------
(* What the code does to the queue and to the turns *)

LEMMA EmptyIs == Distinct(<<>>) /\ \A m : ~In(m, <<>>)
BY DEF Distinct, In

LEMMA TailIs ==
  ASSUME NEW s \in Seq(Msgs), s # <<>>, Distinct(s)
  PROVE  /\ Tail(s) \in Seq(Msgs) /\ Head(s) \in Msgs /\ In(Head(s), s)
         /\ Distinct(Tail(s)) /\ ~In(Head(s), Tail(s))
         /\ \A m : In(m, Tail(s)) => In(m, s)
<1>1. /\ Tail(s) \in Seq(Msgs) /\ Len(Tail(s)) = Len(s) - 1 /\ Len(s) \in Nat \ {0}
      /\ \A i \in 1 .. Len(Tail(s)) : Tail(s)[i] = s[i + 1]
      /\ Head(s) = s[1] /\ DOMAIN s = 1 .. Len(s) /\ DOMAIN Tail(s) = 1 .. Len(Tail(s))
      /\ Head(s) \in Msgs
  BY HeadTailProperties
<1>2. \A i \in DOMAIN Tail(s) : i + 1 \in DOMAIN s /\ i + 1 # 1 /\ Tail(s)[i] = s[i + 1]
  BY <1>1
<1>3. In(Head(s), s)
  BY <1>1 DEF In
<1>4. Distinct(Tail(s))
  <2>1. ASSUME NEW i \in DOMAIN Tail(s), NEW j \in DOMAIN Tail(s), Tail(s)[i] = Tail(s)[j]
        PROVE  i = j
    <3>1. i + 1 = j + 1
      BY <1>2, <2>1 DEF Distinct
    <3> QED BY <1>1, <3>1
  <2> QED BY <2>1 DEF Distinct
<1>5. ~In(Head(s), Tail(s))
  BY <1>1, <1>2 DEF In, Distinct
<1>6. \A m : In(m, Tail(s)) => In(m, s)
  BY <1>2 DEF In
<1> QED BY <1>1, <1>3, <1>4, <1>5, <1>6

LEMMA AppendIs ==
  ASSUME NEW s \in Seq(Msgs), NEW m \in Msgs, Distinct(s), ~In(m, s)
  PROVE  /\ Append(s, m) \in Seq(Msgs) /\ Distinct(Append(s, m))
         /\ \A u : In(u, Append(s, m)) => In(u, s) \/ u = m
<1>1. /\ Append(s, m) \in Seq(Msgs) /\ Len(s) \in Nat
      /\ DOMAIN Append(s, m) = 1 .. Len(s) + 1 /\ DOMAIN s = 1 .. Len(s)
      /\ \A i \in DOMAIN s : Append(s, m)[i] = s[i]
      /\ Append(s, m)[Len(s) + 1] = m
  OBVIOUS
<1>2. \A i \in DOMAIN Append(s, m) : i = Len(s) + 1 \/ i \in DOMAIN s
  BY <1>1
<1>3. Distinct(Append(s, m))
  BY <1>1, <1>2 DEF Distinct, In
<1>4. \A u : In(u, Append(s, m)) => In(u, s) \/ u = m
  BY <1>1, <1>2 DEF In
<1> QED BY <1>1, <1>3, <1>4

LEMMA FrontIs ==
  ASSUME NEW s \in Seq(Msgs), NEW m \in Msgs, Distinct(s), ~In(m, s)
  PROVE  /\ <<m>> \o s \in Seq(Msgs) /\ Distinct(<<m>> \o s)
         /\ \A u : In(u, <<m>> \o s) => In(u, s) \/ u = m
<1> DEFINE r == <<m>> \o s
<1>1. /\ r \in Seq(Msgs) /\ Len(s) \in Nat /\ Len(r) = Len(s) + 1
      /\ DOMAIN r = 1 .. Len(s) + 1 /\ DOMAIN s = 1 .. Len(s)
  OBVIOUS
<1>2. r[1] = m /\ \A i \in DOMAIN r : i # 1 => i - 1 \in DOMAIN s /\ r[i] = s[i - 1]
  OBVIOUS
<1> HIDE DEF r
<1>3. ASSUME NEW i \in DOMAIN r, NEW j \in DOMAIN r, r[i] = r[j]
      PROVE  i = j
  <2>1. i \in Nat /\ j \in Nat
    BY <1>1
  <2>2. CASE i = 1
    BY <1>2, <1>3, <2>2 DEF In
  <2>3. CASE j = 1
    BY <1>2, <1>3, <2>3 DEF In
  <2>4. CASE i # 1 /\ j # 1
    <3>1. i - 1 = j - 1
      BY <1>2, <1>3, <2>4 DEF Distinct
    <3> QED BY <2>1, <3>1
  <2> QED BY <2>2, <2>3, <2>4
<1>4. \A u : In(u, r) => In(u, s) \/ u = m
  BY <1>2 DEF In
<1> QED BY <1>1, <1>3, <1>4 DEF r, Distinct

LEMMA WaitingIs ==
  ASSUME NEW ss \in Sessions, NEW c \in Sids \cup {0}
  PROVE  Waiting(ss, c) \in Seq(Msgs)
BY DEF Waiting, Sessions, SessRec

\* No queue but that of a session being recreated changes.
LEMMA QueuesAre ==
  ASSUME NEW ss \in Sessions, NEW s \in Sids, NEW c \in Sids, NEW a \in Agents, NEW id,
         chat \in Sids \cup {0}
  PROVE  /\ BeginTurn(ss, s)[c].queue = ss[c].queue
         /\ RecreateEnd(ss, s, a)[c].queue = ss[c].queue
         /\ FinishTurn(ss, id) \in Sessions /\ FinishTurn(ss, id)[c].queue = ss[c].queue
         /\ RecreateStart(ss, c)[c].queue = <<>>
         /\ chat # 0 => BaseModel(ss)[c].queue = ss[c].queue
<1>1. ss[s] \in SessRec /\ ss[c] \in SessRec
  BY DEF Sessions
<1>2. BeginTurn(ss, s)[c].queue = ss[c].queue
  BY <1>1 DEF BeginTurn, Sessions, SessRec
<1>3. RecreateEnd(ss, s, a)[c].queue = ss[c].queue
  BY <1>1 DEF RecreateEnd, Sessions, SessRec
<1>4. RecreateStart(ss, c)[c].queue = <<>>
  BY <1>1 DEF RecreateStart, Sessions, SessRec
<1>5. ASSUME chat # 0 PROVE BaseModel(ss)[c].queue = ss[c].queue
  BY <1>1, <1>5 DEF BaseModel, Sessions, SessRec
<1>6. FinishTurn(ss, id) \in Sessions /\ FinishTurn(ss, id)[c].queue = ss[c].queue
  <2>1. CASE chat # 0
    <3>1. FinishTurn(ss, id) \in Sessions
      BY <2>1, FinishTurnIs
    <3>2. ss[chat] \in SessRec
      BY <2>1 DEF Sessions
    <3>3. FinishTurn(ss, id)[c].queue = ss[c].queue
      BY <1>1, <2>1, <3>2 DEF FinishTurn, Sessions, SessRec
    <3> QED BY <3>1, <3>3
  <2>2. CASE chat = 0
    BY <2>2 DEF FinishTurn
  <2> QED BY <2>1, <2>2
<1> QED BY <1>2, <1>3, <1>4, <1>5, <1>6

Recreating == {"escalating", "keyword", "autoEsc", "deesc"}
Working == Pcs \ {"free", "nested", "resumed"}

\* What the record of a turn refers to.
Held(r) ==
  /\ r \in TurnRec
  /\ r.pc # "free" => r.sess \in Sids /\ r.msg \in Msgs
  /\ r.pc \in Recreating => r.fresh \in Sids

\* Turn t of tt has record r now, and the others stay where they are.
Goes(tt, uu, t, r) ==
  /\ uu \in Turns /\ uu[t] = r
  /\ \A u \in Tids \ {t} :
       /\ uu[u].pc = tt[u].pc /\ uu[u].sess = tt[u].sess /\ uu[u].msg = tt[u].msg
       /\ uu[u].fresh = tt[u].fresh /\ uu[u].parent = tt[u].parent

LEMMA AwaitRecreateGoes ==
  ASSUME NEW ss \in Sessions, NEW tt \in Turns, NEW c \in Sids, NEW t \in Tids,
         NEW r \in TurnRec
  PROVE  LET p == AwaitRecreate(ss, tt, c, t, r)
         IN  /\ p.sess \in Sessions /\ p.sess[c].queue = <<>>
             /\ Goes(tt, p.turn, t, [r EXCEPT !.fresh = c])
<1>1. Abort(ss, tt, c) \in Turns /\ SameTurns(tt, Abort(ss, tt, c))
  BY AbortIs
<1>2. [r EXCEPT !.fresh = c] \in TurnRec
  BY DEF TurnRec
<1>3. RecreateStart(ss, c) \in Sessions
  BY RecreateStartIs
<1>4. RecreateStart(ss, c)[c].queue = <<>>
  <2>1. ss[c] \in SessRec
    BY DEF Sessions
  <2> QED BY <2>1 DEF RecreateStart, Sessions, SessRec
<1>5. Goes(tt, [Abort(ss, tt, c) EXCEPT ![t] = [r EXCEPT !.fresh = c]], t, [r EXCEPT !.fresh = c])
  BY <1>1, <1>2 DEF Turns, SameTurns, Goes
<1> QED BY <1>3, <1>4, <1>5 DEF AwaitRecreate

LEMMA KeywordCheckGoes ==
  ASSUME NEW ss \in Sessions, NEW tt \in Turns, NEW c \in Sids, NEW t \in Tids,
         NEW r \in TurnRec, r.sess \in Sids, r.msg \in Msgs
  PROVE  LET p == KeywordCheck(ss, tt, c, t, r)
         IN  /\ p.sess \in Sessions /\ p.sess[c].queue \in {ss[c].queue, <<>>}
             /\ Goes(tt, p.turn, t, p.turn[t]) /\ Held(p.turn[t])
             /\ p.turn[t].pc \in {"keyword", "init"} /\ p.turn[t].msg = r.msg
             /\ p.turn[t].parent = r.parent
<1>1. /\ ss[r.sess] \in SessRec /\ Tier[r.msg] \in 0..NModels /\ NModels \in Nat
  BY BotAssumption DEF Sessions
<1>2. CASE Tier[r.msg] > ss[r.sess].model
  <2> DEFINE s  == r.sess
             q  == [ss[s] EXCEPT !.model = Tier[r.msg], !.escCount = @ + 1]
             qq == [ss EXCEPT ![s] = q]
             rr == [r EXCEPT !.pc = "keyword"]
             p  == AwaitRecreate(qq, tt, c, t, rr)
             z  == [rr EXCEPT !.fresh = c]
  <2>1. KeywordCheck(ss, tt, c, t, r) = p
    BY <1>2 DEF KeywordCheck, Sessions
  <2>2. q \in SessRec
    <3>1. ss[s].escCount + 1 \in Nat
      BY <1>1 DEF SessRec
    <3> QED BY <1>1, <3>1 DEF SessRec
  <2>3. /\ rr \in TurnRec /\ rr.pc = "keyword" /\ rr.sess = r.sess /\ rr.msg = r.msg
        /\ rr.parent = r.parent
    BY DEF TurnRec, Pcs, Owning
  <2> HIDE DEF q, rr
  <2>4. qq \in Sessions
    BY <2>2, OneSession
  <2> HIDE DEF qq
  <2>5. p.sess \in Sessions /\ p.sess[c].queue = <<>> /\ Goes(tt, p.turn, t, z)
    BY <2>3, <2>4, AwaitRecreateGoes
  <2>6. /\ z \in TurnRec /\ z.pc = "keyword" /\ z.sess = r.sess /\ z.msg = r.msg
        /\ z.parent = r.parent /\ z.fresh = c
    BY <2>3 DEF TurnRec
  <2> HIDE DEF z
  <2>7. Held(z)
    BY <2>6 DEF Held
  <2> HIDE DEF p
  <2>8. p.turn[t] = z
    BY <2>5 DEF Goes
  <2> QED BY <2>1, <2>5, <2>6, <2>7, <2>8
<1>3. CASE ~(Tier[r.msg] > ss[r.sess].model)
  <2> DEFINE rr == [r EXCEPT !.pc = "init"]
             tu == [tt EXCEPT ![t] = rr]
  <2>1. KeywordCheck(ss, tt, c, t, r) = [sess |-> ss, turn |-> tu]
    BY <1>3 DEF KeywordCheck
  <2>2. /\ rr \in TurnRec /\ rr.pc = "init" /\ rr.sess = r.sess /\ rr.msg = r.msg
        /\ rr.parent = r.parent
    BY DEF TurnRec, Pcs, Owning
  <2> HIDE DEF rr
  <2>3. Goes(tt, tu, t, rr)
    BY <2>2 DEF Goes, Turns
  <2>4. Held(rr)
    BY <2>2 DEF Held, Recreating
  <2> HIDE DEF tu
  <2>5. tu[t] = rr
    BY <2>3 DEF Goes
  <2> QED BY <2>1, <2>2, <2>3, <2>4, <2>5
<1> QED BY <1>2, <1>3

LEMMA ProcessGoes ==
  ASSUME NEW ss \in Sessions, NEW tt \in Turns, NEW c \in Sids, NEW m \in Msgs,
         NEW n \in Tids, NEW parent \in Tids \cup {0}, CanBegin(ss, c)
  PROVE  LET p == Process(ss, tt, c, m, n, parent)
         IN  /\ p.sess \in Sessions /\ p.sess[c].queue \in {ss[c].queue, <<>>}
             /\ Goes(tt, p.turn, n, p.turn[n]) /\ Held(p.turn[n])
             /\ p.turn[n].pc \in Working /\ p.turn[n].msg = m /\ p.turn[n].parent = parent
<1> DEFINE began == BeginTurn(ss, c)
           r     == [NoTurn EXCEPT !.sess = c, !.id = began[c].turnId, !.msg = m,
                                   !.parent = parent]
           model == ss[c].pendingEsc
<1>1. /\ began \in Sessions /\ began[c].turnId \in Nat
  BY BeginTurnIs
<1>2. began[c].queue = ss[c].queue
  <2>1. ss[c] \in SessRec
    BY DEF Sessions
  <2> QED BY <2>1 DEF BeginTurn, Sessions, SessRec
<1> HIDE DEF began
<1>3. r \in TurnRec /\ r.sess = c /\ r.msg = m /\ r.parent = parent
  BY <1>1, NoTurnTyped DEF NoTurn, TurnRec, Pcs, Idle
<1> HIDE DEF r
<1>4. ss[c] \in SessRec /\ began[c] \in SessRec /\ model \in 0..NModels
  BY <1>1 DEF Sessions, SessRec
<1>5. CASE model # 0
  <2> DEFINE q  == [began[c] EXCEPT !.pendingEsc = 0, !.model = model, !.escCount = @ + 1]
             qq == [began EXCEPT ![c] = q]
             rr == [r EXCEPT !.pc = "escalating"]
             p  == AwaitRecreate(qq, tt, c, n, rr)
             z  == [rr EXCEPT !.fresh = c]
  <2>1. Process(ss, tt, c, m, n, parent) = p
    BY <1>1, <1>5 DEF Process, began, r, Sessions
  <2>2. q \in SessRec
    <3>1. began[c].escCount + 1 \in Nat /\ 0 \in 0..NModels
      <4>1. began[c].escCount \in Nat
        BY <1>4 DEF SessRec
      <4> QED BY <4>1, BotAssumption
    <3> HIDE DEF model
    <3> QED BY <1>4, <3>1 DEF SessRec
  <2>3. /\ rr \in TurnRec /\ rr.pc = "escalating" /\ rr.sess = c /\ rr.msg = m
        /\ rr.parent = parent
    BY <1>3 DEF TurnRec, Pcs, Owning
  <2> HIDE DEF q, rr
  <2>4. qq \in Sessions
    BY <1>1, <2>2, OneSession
  <2> HIDE DEF qq
  <2>5. p.sess \in Sessions /\ p.sess[c].queue = <<>> /\ Goes(tt, p.turn, n, z)
    BY <2>3, <2>4, AwaitRecreateGoes
  <2>6. /\ z \in TurnRec /\ z.pc = "escalating" /\ z.sess = c /\ z.msg = m
        /\ z.parent = parent /\ z.fresh = c
    BY <2>3 DEF TurnRec
  <2> HIDE DEF z
  <2>7. Held(z)
    BY <2>6 DEF Held
  <2> HIDE DEF p
  <2>8. p.turn[n] = z
    BY <2>5 DEF Goes
  <2> QED BY <2>1, <2>5, <2>6, <2>7, <2>8 DEF Working, Pcs, Owning
<1>6. CASE model = 0
  <2> DEFINE p == KeywordCheck(began, tt, c, n, r)
  <2>1. Process(ss, tt, c, m, n, parent) = p
    BY <1>6 DEF Process, began, r
  <2>2. /\ p.sess \in Sessions /\ p.sess[c].queue \in {began[c].queue, <<>>}
        /\ Goes(tt, p.turn, n, p.turn[n]) /\ Held(p.turn[n])
        /\ p.turn[n].pc \in {"keyword", "init"} /\ p.turn[n].msg = r.msg
        /\ p.turn[n].parent = r.parent
    BY <1>1, <1>3, KeywordCheckGoes
  <2> HIDE DEF p
  <2> QED BY <1>2, <1>3, <2>1, <2>2 DEF Working, Pcs, Owning
<1> QED BY <1>5, <1>6

-----------------------------------------------------------------------------
(* The invariant of all commands *)

UpdateForm(u) ==
  /\ u \in [kind : {"free", "create", "dir", "deescalate"}, msg : Msgs \cup {NoMsg},
            sess : Sids \cup {0}, keep : SessRec]
  /\ u.kind = "create" => u.msg \in Msgs
  /\ u.kind # "create" => u.msg = NoMsg
  /\ u.kind = "deescalate" => u.sess \in Sids

Forms ==
  /\ sess \in Sessions /\ turn \in Turns /\ \A t \in Tids : Held(turn[t])
  /\ chat \in Sids \cup {0} /\ timers \in Seq(Msgs) /\ unsent \subseteq Msgs
  /\ UpdateForm(update)

OnceInv ==
  /\ Forms
  /\ Once(turn, Waiting(sess, chat), timers, update.msg, unsent, Serves(sess, chat))

LEMMA GoesHeld ==
  ASSUME Forms, NEW uu, NEW t \in Tids, NEW r, Goes(turn, uu, t, r), Held(r)
  PROVE  uu \in Turns /\ \A u \in Tids : Held(uu[u])
<1>1. uu \in Turns /\ uu[t] = r
  BY DEF Goes
<1>2. ASSUME NEW u \in Tids \ {t} PROVE Held(uu[u])
  <2>1. /\ uu[u].pc = turn[u].pc /\ uu[u].sess = turn[u].sess /\ uu[u].msg = turn[u].msg
        /\ uu[u].fresh = turn[u].fresh
    BY DEF Goes
  <2>2. Held(turn[u]) /\ uu[u] \in TurnRec
    BY <1>1 DEF Forms, Turns
  <2> QED BY <2>1, <2>2 DEF Held
<1> QED BY <1>1, <1>2

\* The queue stays, or is emptied.
LEMMA FewerWait ==
  ASSUME OnceInv, NEW q2, q2 \in {Waiting(sess, chat), <<>>}, NEW tm2, Distinct(tm2),
         \A m \in Msgs : In(m, tm2) => In(m, timers),
         NEW x2 \in {update.msg, NoMsg}, NEW un2, un2 \subseteq unsent
  PROVE  Fewer(Waiting(sess, chat), timers, update.msg, unsent, q2, tm2, x2, un2)
<1>1. Distinct(Waiting(sess, chat))
  BY DEF OnceInv, Once, Apart
<1>2. Distinct(q2) /\ \A m \in Msgs : In(m, q2) => In(m, Waiting(sess, chat))
  BY <1>1, EmptyIs
<1> QED BY <1>2 DEF Fewer

LEMMA TimersAre ==
  ASSUME OnceInv
  PROVE  Distinct(timers) /\ Distinct(Waiting(sess, chat))
BY DEF OnceInv, Once, Apart

\* No turn goes on: the session changes, or the update.
LEMMA NobodyMoves ==
  ASSUME OnceInv, Quiet, sess' \in Sessions, turn' \in Turns, SameTurns(turn, turn'),
         chat' \in Sids \cup {0}, Waiting(sess', chat') \in {Waiting(sess, chat), <<>>},
         timers' = timers, unsent' \subseteq unsent, UpdateForm(update'),
         update'.msg \in {update.msg, NoMsg}
  PROVE  OnceInv'
<1>1. \A u \in Tids : /\ turn'[u].pc = turn[u].pc /\ turn'[u].sess = turn[u].sess
                      /\ turn'[u].msg = turn[u].msg /\ turn'[u].fresh = turn[u].fresh
                      /\ turn'[u].parent = turn[u].parent
  BY DEF SameTurns
<1>2. ASSUME NEW u \in Tids PROVE Held(turn'[u])
  <2>1. Held(turn[u]) /\ turn'[u] \in TurnRec
    BY DEF OnceInv, Forms, Turns
  <2> QED BY <1>1, <2>1 DEF Held
<1>3. Forms'
  BY <1>2 DEF OnceInv, Forms
<1>4. SameLine(turn, turn') /\ \A u \in Tids : turn[u].pc # "resumed" /\ turn'[u].pc # "resumed"
  BY <1>1 DEF SameLine, Quiet
<1>5. Fewer(Waiting(sess, chat), timers, update.msg, unsent,
            Waiting(sess', chat'), timers, update'.msg, unsent')
  <2>1. Distinct(timers)
    BY TimersAre
  <2> QED BY <2>1, FewerWait
<1>6. Once(turn', Waiting(sess', chat'), timers, update'.msg, unsent', Serves(sess', chat'))
  BY <1>4, <1>5, OnceStays DEF OnceInv
<1> QED BY <1>3, <1>6 DEF OnceInv

\* One turn goes on with its message.
LEMMA OneMoves ==
  ASSUME OnceInv, Quiet, NEW t \in Tids, turn[t].pc \in Working,
         sess' \in Sessions, NEW r, Goes(turn, turn', t, r), Held(r), r.pc \in Working,
         r.msg = turn[t].msg, r.parent = turn[t].parent,
         Waiting(sess', chat) \in {Waiting(sess, chat), <<>>},
         UNCHANGED <<chat, timers, update, unsent>>
  PROVE  OnceInv'
<1>1. turn' \in Turns /\ \A u \in Tids : Held(turn'[u])
  BY GoesHeld DEF OnceInv
<1>2. Forms'
  BY <1>1 DEF OnceInv, Forms
<1>3. SameLine(turn, turn') /\ \A u \in Tids : turn[u].pc # "resumed" /\ turn'[u].pc # "resumed"
  <2>1. turn'[t] = r /\ \A u \in Tids \ {t} : /\ turn'[u].pc = turn[u].pc
                                              /\ turn'[u].msg = turn[u].msg
                                              /\ turn'[u].parent = turn[u].parent
    BY DEF Goes
  <2>2. r.pc \notin {"free", "nested", "resumed"} /\ turn[t].pc \notin {"free", "nested"}
    BY DEF Working
  <2>3. ASSUME NEW u \in Tids
        PROVE  /\ turn'[u].msg = turn[u].msg /\ turn'[u].parent = turn[u].parent
               /\ (turn'[u].pc = "free") = (turn[u].pc = "free")
               /\ (turn'[u].pc = "nested") = (turn[u].pc = "nested")
               /\ turn[u].pc # "resumed" /\ turn'[u].pc # "resumed"
    <3>1. CASE u = t
      BY <2>1, <2>2, <3>1 DEF Quiet
    <3>2. CASE u # t
      BY <2>1, <3>2 DEF Quiet
    <3> QED BY <3>1, <3>2
  <2> QED BY <2>3 DEF SameLine
<1>4. Fewer(Waiting(sess, chat), timers, update.msg, unsent,
            Waiting(sess', chat), timers, update.msg, unsent)
  <2>1. Distinct(timers)
    BY TimersAre
  <2> QED BY <2>1, FewerWait
<1>5. Once(turn', Waiting(sess', chat), timers, update.msg, unsent, Serves(sess', chat))
  BY <1>3, <1>4, OnceStays DEF OnceInv
<1> QED BY <1>2, <1>5 DEF OnceInv

\* A message gets a turn, or is refused one.
LEMMA OneBegins ==
  ASSUME OnceInv, Quiet, NEW ss \in Sessions, NEW c \in Sids, NEW m \in Msgs, FreeTids # {},
         ss[c].queue \in {Waiting(sess, chat), <<>>},
         Run(Process(ss, turn, c, m, Pick(FreeTids), 0)), chat' = c,
         timers' \in Seq(Msgs), unsent' \subseteq unsent, UpdateForm(update'),
         update'.msg \in {update.msg, NoMsg},
         Distinct(timers'), \A u \in Msgs : In(u, timers') => In(u, timers),
         ~In(m, ss[c].queue), ~In(m, timers'), m # update'.msg, m \notin unsent',
         \A u \in Tids : turn[u].pc # "free" => turn[u].msg # m
  PROVE  OnceInv'
<1> DEFINE n == Pick(FreeTids)
           p == Process(ss, turn, c, m, n, 0)
<1>1. n \in Tids /\ turn[n].pc = "free" /\ turn \in Turns
  BY Picks DEF OnceInv, Forms
<1>2. c # 0
  BY BotAssumption
<1>3. sess' = p.sess /\ turn' = p.turn
  BY DEF Run
<1> HIDE DEF n
<1>4. CASE CanBegin(ss, c)
  <2>1. /\ p.sess \in Sessions /\ p.sess[c].queue \in {ss[c].queue, <<>>}
        /\ Goes(turn, p.turn, n, p.turn[n]) /\ Held(p.turn[n])
        /\ p.turn[n].pc \in Working /\ p.turn[n].msg = m /\ p.turn[n].parent = 0
    BY <1>1, <1>4, ProcessGoes
  <2> HIDE DEF p
  <2>2. turn' \in Turns /\ \A u \in Tids : Held(turn'[u])
    BY <1>1, <1>3, <2>1, GoesHeld DEF OnceInv
  <2>3. Forms'
    BY <1>3, <2>1, <2>2 DEF OnceInv, Forms
  <2>4. Waiting(sess', chat') \in {Waiting(sess, chat), <<>>} /\ ~In(m, Waiting(sess', chat'))
    BY <1>2, <1>3, <2>1, EmptyIs DEF Waiting
  <2>5. Fewer(Waiting(sess, chat), timers, update.msg, unsent,
              Waiting(sess', chat'), timers', update'.msg, unsent')
    BY <2>4, FewerWait
  <2>6. /\ turn'[n].msg = m /\ turn'[n].parent = 0
        /\ turn'[n].pc \notin {"free", "nested", "resumed"}
    BY <1>3, <2>1 DEF Working
  <2>7. \A u \in Tids \ {n} : /\ turn'[u].msg = turn[u].msg
                              /\ turn'[u].parent = turn[u].parent /\ turn'[u].pc = turn[u].pc
    BY <1>3, <2>1 DEF Goes
  <2>8. \A u \in Tids : turn[u].pc # "resumed"
    BY DEF Quiet
  <2>9. Once(turn', Waiting(sess', chat'), timers', update'.msg, unsent', Serves(sess', chat'))
    BY <1>1, <2>4, <2>5, <2>6, <2>7, <2>8, OnceStarts DEF OnceInv
  <2> QED BY <2>3, <2>9 DEF OnceInv
<1>5. CASE ~CanBegin(ss, c)
  <2>1. sess' = ss /\ turn' = turn
    BY <1>3, <1>5 DEF Process
  <2>2. Forms'
    BY <2>1 DEF OnceInv, Forms
  <2>3. Waiting(sess', chat') \in {Waiting(sess, chat), <<>>}
    BY <1>2, <2>1 DEF Waiting
  <2>4. Fewer(Waiting(sess, chat), timers, update.msg, unsent,
              Waiting(sess', chat'), timers', update'.msg, unsent')
    BY <2>3, FewerWait
  <2>5. SameLine(turn, turn') /\ \A u \in Tids : turn[u].pc # "resumed" /\ turn'[u].pc # "resumed"
    BY <2>1 DEF SameLine, Quiet
  <2>6. Once(turn', Waiting(sess', chat'), timers', update'.msg, unsent', Serves(sess', chat'))
    BY <2>4, <2>5, OnceStays DEF OnceInv
  <2> QED BY <2>2, <2>6 DEF OnceInv
<1> QED BY <1>4, <1>5

\* A turn ends.
LEMMA OneEnds ==
  ASSUME OnceInv, NEW t \in Tids, turn[t].pc \notin {"free", "nested"},
         \A u \in Tids \ {t} : turn[u].pc # "resumed", turn' = Ended(turn, t),
         sess' \in Sessions, timers' \in Seq(Msgs), UNCHANGED <<chat, update, unsent>>,
         Apart(Waiting(sess', chat), timers', update.msg, unsent),
         \A m \in Msgs : In(m, Waiting(sess', chat)) \/ In(m, timers') =>
           In(m, Waiting(sess, chat)) \/ In(m, timers) \/ m = turn[t].msg,
         In(turn[t].msg, timers') => Serves(sess', chat)
  PROVE  OnceInv'
<1>1. PICK d \in [Tids -> Nat] : Ranked(turn, d)
  BY DEF OnceInv, Once, InLine
<1>2. turn[t].parent # 0 => turn[turn[t].parent].pc = "nested"
  BY <1>1 DEF Ranked
<1>3. 0 \notin Tids
  BY BotAssumption
<1>4. ASSUME NEW u \in Tids
      PROVE  /\ Held(turn'[u])
             /\ u = t => turn'[u].pc = "free"
             /\ u # t => /\ turn'[u].msg = turn[u].msg /\ turn'[u].parent = turn[u].parent
                         /\ turn'[u].pc = IF turn[t].parent = u THEN "resumed" ELSE turn[u].pc
  <2>1. turn[u] \in TurnRec /\ Held(turn[u])
    BY DEF OnceInv, Forms, Turns
  <2>2. CASE u = t
    <3>1. turn'[u] = NoTurn
      BY <2>2 DEF Ended
    <3> QED BY <2>2, <3>1, NoTurnTyped DEF Held, Recreating
  <2>3. CASE u # t /\ turn[t].parent = u
    <3> DEFINE r == [turn[u] EXCEPT !.pc = "resumed"]
    <3>1. turn'[u] = r
      BY <2>3 DEF Ended
    <3>2. /\ r \in TurnRec /\ r.pc = "resumed" /\ r.sess = turn[u].sess
          /\ r.msg = turn[u].msg /\ r.parent = turn[u].parent
      BY <2>1 DEF TurnRec, Pcs
    <3> HIDE DEF r
    <3>3. turn[u].pc = "nested"
      BY <1>2, <1>3, <2>3
    <3>4. Held(r)
      BY <2>1, <3>2, <3>3 DEF Held, Recreating
    <3> QED BY <2>3, <3>1, <3>2, <3>4
  <2>4. CASE u # t /\ turn[t].parent # u
    <3>1. turn'[u] = turn[u]
      BY <2>4 DEF Ended
    <3> QED BY <2>1, <2>4, <3>1
  <2> QED BY <2>2, <2>3, <2>4
<1>5. turn' \in Turns
  <2>1. turn' = [u \in Tids |-> turn'[u]]
    BY DEF Ended
  <2> QED BY <1>4, <2>1 DEF Turns, Held
<1>6. Forms'
  BY <1>4, <1>5 DEF OnceInv, Forms
<1>7. Once(turn', Waiting(sess', chat), timers', update.msg, unsent, Serves(sess', chat))
  <2>1. turn'[t].pc = "free"
    BY <1>4
  <2>2. \A u \in Tids \ {t} :
          /\ turn'[u].msg = turn[u].msg /\ turn'[u].parent = turn[u].parent
          /\ turn'[u].pc = IF turn[t].parent = u THEN "resumed" ELSE turn[u].pc
    BY <1>4
  <2>3. Once(turn, Waiting(sess, chat), timers, update.msg, unsent, Serves(sess, chat))
    BY DEF OnceInv
  <2> QED BY <1>3, <2>1, <2>2, <2>3, OnceEnds
<1> QED BY <1>6, <1>7 DEF OnceInv

\* The head of the queue gets its timer, or is dropped.
LEMMA ServeGoes ==
  ASSUME OnceInv, NEW ss \in Sessions, Waiting(ss, chat) \in {Waiting(sess, chat), <<>>},
         NEW current, ServeQueue(ss, current)
  PROVE  /\ sess' \in Sessions /\ timers' \in Seq(Msgs)
         /\ Apart(Waiting(sess', chat), timers', update.msg, unsent)
         /\ \A m \in Msgs : In(m, Waiting(sess', chat)) \/ In(m, timers') =>
              In(m, Waiting(sess, chat)) \/ In(m, timers)
         /\ chat # 0 => sess'[chat].model = ss[chat].model
<1>1. /\ chat \in Sids \cup {0} /\ timers \in Seq(Msgs) /\ update.msg \in Msgs \cup {NoMsg}
      /\ Apart(Waiting(sess, chat), timers, update.msg, unsent)
  BY DEF OnceInv, Forms, Once, UpdateForm
<1>2. Fewer(Waiting(sess, chat), timers, update.msg, unsent,
            Waiting(ss, chat), timers, update.msg, unsent)
  <2>1. Distinct(timers)
    BY TimersAre
  <2> QED BY <2>1, FewerWait
<1>3. Apart(Waiting(ss, chat), timers, update.msg, unsent)
  BY <1>1, <1>2, FewerApart
<1>4. \A m \in Msgs : In(m, Waiting(ss, chat)) => In(m, Waiting(sess, chat))
  BY <1>2 DEF Fewer
<1>5. CASE ~(chat # 0 /\ ss[chat].queue # <<>>)
  <2>1. sess' = ss /\ timers' = timers
    BY <1>5 DEF ServeQueue
  <2> QED BY <1>1, <1>3, <1>4, <2>1
<1>6. CASE chat # 0 /\ ss[chat].queue # <<>>
  <2> DEFINE s == ss[chat].queue
             r == [ss[chat] EXCEPT !.queue = Tail(@)]
  <2>1. chat \in Sids /\ ss[chat] \in SessRec /\ s \in Seq(Msgs) /\ Waiting(ss, chat) = s
    BY <1>1, <1>6 DEF Sessions, SessRec, Waiting
  <2>2. Distinct(s) /\ Distinct(timers)
    BY <1>3, <2>1 DEF Apart
  <2>3. /\ Tail(s) \in Seq(Msgs) /\ Head(s) \in Msgs /\ In(Head(s), s)
        /\ Distinct(Tail(s)) /\ ~In(Head(s), Tail(s)) /\ \A m : In(m, Tail(s)) => In(m, s)
    BY <1>6, <2>1, <2>2, TailIs
  <2>4. sess' = [ss EXCEPT ![chat] = r]
    BY <1>6 DEF ServeQueue, Sessions
  <2>5. r \in SessRec /\ r.queue = Tail(s) /\ r.model = ss[chat].model
    BY <2>1, <2>3 DEF SessRec
  <2> HIDE DEF r
  <2>6. sess' \in Sessions /\ sess'[chat] = r
    BY <2>1, <2>4, <2>5 DEF Sessions
  <2>7. Waiting(sess', chat) = Tail(s)
    BY <1>6, <2>5, <2>6 DEF Waiting
  <2>8. /\ In(Head(s), s) /\ ~In(Head(s), timers) /\ Head(s) # update.msg
        /\ Head(s) \notin unsent
    BY <1>3, <2>1, <2>3 DEF Apart
  <2>9. /\ Append(timers, Head(s)) \in Seq(Msgs) /\ Distinct(Append(timers, Head(s)))
        /\ \A u : In(u, Append(timers, Head(s))) => In(u, timers) \/ u = Head(s)
    BY <1>1, <2>2, <2>3, <2>8, AppendIs
  <2>10. timers' = timers \/ timers' = Append(timers, Head(s))
    BY <1>6 DEF ServeQueue
  <2>11. /\ timers' \in Seq(Msgs) /\ Distinct(timers')
         /\ \A u : In(u, timers') => In(u, timers) \/ u = Head(s)
    BY <1>1, <2>2, <2>9, <2>10
  <2> HIDE DEF s
  <2>12. Apart(Tail(s), timers', update.msg, unsent)
    <3>1. ASSUME NEW m \in Msgs
          PROVE  /\ In(m, Tail(s)) => ~In(m, timers')
                 /\ In(m, Tail(s)) \/ In(m, timers') => m # update.msg /\ m \notin unsent
                 /\ m = update.msg => m \notin unsent
      <4>1. /\ In(m, s) => ~In(m, timers)
            /\ In(m, s) \/ In(m, timers) => m # update.msg /\ m \notin unsent
            /\ m = update.msg => m \notin unsent
        BY <1>3, <2>1 DEF Apart
      <4>2. In(m, timers') => In(m, timers) \/ m = Head(s)
        BY <2>11
      <4>3. In(m, Tail(s)) => In(m, s) /\ m # Head(s)
        BY <2>3
      <4> QED BY <2>8, <4>1, <4>2, <4>3
    <3> QED BY <2>3, <2>11, <3>1 DEF Apart
  <2>13. ASSUME NEW m \in Msgs, In(m, Tail(s)) \/ In(m, timers')
         PROVE  In(m, Waiting(sess, chat)) \/ In(m, timers)
    <3>1. In(m, s) \/ In(m, timers)
      BY <2>3, <2>8, <2>11, <2>13
    <3> QED BY <1>4, <2>1, <3>1
  <2>14. sess'[chat].model = ss[chat].model
    BY <2>5, <2>6
  <2> QED BY <2>6, <2>7, <2>11, <2>12, <2>13, <2>14
<1> QED BY <1>5, <1>6

-----------------------------------------------------------------------------
(* Its steps *)

\* One field of a session that is not its queue.
LEMMA QueueStands ==
  ASSUME Forms, NEW s \in Sids, NEW r \in SessRec,
         r.queue = sess[s].queue \/ r.queue = <<>>,
         sess' = [sess EXCEPT ![s] = r]
  PROVE  sess' \in Sessions /\ Waiting(sess', chat) \in {Waiting(sess, chat), <<>>}
<1>1. sess \in Sessions
  BY DEF Forms
<1>2. sess' \in Sessions /\ sess'[s] = r /\ \A q \in Sids \ {s} : sess'[q] = sess[q]
  BY <1>1 DEF Sessions
<1>3. CASE chat = 0
  BY <1>2, <1>3 DEF Waiting
<1>4. CASE chat # 0
  <2>1. chat \in Sids
    BY <1>4 DEF Forms
  <2>2. sess'[chat].queue \in {sess[chat].queue, <<>>}
    BY <1>2, <2>1
  <2> QED BY <1>2, <1>4, <2>2 DEF Waiting
<1> QED BY <1>3, <1>4

\* lastProgressAt is set, or becomes old.
LEMMA StaleStands ==
  ASSUME Forms, NEW s \in Sids \cup {0}, NEW b \in BOOLEAN,
         sess' = [sess EXCEPT ![s].stale = b]
  PROVE  sess' \in Sessions /\ Waiting(sess', chat) \in {Waiting(sess, chat), <<>>}
<1>1. sess \in Sessions
  BY DEF Forms
<1>2. CASE s \in Sids
  <2> DEFINE r == [sess[s] EXCEPT !.stale = b]
  <2>1. sess' = [sess EXCEPT ![s] = r]
    BY <1>1 DEF Sessions
  <2>2. sess[s] \in SessRec
    BY <1>1, <1>2 DEF Sessions
  <2>3. r \in SessRec /\ r.queue = sess[s].queue
    BY <2>2 DEF SessRec
  <2> HIDE DEF r
  <2> QED BY <1>2, <2>1, <2>3, QueueStands
<1>3. CASE s \notin Sids
  <2>1. sess' = sess
    BY <1>1, <1>3 DEF Sessions
  <2> QED BY <1>1, <2>1
<1> QED BY <1>2, <1>3

LEMMA SessionKeeps ==
  ASSUME OnceInv, Quiet, sess' \in Sessions, turn' \in Turns, SameTurns(turn, turn'),
         Waiting(sess', chat) \in {Waiting(sess, chat), <<>>},
         UNCHANGED <<chat, timers, update, unsent>>
  PROVE  OnceInv'
<1>1. UpdateForm(update') /\ update'.msg \in {update.msg, NoMsg} /\ chat' \in Sids \cup {0}
  BY DEF OnceInv, Forms
<1>2. Waiting(sess', chat') \in {Waiting(sess, chat), <<>>}
  OBVIOUS
<1>3. timers' = timers /\ unsent' \subseteq unsent
  OBVIOUS
<1> QED BY <1>1, <1>2, <1>3, NobodyMoves

\* The session is cancelled, or its requests are told to abort.
LEMMA TurnsHear ==
  ASSUME Forms, NEW s \in Sids
  PROVE  /\ Abort(sess, turn, s) \in Turns /\ SameTurns(turn, Abort(sess, turn, s))
         /\ CancelledTurns(sess, turn, s) \in Turns
         /\ SameTurns(turn, CancelledTurns(sess, turn, s))
         /\ Signalled(turn, sess[s].ctrl) \in Turns
         /\ SameTurns(turn, Signalled(turn, sess[s].ctrl))
<1>1. sess \in Sessions /\ turn \in Turns
  BY DEF Forms
<1>2. /\ Abort(sess, turn, s) \in Turns /\ SameTurns(turn, Abort(sess, turn, s))
      /\ Signalled(turn, sess[s].ctrl) \in Turns
      /\ SameTurns(turn, Signalled(turn, sess[s].ctrl))
  BY <1>1, AbortIs
<1> QED BY <1>1, <1>2, SameSame DEF CancelledTurns

LEMMA CancelOnce ==
  ASSUME OnceInv, Quiet, chat # 0, sess' = CancelledSession(sess, chat),
         turn' = CancelledTurns(sess, turn, chat),
         UNCHANGED <<chat, timers, update, unsent>>
  PROVE  OnceInv'
<1> DEFINE r == [sess[chat] EXCEPT !.queue = <<>>,
                   !.state = IF sess[chat].inFlight THEN "canceling" ELSE @]
<1>1. Forms /\ sess \in Sessions /\ chat \in Sids /\ sess[chat] \in SessRec
  BY DEF OnceInv, Forms, Sessions
<1>2. sess' = [sess EXCEPT ![chat] = r]
  BY <1>1 DEF CancelledSession, Sessions
<1>3. r \in SessRec /\ r.queue = <<>>
  <2>1. <<>> \in Seq(Msgs)
    OBVIOUS
  <2> QED BY <1>1, <2>1 DEF SessRec
<1> HIDE DEF r
<1>4. sess' \in Sessions /\ Waiting(sess', chat) \in {Waiting(sess, chat), <<>>}
  BY <1>1, <1>2, <1>3, QueueStands
<1>5. turn' \in Turns /\ SameTurns(turn, turn')
  BY <1>1, TurnsHear
<1> QED BY <1>4, <1>5, SessionKeeps

\* Sessions that are destroyed have no queue any more.
LEMMA DestroyOnce ==
  ASSUME OnceInv, Quiet, Destroy, timers' = timers, unsent' = unsent, UpdateForm(update'),
         update'.msg = update.msg \/ update'.msg = NoMsg
  PROVE  OnceInv'
<1> DEFINE r == [sess[chat] EXCEPT !.state = "resetting", !.queue = <<>>]
<1>1. Forms /\ sess \in Sessions /\ chat \in Sids /\ sess[chat] \in SessRec
  BY DEF OnceInv, Forms, Sessions, Destroy
<1>2. sess' = [sess EXCEPT ![chat] = r]
  BY <1>1 DEF Destroy, Destroyed, Sessions
<1>3. r \in SessRec /\ r.queue = <<>>
  <2>1. <<>> \in Seq(Msgs)
    OBVIOUS
  <2> QED BY <1>1, <2>1 DEF SessRec
<1> HIDE DEF r
<1>4. sess' \in Sessions
  BY <1>1, <1>2, <1>3 DEF Sessions
<1>5. turn' \in Turns /\ SameTurns(turn, turn')
  BY <1>1, TurnsHear DEF Destroy
<1>6. chat' = 0 /\ Waiting(sess', chat') = <<>>
  BY DEF Destroy, Waiting
<1> QED BY <1>4, <1>5, <1>6, NobodyMoves

LEMMA MessageOnce ==
  ASSUME OnceInv, NEW m \in Msgs, Message(m)
  PROVE  OnceInv'
<1>1. /\ Forms /\ sess \in Sessions /\ chat # 0 /\ chat \in Sids /\ sess[chat] \in SessRec
      /\ Quiet /\ m \in unsent /\ unsent' = unsent \ {m}
      /\ UNCHANGED <<chat, timers, update>> /\ turn \in Turns
      /\ UpdateForm(update) /\ timers \in Seq(Msgs) /\ unsent \subseteq Msgs
  BY DEF OnceInv, Forms, Message, UpdateFree, Sessions
<1>2. Waiting(sess, chat) = sess[chat].queue
  BY <1>1 DEF Waiting
<1>3. /\ ~In(m, sess[chat].queue) /\ ~In(m, timers) /\ m # update.msg
      /\ \A u \in Tids : turn[u].pc # "free" => turn[u].msg # m
      /\ Distinct(timers) /\ Distinct(sess[chat].queue)
  BY <1>1, <1>2 DEF OnceInv, Once, Apart, Alone
<1>4. CASE turn' = turn /\ sess' = sess
  <2>1. SameTurns(turn, turn')
    BY <1>4, SameSame
  <2>2. Waiting(sess', chat') \in {Waiting(sess, chat), <<>>}
    BY <1>1, <1>4
  <2> QED BY <1>1, <1>4, <2>1, <2>2, NobodyMoves
<1>5. CASE turn' = turn /\ sess' = [sess EXCEPT ![chat].queue = Append(@, m)]
  <2> DEFINE s == sess[chat].queue
             r == [sess[chat] EXCEPT !.queue = Append(@, m)]
  <2>1. sess' = [sess EXCEPT ![chat] = r]
    BY <1>1, <1>5 DEF Sessions
  <2>2. s \in Seq(Msgs)
    BY <1>1 DEF SessRec
  <2>3. /\ Append(s, m) \in Seq(Msgs) /\ Distinct(Append(s, m))
        /\ \A u : In(u, Append(s, m)) => In(u, s) \/ u = m
    BY <1>3, <2>2, AppendIs
  <2>4. r \in SessRec /\ r.queue = Append(s, m)
    BY <1>1, <2>3 DEF SessRec
  <2> HIDE DEF r
  <2>5. sess' \in Sessions /\ sess'[chat] = r
    BY <1>1, <2>1, <2>4 DEF Sessions
  <2>6. Waiting(sess', chat') = Append(s, m)
    BY <1>1, <2>4, <2>5 DEF Waiting
  <2> HIDE DEF s
  <2>7. Forms'
    BY <1>1, <1>5, <2>5 DEF Forms
  <2>8. Apart(Append(s, m), timers, update.msg, unsent \ {m})
    <3>1. Apart(s, timers, update.msg, unsent)
      BY <1>2 DEF OnceInv, Once, s
    <3> QED BY <1>3, <2>3, <3>1 DEF Apart
  <2>9. InLine(turn)
    BY DEF OnceInv, Once
  <2>10. Alone(turn, Append(s, m), timers, update.msg, unsent \ {m}, Serves(sess', chat'))
    <3>1. ASSUME NEW t \in Tids, turn[t].pc # "free"
          PROVE  /\ turn[t].msg \in Msgs /\ turn[t].msg \notin unsent
                 /\ turn[t].msg # update.msg /\ turn[t].pc # "resumed"
                 /\ ~In(turn[t].msg, s) /\ ~In(turn[t].msg, timers)
      BY <1>1, <1>2, <3>1 DEF OnceInv, Once, Alone, Quiet, s
    <3> QED BY <1>3, <2>3, <3>1 DEF Alone
  <2>11. Once(turn', Waiting(sess', chat'), timers', update'.msg, unsent', Serves(sess', chat'))
    BY <1>1, <1>5, <2>6, <2>8, <2>9, <2>10 DEF Once
  <2> QED BY <2>7, <2>11 DEF OnceInv
<1>6. CASE FreeTids # {} /\ Run(Process(sess, turn, chat, m, Pick(FreeTids), 0))
  <2>1. UpdateForm(update') /\ update'.msg \in {update.msg, NoMsg} /\ timers' \in Seq(Msgs)
    BY <1>1
  <2>2. /\ unsent' \subseteq unsent /\ m \notin unsent' /\ m # update'.msg
        /\ Distinct(timers') /\ ~In(m, timers')
        /\ \A u \in Msgs : In(u, timers') => In(u, timers)
    BY <1>1, <1>3
  <2> QED BY <1>1, <1>2, <1>3, <1>6, <2>1, <2>2, OneBegins
<1> QED BY <1>4, <1>5, <1>6 DEF Message

LEMMA FirstMessageOnce ==
  ASSUME OnceInv, NEW m \in Msgs, FirstMessage(m)
  PROVE  OnceInv'
<1>1. /\ Quiet /\ m \in unsent /\ unsent' = unsent \ {m} /\ chat = 0
      /\ update' = [NoUpdate EXCEPT !.kind = "create", !.msg = m]
      /\ UNCHANGED <<chat, sess, turn, timers>> /\ Forms /\ update.kind = "free"
  BY DEF OnceInv, FirstMessage, UpdateFree
<1>2. UpdateForm(update') /\ update'.msg = m
  <2>1. NoSession \in SessRec
    <3>1. NewSession(0) \in SessRec
      BY NewSessionTyped
    <3> QED BY <3>1 DEF NoSession, SessRec
  <2> QED BY <1>1, <2>1 DEF NoUpdate, UpdateForm
<1>3. Forms'
  BY <1>1, <1>2 DEF Forms
<1>4. /\ Apart(<<>>, timers, update.msg, unsent) /\ InLine(turn)
      /\ Alone(turn, <<>>, timers, update.msg, unsent, Serves(sess, chat))
  BY <1>1 DEF OnceInv, Once, Waiting
<1>5. Apart(<<>>, timers, m, unsent \ {m})
  BY <1>1, <1>4 DEF Apart
<1>6. Alone(turn, <<>>, timers, m, unsent \ {m}, Serves(sess, chat))
  <2>1. ASSUME NEW t \in Tids, turn[t].pc # "free"
        PROVE  /\ turn[t].msg \in Msgs /\ turn[t].msg \notin unsent
               /\ turn[t].pc # "resumed"
               /\ ~In(turn[t].msg, <<>>) /\ ~In(turn[t].msg, timers)
    BY <1>1, <1>4, <2>1 DEF Alone, Quiet
  <2> QED BY <1>1, <2>1 DEF Alone
<1>7. Once(turn', Waiting(sess', chat'), timers', update'.msg, unsent', Serves(sess', chat'))
  BY <1>1, <1>2, <1>4, <1>5, <1>6 DEF Once, Waiting
<1> QED BY <1>3, <1>7 DEF OnceInv

LEMMA UserOnce ==
  ASSUME OnceInv, UserStep
  PROVE  OnceInv'
<1>1. /\ Forms /\ sess \in Sessions /\ turn \in Turns /\ chat \in Sids \cup {0}
      /\ UpdateForm(update) /\ NoSession \in SessRec
  <2>1. NoSession \in SessRec
    <3>1. NewSession(0) \in SessRec
      BY NewSessionTyped
    <3> QED BY <3>1 DEF NoSession, SessRec
  <2> QED BY <2>1 DEF OnceInv, Forms
<1>2. ASSUME NEW m \in Msgs, Message(m) \/ FirstMessage(m) PROVE OnceInv'
  BY <1>2, MessageOnce, FirstMessageOnce
<1>3. CASE Cancel
  BY <1>3, CancelOnce DEF Cancel, UpdateFree
<1>4. CASE New
  BY <1>1, <1>4, DestroyOnce DEF New, Replace, UpdateFree
<1>5. CASE Dir
  <2>1. chat \in Sids /\ sess[chat] \in SessRec
    BY <1>1, <1>5 DEF Dir, Destroy, Sessions
  <2>2. UpdateForm(update') /\ update'.msg = NoMsg
    BY <1>1, <1>5, <2>1 DEF Dir, NoUpdate, UpdateForm
  <2> QED BY <1>5, <2>2, DestroyOnce DEF Dir, Replace, UpdateFree
<1>6. CASE Deescalate
  <2> DEFINE r == [sess[chat] EXCEPT !.pendingEsc = 0, !.model = 0, !.state = "resetting",
                                     !.queue = <<>>]
  <2>1. /\ chat \in Sids /\ sess[chat] \in SessRec /\ Quiet
        /\ UNCHANGED <<chat, timers, unsent>> /\ turn' = Abort(sess, turn, chat)
        /\ update' = [NoUpdate EXCEPT !.kind = "deescalate", !.sess = chat]
    BY <1>1, <1>6 DEF Deescalate, Sessions, Replace, UpdateFree
  <2>2. sess' = [sess EXCEPT ![chat] = r]
    BY <1>1, <1>6, <2>1 DEF Deescalate, RecreateStart, Sessions
  <2>3. r \in SessRec /\ r.queue = <<>>
    <3>1. <<>> \in Seq(Msgs) /\ 0 \in 0..NModels
      BY BotAssumption
    <3> QED BY <2>1, <3>1 DEF SessRec
  <2> HIDE DEF r
  <2>4. sess' \in Sessions /\ Waiting(sess', chat) \in {Waiting(sess, chat), <<>>}
    BY <1>1, <2>1, <2>2, <2>3, QueueStands
  <2>5. turn' \in Turns /\ SameTurns(turn, turn')
    BY <1>1, <2>1, TurnsHear
  <2>6. UpdateForm(update') /\ update'.msg = NoMsg
    BY <1>1, <2>1 DEF NoUpdate, UpdateForm
  <2>7. Waiting(sess', chat') \in {Waiting(sess, chat), <<>>}
    BY <2>1, <2>4
  <2> QED BY <2>1, <2>4, <2>5, <2>6, <2>7, NobodyMoves
<1>7. ASSUME NEW k \in 1..NModels, Escalate(k) PROVE OnceInv'
  <2> DEFINE r == [sess[chat] EXCEPT !.pendingEsc = k]
  <2>1. /\ chat \in Sids /\ sess[chat] \in SessRec /\ Quiet /\ k \in 0..NModels
        /\ UNCHANGED <<chat, turn, timers, update, unsent>>
    BY <1>1, <1>7, BotAssumption DEF Escalate, Sessions, UpdateFree
  <2>2. sess' = [sess EXCEPT ![chat] = r]
    BY <1>1, <1>7 DEF Escalate, Sessions
  <2>3. r \in SessRec /\ r.queue = sess[chat].queue
    BY <2>1 DEF SessRec
  <2> HIDE DEF r
  <2>4. sess' \in Sessions /\ Waiting(sess', chat) \in {Waiting(sess, chat), <<>>}
    BY <1>1, <2>1, <2>2, <2>3, QueueStands
  <2>5. turn' \in Turns /\ SameTurns(turn, turn')
    BY <1>1, <2>1, SameSame
  <2> QED BY <2>1, <2>4, <2>5, SessionKeeps
<1> QED BY <1>2, <1>3, <1>4, <1>5, <1>6, <1>7 DEF UserStep

LEMMA CreateOnce ==
  ASSUME OnceInv, CreateDone
  PROVE  OnceInv'
<1> DEFINE c  == Pick(FreeSids)
           a  == Pick(FreeAgents)
           ss == [sess EXCEPT ![c] = NewSession(a)]
           m  == update.msg
<1>1. /\ Forms /\ sess \in Sessions /\ turn \in Turns /\ Quiet /\ UpdateForm(update)
      /\ c \in Sids /\ a \in Agents /\ FreeTids # {} /\ chat' = c /\ update' = NoUpdate
      /\ UNCHANGED <<timers, unsent>> /\ timers \in Seq(Msgs)
      /\ update.kind = "create" /\ m \in Msgs
  BY Picks DEF OnceInv, Forms, CreateDone, UpdateForm
<1>2. NewSession(a) \in SessRec /\ NewSession(a).queue = <<>>
  BY <1>1, NewSessionTyped DEF NewSession
<1>3. Run(Process(ss, turn, c, m, Pick(FreeTids), 0))
  BY <1>1 DEF CreateDone
<1>4. ss \in Sessions /\ ss[c].queue = <<>>
  <2> HIDE DEF c, a
  <2>1. ss[c] = NewSession(a) /\ ss \in Sessions
    BY <1>1, <1>2 DEF Sessions
  <2> QED BY <1>2, <2>1
<1>5. UpdateForm(update') /\ update'.msg = NoMsg
  <2>1. NoSession \in SessRec
    <3>1. NewSession(0) \in SessRec
      BY NewSessionTyped
    <3> QED BY <3>1 DEF NoSession, SessRec
  <2> QED BY <1>1, <2>1 DEF NoUpdate, UpdateForm
<1>6. /\ ~In(m, timers) /\ m \notin unsent /\ Distinct(timers)
      /\ \A u \in Tids : turn[u].pc # "free" => turn[u].msg # m
  BY <1>1 DEF OnceInv, Once, Apart, Alone
<1>7. m # update'.msg /\ ~In(m, ss[c].queue)
  BY <1>1, <1>4, <1>5, EmptyIs, BotAssumption
<1>8. /\ timers' \in Seq(Msgs) /\ unsent' \subseteq unsent /\ Distinct(timers')
      /\ ~In(m, timers') /\ m \notin unsent' /\ update'.msg \in {update.msg, NoMsg}
      /\ \A u \in Msgs : In(u, timers') => In(u, timers)
  BY <1>1, <1>5, <1>6
<1> HIDE DEF c, a, ss, m
<1> QED BY <1>1, <1>3, <1>4, <1>5, <1>6, <1>7, <1>8, OneBegins

LEMMA HandlerOnce ==
  ASSUME OnceInv, HandlerStep
  PROVE  OnceInv'
<1>1. /\ Forms /\ sess \in Sessions /\ turn \in Turns /\ chat \in Sids \cup {0}
      /\ UpdateForm(update)
  BY DEF OnceInv, Forms
<1>2. UpdateForm(NoUpdate) /\ NoUpdate.msg = NoMsg
  <2>1. NoSession \in SessRec
    <3>1. NewSession(0) \in SessRec
      BY NewSessionTyped
    <3> QED BY <3>1 DEF NoSession, SessRec
  <2> QED BY <2>1 DEF NoUpdate, UpdateForm
<1>3. CASE CreateDone
  BY <1>3, CreateOnce
<1>4. CASE UpdateFails
  <2>1. /\ Quiet /\ update' = NoUpdate /\ sess' = sess /\ turn' = turn /\ chat' = chat
        /\ timers' = timers /\ unsent' \subseteq unsent
    BY <1>4 DEF UpdateFails
  <2>2. SameTurns(turn, turn') /\ Waiting(sess', chat') \in {Waiting(sess, chat), <<>>}
    BY <2>1, SameSame
  <2> QED BY <1>1, <1>2, <2>1, <2>2, NobodyMoves
<1>5. CASE DirDone
  <2> DEFINE c == Pick(FreeSids)
             a == Pick(FreeAgents)
             r == [NewSession(a) EXCEPT !.model = update.keep.model,
                     !.escCount = update.keep.escCount, !.pendingEsc = update.keep.pendingEsc]
  <2>1. /\ Quiet /\ c \in Sids /\ a \in Agents /\ chat' = c /\ update' = NoUpdate
        /\ UNCHANGED <<turn, timers, unsent>> /\ sess' = [sess EXCEPT ![c] = r]
    BY <1>5, Picks DEF DirDone
  <2>2. NewSession(a) \in SessRec /\ NewSession(a).queue = <<>> /\ update.keep \in SessRec
    BY <1>1, <2>1, NewSessionTyped DEF NewSession, UpdateForm
  <2>3. r \in SessRec /\ r.queue = <<>>
    BY <2>2 DEF SessRec
  <2> HIDE DEF c, a, r
  <2>4. sess' \in Sessions /\ sess'[c] = r
    BY <1>1, <2>1, <2>3 DEF Sessions
  <2>5. Waiting(sess', chat') = <<>>
    BY <2>1, <2>3, <2>4 DEF Waiting
  <2>6. SameTurns(turn, turn') /\ turn' \in Turns
    BY <1>1, <2>1, SameSame
  <2> QED BY <1>2, <2>1, <2>4, <2>5, <2>6, NobodyMoves
<1>6. CASE DeescalateDone
  <2> DEFINE a == Pick(FreeAgents)
  <2>1. /\ Quiet /\ a \in Agents /\ update' = NoUpdate /\ update.sess \in Sids
        /\ sess' = RecreateEnd(sess, update.sess, a)
        /\ UNCHANGED <<chat, turn, timers, unsent>>
    BY <1>1, <1>6, Picks DEF DeescalateDone, UpdateForm
  <2> HIDE DEF a
  <2>2. sess' \in Sessions
    BY <1>1, <2>1, RecreateEndIs
  <2>3. ASSUME chat # 0 PROVE sess'[chat].queue = sess[chat].queue
    <3>1. chat \in Sids
      BY <1>1, <2>3
    <3> QED BY <1>1, <2>1, <3>1, QueuesAre
  <2>4. Waiting(sess', chat') = Waiting(sess, chat)
    BY <2>1, <2>3 DEF Waiting
  <2>5. SameTurns(turn, turn') /\ turn' \in Turns
    BY <1>1, <2>1, SameSame
  <2> QED BY <1>1, <1>2, <2>1, <2>2, <2>4, <2>5, NobodyMoves
<1> QED BY <1>3, <1>4, <1>5, <1>6 DEF HandlerStep

LEMMA ExpireOnce ==
  ASSUME OnceInv, Expire
  PROVE  OnceInv'
<1>1. Quiet /\ Destroy /\ UNCHANGED <<timers, update, unsent>> /\ UpdateForm(update)
  BY DEF Expire, UpdateFree, OnceInv, Forms
<1>2. UpdateForm(update') /\ update'.msg = update.msg /\ timers' = timers /\ unsent' = unsent
  BY <1>1
<1> QED BY <1>1, <1>2, DestroyOnce

LEMMA TimerOnce ==
  ASSUME OnceInv, TimerFires
  PROVE  OnceInv'
<1> DEFINE m == Head(timers)
<1>1. /\ Forms /\ sess \in Sessions /\ turn \in Turns /\ chat \in Sids \cup {0} /\ Quiet
      /\ timers \in Seq(Msgs) /\ timers # <<>> /\ timers' = Tail(timers) /\ FreeTids # {}
      /\ UpdateForm(update) /\ UNCHANGED <<chat, update, unsent>>
  BY DEF OnceInv, Forms, TimerFires
<1>2. Distinct(timers)
  BY TimersAre
<1>3. /\ Tail(timers) \in Seq(Msgs) /\ m \in Msgs /\ In(m, timers)
      /\ Distinct(Tail(timers)) /\ ~In(m, Tail(timers))
      /\ \A u : In(u, Tail(timers)) => In(u, timers)
  BY <1>1, <1>2, TailIs
<1> HIDE DEF m
<1>4. CASE chat = 0
  <2>1. sess' = sess /\ turn' = turn
    BY <1>4 DEF TimerFires
  <2>2. Forms'
    BY <1>1, <1>3, <2>1 DEF Forms
  <2>3. Fewer(Waiting(sess, chat), timers, update.msg, unsent,
              Waiting(sess', chat'), timers', update'.msg, unsent')
    <3>1. Waiting(sess', chat') \in {Waiting(sess, chat), <<>>}
      BY <1>1, <2>1
    <3> QED BY <1>1, <1>3, <3>1, FewerWait
  <2>4. SameLine(turn, turn') /\ \A u \in Tids : turn[u].pc # "resumed" /\ turn'[u].pc # "resumed"
    BY <1>1, <2>1 DEF SameLine, Quiet
  <2>5. Once(turn', Waiting(sess', chat'), timers', update'.msg, unsent', Serves(sess', chat'))
    BY <2>3, <2>4, OnceStays DEF OnceInv
  <2> QED BY <2>2, <2>5 DEF OnceInv
<1>5. CASE chat # 0
  <2>1. chat \in Sids /\ Run(Process(sess, turn, chat, m, Pick(FreeTids), 0))
    BY <1>1, <1>5 DEF TimerFires, m
  <2>2. sess[chat].queue = Waiting(sess, chat)
    BY <1>5 DEF Waiting
  <2>3. /\ ~In(m, sess[chat].queue) /\ m # update.msg /\ m \notin unsent
        /\ \A u \in Tids : turn[u].pc # "free" => turn[u].msg # m
    <3>1. /\ ~In(m, Waiting(sess, chat)) /\ m # update.msg /\ m \notin unsent
      BY <1>3 DEF OnceInv, Once, Apart
    <3>2. ASSUME NEW u \in Tids, turn[u].pc # "free" PROVE turn[u].msg # m
      BY <1>1, <1>3, <3>2 DEF OnceInv, Once, Alone, Quiet
    <3> QED BY <2>2, <3>1, <3>2
  <2>4. /\ timers' \in Seq(Msgs) /\ unsent' \subseteq unsent /\ Distinct(timers')
        /\ ~In(m, timers') /\ m \notin unsent' /\ m # update'.msg
        /\ UpdateForm(update') /\ update'.msg \in {update.msg, NoMsg}
        /\ \A u \in Msgs : In(u, timers') => In(u, timers)
    BY <1>1, <1>3, <2>3
  <2> QED BY <1>1, <1>3, <2>1, <2>2, <2>3, <2>4, OneBegins
<1> QED BY <1>4, <1>5

LEMMA WatchdogOnce ==
  ASSUME OnceInv, NEW t \in Tids, GoesStale \/ WatchdogStep(t) \/ CompactionDone(t)
  PROVE  OnceInv'
<1>1. /\ Forms /\ sess \in Sessions /\ turn \in Turns /\ chat \in Sids \cup {0}
      /\ turn[t] \in TurnRec
  BY DEF OnceInv, Forms, Turns
<1>2. /\ Quiet /\ UNCHANGED <<chat, timers, update, unsent>>
  <2>1. WatchdogDue(t) => Quiet
    BY DEF WatchdogDue, At, Watched
  <2> QED BY <2>1 DEF GoesStale, WatchdogStep, WatchdogGrace, WatchdogCompact, WatchdogCancel,
                      CompactionDone
<1>3. CASE GoesStale
  <2>1. sess' = [sess EXCEPT ![chat].stale = TRUE] /\ turn' = turn
    BY <1>3 DEF GoesStale
  <2>2. sess' \in Sessions /\ Waiting(sess', chat) \in {Waiting(sess, chat), <<>>}
    BY <1>1, <2>1, StaleStands
  <2> QED BY <1>1, <1>2, <2>1, <2>2, SameSame, SessionKeeps
<1>4. CASE WatchdogGrace(t)
  <2>1. /\ sess' = [sess EXCEPT ![chat].stale = FALSE]
        /\ turn' = [turn EXCEPT ![t].grace = turn[t].grace + 1]
    BY <1>1, <1>4 DEF WatchdogGrace, Turns
  <2>2. turn[t].grace + 1 \in Nat
    BY <1>1 DEF TurnRec
  <2>3. turn' \in Turns /\ SameTurns(turn, turn')
    BY <1>1, <2>1, <2>2, SameSame, FieldsAreFree
  <2>4. sess' \in Sessions /\ Waiting(sess', chat) \in {Waiting(sess, chat), <<>>}
    BY <1>1, <2>1, StaleStands
  <2> QED BY <1>2, <2>3, <2>4, SessionKeeps
<1>5. CASE WatchdogCompact(t)
  <2> DEFINE tt == Signalled(turn, sess[chat].ctrl)
             r  == [sess[chat] EXCEPT !.compacts = @ + 1]
  <2>1. /\ sess' = [sess EXCEPT ![chat].compacts = @ + 1] /\ chat \in Sids
        /\ turn' = [tt EXCEPT ![t].pending = TRUE, ![t].compacted = chat]
    BY <1>1, <1>5 DEF WatchdogCompact, WatchdogDue
  <2>2. tt \in Turns /\ SameTurns(turn, tt)
    BY <1>1, <2>1, TurnsHear
  <2> HIDE DEF tt
  <2>3. turn' \in Turns /\ SameTurns(turn, turn')
    BY <2>1, <2>2, FieldsAreFree
  <2>4. sess' = [sess EXCEPT ![chat] = r]
    BY <1>1, <2>1 DEF Sessions
  <2>5. r \in SessRec /\ r.queue = sess[chat].queue
    <3>1. sess[chat] \in SessRec /\ sess[chat].compacts + 1 \in Nat
      BY <1>1, <2>1 DEF Sessions, SessRec
    <3> QED BY <3>1 DEF SessRec
  <2> HIDE DEF r
  <2>6. sess' \in Sessions /\ Waiting(sess', chat) \in {Waiting(sess, chat), <<>>}
    BY <1>1, <2>1, <2>4, <2>5, QueueStands
  <2> QED BY <1>2, <2>3, <2>6, SessionKeeps
<1>6. CASE WatchdogCancel(t)
  BY <1>2, <1>6, CancelOnce DEF WatchdogCancel, WatchdogDue
<1>7. CASE CompactionDone(t)
  <2>1. /\ turn' = [turn EXCEPT ![t].pending = FALSE, ![t].compacted = 0]
        /\ sess' = [sess EXCEPT ![turn[t].compacted].stale = FALSE] \/ sess' = sess
    BY <1>7 DEF CompactionDone
  <2>2. turn' \in Turns /\ SameTurns(turn, turn')
    BY <1>1, <2>1, SameSame, FieldsAreFree
  <2>3. sess' \in Sessions /\ Waiting(sess', chat) \in {Waiting(sess, chat), <<>>}
    <3>1. turn[t].compacted \in Sids \cup {0}
      BY <1>1 DEF TurnRec
    <3>2. CASE sess' = [sess EXCEPT ![turn[t].compacted].stale = FALSE]
      BY <1>1, <3>1, <3>2, StaleStands
    <3>3. CASE sess' = sess
      BY <1>1, <3>3
    <3> QED BY <2>1, <3>2, <3>3
  <2> QED BY <1>2, <2>2, <2>3, SessionKeeps
<1> QED BY <1>3, <1>4, <1>5, <1>6, <1>7 DEF WatchdogStep

\* The record of one turn changes.
LEMMA SelfGoes ==
  ASSUME turn \in Turns, NEW t \in Tids, NEW r \in TurnRec
  PROVE  Goes(turn, [turn EXCEPT ![t] = r], t, r)
BY DEF Goes, Turns

LEMMA HasMessage ==
  ASSUME OnceInv, NEW t \in Tids, turn[t].pc # "free"
  PROVE  /\ turn[t].sess \in Sids /\ turn[t].msg \in Msgs /\ turn[t] \in TurnRec
         /\ turn[t].parent \in Tids \cup {0}
         /\ turn[t].msg # update.msg /\ turn[t].msg \notin unsent
         /\ Quiet => ~In(turn[t].msg, Waiting(sess, chat)) /\ ~In(turn[t].msg, timers)
<1>1. Held(turn[t]) /\ turn[t] \in TurnRec
  BY DEF OnceInv, Forms, Turns
<1>2. turn[t].sess \in Sids /\ turn[t].msg \in Msgs /\ turn[t].parent \in Tids \cup {0}
  BY <1>1 DEF Held, TurnRec
<1>3. /\ turn[t].msg # update.msg /\ turn[t].msg \notin unsent
      /\ In(turn[t].msg, Waiting(sess, chat)) \/ In(turn[t].msg, timers) =>
           \E u \in Tids : turn[u].pc = "resumed" /\ turn[u].msg = turn[t].msg
  BY DEF OnceInv, Once, Alone
<1>4. Quiet => ~In(turn[t].msg, Waiting(sess, chat)) /\ ~In(turn[t].msg, timers)
  BY <1>3 DEF Quiet
<1> QED BY <1>1, <1>2, <1>3, <1>4

LEMMA AskOnce ==
  ASSUME OnceInv, NEW t \in Tids, AskStep(t)
  PROVE  OnceInv'
<1>1. /\ Forms /\ sess \in Sessions /\ turn \in Turns /\ Held(turn[t])
      /\ chat \in Sids \cup {0}
  BY DEF OnceInv, Forms
<1>2. /\ Quiet /\ turn[t].pc \in Working /\ UNCHANGED <<chat, timers, update, unsent>>
  BY DEF AskStep, SendRequest, ToolCalls, Answer, Aborted, AskFails, ServerWaited, At, Working,
         Pcs, Owning
<1>3. turn[t].sess \in Sids /\ turn[t].msg \in Msgs
  BY <1>2, HasMessage DEF Working
<1>4. PICK r \in TurnRec :
        /\ turn' = [turn EXCEPT ![t] = r] /\ r.pc \in AskedPcs
        /\ r.sess = turn[t].sess /\ r.id = turn[t].id /\ r.msg = turn[t].msg
        /\ r.parent = turn[t].parent /\ (r.pc = "notify" => EscOn)
        /\ sess' \in {sess, Progress(sess, t)}
  BY <1>1, <1>3, AskStepIs
<1>5. Goes(turn, turn', t, r)
  BY <1>1, <1>4, SelfGoes
<1>6. Held(r) /\ r.pc \in Working
  BY <1>3, <1>4 DEF Held, Recreating, Working, AskedPcs, Pcs, Owning
<1>7. sess' \in Sessions /\ Waiting(sess', chat) \in {Waiting(sess, chat), <<>>}
  <2>1. CASE sess' = sess
    BY <1>1, <2>1
  <2>2. CASE sess' # sess
    <3>1. sess' = [sess EXCEPT ![chat].stale = FALSE]
      BY <1>4, <2>2 DEF Progress
    <3> QED BY <1>1, <3>1, StaleStands
  <2> QED BY <2>1, <2>2
<1> QED BY <1>2, <1>4, <1>5, <1>6, <1>7, OneMoves

LEMMA StartOnce ==
  ASSUME OnceInv, NEW t \in Tids, InitDone(t) \/ Retry(t)
  PROVE  OnceInv'
<1> DEFINE own == turn[t].sess
           q   == [sess[own] EXCEPT !.ctrl = t]
           r   == [turn[t] EXCEPT !.pc = "local", !.agent = sess[own].agent,
                                  !.aborted = FALSE, !.signalled = FALSE, !.rounds = 0]
<1>1. Forms /\ sess \in Sessions /\ turn \in Turns /\ chat \in Sids \cup {0}
  BY DEF OnceInv, Forms
<1>2. /\ Quiet /\ turn[t].pc \in Working /\ UNCHANGED <<chat, timers, update, unsent>>
      /\ Run(StartAsk(sess, turn, t))
  BY DEF InitDone, Retry, At, Working, Pcs, Owning
<1>3. own \in Sids /\ turn[t].msg \in Msgs /\ turn[t] \in TurnRec
  BY <1>2, HasMessage DEF Working
<1>4. sess[own] \in SessRec /\ sess[own].agent \in Agents \cup {0}
  BY <1>1, <1>3 DEF Sessions, SessRec
<1>5. sess' = [sess EXCEPT ![own] = q] /\ turn' = [turn EXCEPT ![t] = r]
  BY <1>1, <1>2, <1>3 DEF Run, StartAsk, Sessions, Turns
<1>6. q \in SessRec /\ q.queue = sess[own].queue
  BY <1>4 DEF SessRec
<1>7. /\ r \in TurnRec /\ r.pc = "local" /\ r.sess = own /\ r.msg = turn[t].msg
      /\ r.parent = turn[t].parent
  BY <1>3, <1>4 DEF TurnRec, Pcs, Owning
<1> HIDE DEF q, r
<1>8. sess' \in Sessions /\ Waiting(sess', chat) \in {Waiting(sess, chat), <<>>}
  BY <1>1, <1>3, <1>5, <1>6, QueueStands
<1>9. Goes(turn, turn', t, r)
  BY <1>1, <1>5, <1>7, SelfGoes
<1>10. Held(r) /\ r.pc \in Working
  BY <1>3, <1>7 DEF Held, Recreating, Working, Pcs, Owning
<1> QED BY <1>2, <1>7, <1>8, <1>9, <1>10, OneMoves

\* A turn that ends leaves the queue and the timers as they are, but for its message.
LEMMA EndsQuietly ==
  ASSUME OnceInv, Quiet, NEW t \in Tids, turn[t].pc \in Working, turn' = Ended(turn, t),
         sess' \in Sessions, UNCHANGED <<chat, timers, update, unsent>>,
         Waiting(sess', chat) \in {Waiting(sess, chat), <<turn[t].msg>> \o Waiting(sess, chat)}
  PROVE  OnceInv'
<1> DEFINE m == turn[t].msg
           q == Waiting(sess, chat)
<1>1. /\ sess \in Sessions /\ chat \in Sids \cup {0} /\ timers \in Seq(Msgs)
  BY DEF OnceInv, Forms
<1>2. /\ m \in Msgs /\ m # update.msg /\ m \notin unsent /\ ~In(m, q) /\ ~In(m, timers)
  BY HasMessage DEF Working
<1>3. q \in Seq(Msgs)
  BY <1>1, WaitingIs
<1>4. Apart(q, timers, update.msg, unsent)
  BY DEF OnceInv, Once
<1> HIDE DEF m, q
<1>5. /\ Distinct(<<m>> \o q) /\ \A u : In(u, <<m>> \o q) => In(u, q) \/ u = m
  <2>1. Distinct(q)
    BY <1>4 DEF Apart
  <2> QED BY <1>2, <1>3, <2>1, FrontIs
<1>6. Apart(<<m>> \o q, timers, update.msg, unsent)
  BY <1>2, <1>4, <1>5 DEF Apart
<1>7. Waiting(sess', chat) \in {q, <<m>> \o q}
  BY DEF m, q
<1>8. Apart(Waiting(sess', chat), timers, update.msg, unsent)
  BY <1>4, <1>6, <1>7
<1>9. \A u \in Msgs : In(u, Waiting(sess', chat)) => In(u, q) \/ u = m
  BY <1>5, <1>7
<1>10. turn[t].pc \notin {"free", "nested"} /\ \A u \in Tids \ {t} : turn[u].pc # "resumed"
  BY DEF Working, Quiet
<1>11. /\ timers' \in Seq(Msgs) /\ Apart(Waiting(sess', chat), timers', update.msg, unsent)
       /\ In(turn[t].msg, timers') => Serves(sess', chat)
  BY <1>1, <1>2, <1>8 DEF m
<1>12. \A u \in Msgs : In(u, Waiting(sess', chat)) \/ In(u, timers') =>
         In(u, Waiting(sess, chat)) \/ In(u, timers) \/ u = turn[t].msg
  BY <1>9 DEF m, q
<1> QED BY <1>10, <1>11, <1>12, OneEnds

LEMMA InitFailsOnce ==
  ASSUME OnceInv, NEW t \in Tids, InitFails(t)
  PROVE  OnceInv'
<1>1. /\ Quiet /\ turn[t].pc \in Working /\ turn' = Ended(turn, t) /\ sess' = sess
      /\ UNCHANGED <<chat, timers, update, unsent>>
  BY DEF InitFails, At, Working, Pcs, Owning
<1>2. sess' \in Sessions /\ Waiting(sess', chat) = Waiting(sess, chat)
  BY <1>1 DEF OnceInv, Forms
<1> QED BY <1>1, <1>2, EndsQuietly

\* After a recreation, of the chat's session or of one that is not the chat's any more.
LEMMA ReacquireOnce ==
  ASSUME OnceInv, Quiet, NEW t \in Tids, turn[t].pc \in Working, NEW check \in BOOLEAN,
         NEW ss \in Sessions, Waiting(ss, chat) = Waiting(sess, chat),
         Run(Reacquire(ss, t, check)), UNCHANGED <<chat, timers, update, unsent>>
  PROVE  OnceInv'
<1> DEFINE own   == turn[t].sess
           began == BeginTurn(ss, chat)
           ss2   == [began EXCEPT ![own] = began[chat]]
           r     == [turn[t] EXCEPT !.id = began[chat].turnId, !.fresh = 0]
           p     == Reacquire(ss, t, check)
<1>1. turn \in Turns /\ chat \in Sids \cup {0} /\ sess' = p.sess /\ turn' = p.turn
  BY DEF OnceInv, Forms, Run
<1>2. own \in Sids /\ turn[t].msg \in Msgs /\ turn[t] \in TurnRec
  BY HasMessage DEF Working
<1>3. CASE CanBegin(ss, chat)
  <2>1. chat # 0 /\ chat \in Sids
    BY <1>1, <1>3 DEF CanBegin
  <2>2. began \in Sessions /\ began[chat].turnId \in Nat /\ began[chat].queue = ss[chat].queue
    <3>1. ss[chat] \in SessRec
      BY <2>1 DEF Sessions
    <3>2. began[chat].queue = ss[chat].queue
      BY <2>1, <3>1 DEF BeginTurn, Sessions, SessRec
    <3> QED BY <2>1, <3>2, BeginTurnIs
  <2> HIDE DEF began
  <2>3. ss2 \in Sessions /\ ss2[chat].queue = ss[chat].queue
    BY <1>2, <2>1, <2>2 DEF Sessions
  <2>4. /\ r \in TurnRec /\ r.sess = own /\ r.msg = turn[t].msg
        /\ r.parent = turn[t].parent
    BY <1>2, <2>2 DEF TurnRec
  <2>5. CASE check
    <3> DEFINE k == KeywordCheck(ss2, turn, chat, t, r)
    <3>1. p = k
      BY <1>3, <2>5 DEF Reacquire, began
    <3> HIDE DEF ss2, r
    <3>2. /\ k.sess \in Sessions /\ k.sess[chat].queue \in {ss2[chat].queue, <<>>}
          /\ Goes(turn, k.turn, t, k.turn[t]) /\ Held(k.turn[t])
          /\ k.turn[t].pc \in {"keyword", "init"} /\ k.turn[t].msg = r.msg
          /\ k.turn[t].parent = r.parent
      BY <1>1, <1>2, <2>1, <2>3, <2>4, KeywordCheckGoes
    <3> HIDE DEF k, p
    <3>3. /\ sess' \in Sessions /\ Goes(turn, turn', t, k.turn[t])
          /\ Waiting(sess', chat) \in {Waiting(sess, chat), <<>>}
      BY <1>1, <2>1, <2>3, <3>1, <3>2 DEF Waiting
    <3>4. k.turn[t].pc \in Working /\ k.turn[t].msg = turn[t].msg
          /\ k.turn[t].parent = turn[t].parent
      BY <2>4, <3>2 DEF Working, Pcs, Owning
    <3> QED BY <3>2, <3>3, <3>4, OneMoves
  <2>6. CASE ~check
    <3> DEFINE rr == [r EXCEPT !.pc = "init"]
    <3>1. p = [sess |-> ss2, turn |-> [turn EXCEPT ![t] = rr]]
      BY <1>3, <2>6 DEF Reacquire, began
    <3> HIDE DEF ss2, r
    <3>2. /\ rr \in TurnRec /\ rr.pc = "init" /\ rr.sess = own /\ rr.msg = turn[t].msg
          /\ rr.parent = turn[t].parent
      BY <2>4 DEF TurnRec, Pcs, Owning
    <3> HIDE DEF rr, p
    <3>3. sess' = ss2 /\ turn' = [turn EXCEPT ![t] = rr]
      BY <1>1, <3>1
    <3>4. Goes(turn, turn', t, rr)
      BY <1>1, <3>2, <3>3, SelfGoes
    <3>5. Held(rr) /\ rr.pc \in Working
      BY <1>2, <3>2 DEF Held, Recreating, Working, Pcs, Owning
    <3>6. sess' \in Sessions /\ Waiting(sess', chat) \in {Waiting(sess, chat), <<>>}
      BY <2>1, <2>3, <3>3 DEF Waiting
    <3> QED BY <3>2, <3>4, <3>5, <3>6, OneMoves
  <2> QED BY <2>5, <2>6
<1>4. CASE ~CanBegin(ss, chat)
  <2> DEFINE q == [ss[own] EXCEPT !.queue = <<turn[t].msg>> \o @]
  <2>1. p = [sess |-> [ss EXCEPT ![own] = q], turn |-> Ended(turn, t)]
    BY <1>2, <1>4 DEF Reacquire, Sessions
  <2>2. ss[own] \in SessRec /\ <<turn[t].msg>> \o ss[own].queue \in Seq(Msgs)
    BY <1>2 DEF Sessions, SessRec
  <2>3. q \in SessRec /\ q.queue = <<turn[t].msg>> \o ss[own].queue
    BY <2>2 DEF SessRec
  <2> HIDE DEF q, p
  <2>4. turn' = Ended(turn, t) /\ sess' = [ss EXCEPT ![own] = q]
    BY <1>1, <2>1
  <2>5. /\ sess' \in Sessions /\ sess'[own] = q
        /\ \A s \in Sids \ {own} : sess'[s] = ss[s]
    BY <1>2, <2>3, <2>4 DEF Sessions
  <2>6. Waiting(sess', chat) \in {Waiting(sess, chat), <<turn[t].msg>> \o Waiting(sess, chat)}
    <3>1. CASE chat = 0
      BY <3>1 DEF Waiting
    <3>2. CASE chat # 0
      <4>1. chat \in Sids /\ Waiting(sess, chat) = ss[chat].queue
            /\ Waiting(sess', chat) = sess'[chat].queue
        BY <1>1, <3>2 DEF Waiting
      <4> QED BY <2>3, <2>5, <4>1
    <3> QED BY <3>1, <3>2
  <2> QED BY <2>4, <2>5, <2>6, EndsQuietly
<1> QED BY <1>3, <1>4

LEMMA RecreateEndWaits ==
  ASSUME Forms, NEW ss \in Sessions, NEW s \in Sids, NEW a \in Agents
  PROVE  /\ RecreateEnd(ss, s, a) \in Sessions
         /\ Waiting(RecreateEnd(ss, s, a), chat) = Waiting(ss, chat)
<1>1. RecreateEnd(ss, s, a) \in Sessions /\ chat \in Sids \cup {0}
  BY RecreateEndIs DEF Forms
<1>2. ASSUME chat # 0 PROVE RecreateEnd(ss, s, a)[chat].queue = ss[chat].queue
  <2>1. chat \in Sids
    BY <1>1, <1>2
  <2> QED BY <1>1, <2>1, QueuesAre
<1> QED BY <1>1, <1>2 DEF Waiting

LEMMA BeginOnce ==
  ASSUME OnceInv, NEW t \in Tids, EscalateDone(t) \/ KeywordDone(t)
  PROVE  OnceInv'
<1>1. Forms /\ sess \in Sessions /\ turn \in Turns /\ Held(turn[t])
  BY DEF OnceInv, Forms
<1>2. /\ Quiet /\ turn[t].pc \in {"escalating", "keyword"} /\ turn[t].pc \in Working
      /\ UNCHANGED <<chat, timers, update, unsent>>
  BY DEF EscalateDone, KeywordDone, At, Working, Pcs, Owning
<1>3. turn[t].fresh \in Sids
  BY <1>1, <1>2 DEF Held, Recreating
<1>4. ASSUME NEW check \in BOOLEAN, FreeAgents # {},
             Run(Reacquire(RecreateEnd(sess, turn[t].fresh, Pick(FreeAgents)), t, check))
      PROVE  OnceInv'
  <2>1. Pick(FreeAgents) \in Agents
    BY <1>4, Picks
  <2>2. /\ RecreateEnd(sess, turn[t].fresh, Pick(FreeAgents)) \in Sessions
        /\ Waiting(RecreateEnd(sess, turn[t].fresh, Pick(FreeAgents)), chat)
             = Waiting(sess, chat)
    BY <1>1, <1>3, <2>1, RecreateEndWaits
  <2> QED BY <1>2, <1>4, <2>2, ReacquireOnce
<1>5. CASE Run(Reacquire(sess, t, TRUE))
  BY <1>1, <1>2, <1>5, ReacquireOnce
<1>6. CASE turn' = [turn EXCEPT ![t].pc = "init", ![t].fresh = 0] /\ sess' = sess
  <2> DEFINE r == [turn[t] EXCEPT !.pc = "init", !.fresh = 0]
  <2>1. turn' = [turn EXCEPT ![t] = r]
    BY <1>1, <1>6 DEF Turns
  <2>2. turn[t].sess \in Sids /\ turn[t].msg \in Msgs /\ turn[t] \in TurnRec
    BY <1>2, HasMessage DEF Working
  <2>3. /\ r \in TurnRec /\ r.pc = "init" /\ r.sess = turn[t].sess /\ r.msg = turn[t].msg
        /\ r.parent = turn[t].parent
    BY <2>2 DEF TurnRec, Pcs, Owning
  <2> HIDE DEF r
  <2>4. Goes(turn, turn', t, r)
    BY <1>1, <2>1, <2>3, SelfGoes
  <2>5. Held(r) /\ r.pc \in Working
    BY <2>2, <2>3 DEF Held, Recreating, Working, Pcs, Owning
  <2>6. sess' \in Sessions /\ Waiting(sess', chat) \in {Waiting(sess, chat), <<>>}
    BY <1>1, <1>6
  <2> QED BY <1>2, <2>3, <2>4, <2>5, <2>6, OneMoves
<1>7. CASE EscalateDone(t)
  BY <1>4, <1>5, <1>7 DEF EscalateDone
<1>8. CASE KeywordDone(t)
  BY <1>4, <1>6, <1>8 DEF KeywordDone
<1> QED BY <1>7, <1>8

LEMMA AutoEscalateOnce ==
  ASSUME OnceInv, NEW t \in Tids, AutoEscalate(t)
  PROVE  OnceInv'
<1> DEFINE s     == turn[t].sess
           model == Lesser(sess[s].model + 1, NModels)
           q     == [sess[s] EXCEPT !.pendingEsc = model, !.model = model, !.escCount = @ + 1]
           ss    == [sess EXCEPT ![s] = q]
           mm    == turn[t].msg
<1>1. Forms /\ sess \in Sessions /\ turn \in Turns /\ chat \in Sids \cup {0}
  BY DEF OnceInv, Forms
<1>2. /\ Quiet /\ turn[t].pc = "notify" /\ turn[t].pc \in Working
      /\ UNCHANGED <<chat, timers, update, unsent>>
  BY DEF AutoEscalate, At, Working, Pcs, Owning
<1>3. s \in Sids /\ turn[t].msg \in Msgs /\ turn[t] \in TurnRec
  BY <1>2, HasMessage DEF Working
<1>4. sess[s] \in SessRec /\ sess[s].escCount + 1 \in Nat /\ model \in 0..NModels
  <2>1. sess[s] \in SessRec
    BY <1>1, <1>3 DEF Sessions
  <2>2. sess[s].escCount \in Nat /\ sess[s].model \in 0..NModels /\ NModels \in Nat
    BY <2>1, BotAssumption DEF SessRec
  <2> QED BY <2>1, <2>2 DEF Lesser
<1>5. ss = [sess EXCEPT ![s].pendingEsc = model, ![s].model = model, ![s].escCount = @ + 1]
  BY <1>1 DEF Sessions
<1>6. /\ chat = 0 => sess' = ss /\ turn' = [turn EXCEPT ![t].pc = "resumed"]
      /\ chat # 0 => Run(AwaitRecreate(ss, turn, chat, t, [turn[t] EXCEPT !.pc = "autoEsc"]))
  BY <1>5 DEF AutoEscalate
<1> HIDE DEF model
<1>7. q \in SessRec
  BY <1>4 DEF SessRec
<1> HIDE DEF q
<1>8. ss \in Sessions
  BY <1>1, <1>3, <1>7 DEF Sessions
<1> HIDE DEF ss
<1>9. CASE chat # 0
  <2> DEFINE r == [turn[t] EXCEPT !.pc = "autoEsc"]
             p == AwaitRecreate(ss, turn, chat, t, r)
             z == [r EXCEPT !.fresh = chat]
  <2>1. /\ r \in TurnRec /\ r.pc = "autoEsc" /\ r.sess = s /\ r.msg = turn[t].msg
        /\ r.parent = turn[t].parent
    BY <1>3 DEF TurnRec, Pcs, Owning
  <2>2. sess' = p.sess /\ turn' = p.turn
    BY <1>6, <1>9 DEF Run
  <2> HIDE DEF r
  <2>3. p.sess \in Sessions /\ p.sess[chat].queue = <<>> /\ Goes(turn, p.turn, t, z)
    BY <1>1, <1>8, <1>9, <2>1, AwaitRecreateGoes
  <2>4. /\ z \in TurnRec /\ z.pc = "autoEsc" /\ z.sess = s /\ z.msg = turn[t].msg
        /\ z.parent = turn[t].parent /\ z.fresh \in Sids
    BY <1>1, <1>9, <2>1 DEF TurnRec
  <2> HIDE DEF z, p
  <2>5. Held(z) /\ z.pc \in Working
    BY <1>3, <2>4 DEF Held, Working, Pcs, Owning
  <2>6. sess' \in Sessions /\ Waiting(sess', chat) \in {Waiting(sess, chat), <<>>}
    BY <1>9, <2>2, <2>3 DEF Waiting
  <2>7. Goes(turn, turn', t, z)
    BY <2>2, <2>3
  <2> QED BY <1>2, <2>4, <2>5, <2>6, <2>7, OneMoves
<1>10. CASE chat = 0
  <2> DEFINE r == [turn[t] EXCEPT !.pc = "resumed"]
  <2>1. /\ r \in TurnRec /\ r.pc = "resumed" /\ r.sess = s /\ r.msg = turn[t].msg
        /\ r.parent = turn[t].parent
    BY <1>3 DEF TurnRec, Pcs
  <2>2. sess' = ss /\ turn' = [turn EXCEPT ![t] = r]
    BY <1>1, <1>6, <1>10 DEF Turns
  <2> HIDE DEF r
  <2>3. Goes(turn, turn', t, r) /\ Held(r)
    BY <1>1, <1>3, <2>1, <2>2, SelfGoes DEF Held, Recreating
  <2>4. turn' \in Turns /\ \A u \in Tids : Held(turn'[u])
    BY <1>1, <2>3, GoesHeld
  <2>5. Forms'
    BY <1>1, <1>2, <1>8, <2>2, <2>4 DEF Forms
  <2>6. Waiting(sess, chat) = <<>> /\ Waiting(sess', chat) = <<>>
    BY <1>10 DEF Waiting
  <2>7. Fewer(Waiting(sess, chat), timers, update.msg, unsent,
              Waiting(sess', chat), timers, update.msg, unsent)
    <3>1. Distinct(timers)
      BY TimersAre
    <3> QED BY <2>6, <3>1, FewerWait
  <2>8. ~In(turn[t].msg, Waiting(sess', chat)) /\ ~In(turn[t].msg, timers)
    BY <1>2, <2>6, HasMessage DEF Working
  <2>9. /\ turn[t].pc \notin {"free", "nested"} /\ turn'[t].pc \notin {"free", "nested"}
        /\ turn'[t].msg = turn[t].msg /\ turn'[t].parent = turn[t].parent
        /\ \A u \in Tids \ {t} : /\ turn'[u].msg = turn[u].msg
                                 /\ turn'[u].parent = turn[u].parent
                                 /\ turn'[u].pc = turn[u].pc /\ turn'[u].pc # "resumed"
    BY <1>2, <2>1, <2>3 DEF Goes, Quiet
  <2>10. Once(turn', Waiting(sess', chat), timers, update.msg, unsent, Serves(sess', chat))
    BY <2>7, <2>8, <2>9, OnceResumes DEF OnceInv
  <2> QED BY <1>2, <2>5, <2>10 DEF OnceInv
<1> QED BY <1>9, <1>10

LEMMA AutoEscDoneOnce ==
  ASSUME OnceInv, NEW t \in Tids, AutoEscDone(t)
  PROVE  OnceInv'
<1> DEFINE back == RecreateEnd(sess, turn[t].fresh, Pick(FreeAgents))
           ss   == FinishTurn(back, turn[t].id)
           r    == [turn[t] EXCEPT !.fresh = 0, !.pc = "nested"]
           tt   == [turn EXCEPT ![t] = r]
           n    == Pick(FreeTids)
           p    == Process(ss, tt, chat, turn[t].msg, n, t)
           v    == [tt EXCEPT ![t].pc = "resumed"]
           e    == [turn[t] EXCEPT !.pc = "closing", !.fresh = 0]
<1>1. Forms /\ sess \in Sessions /\ turn \in Turns /\ chat \in Sids \cup {0} /\ Held(turn[t])
  BY DEF OnceInv, Forms
<1>2. /\ Quiet /\ turn[t].pc = "autoEsc" /\ turn[t].pc \in Working
      /\ UNCHANGED <<chat, timers, update, unsent>>
  BY DEF AutoEscDone, At, Working, Pcs, Owning
<1>3. /\ turn[t].sess \in Sids /\ turn[t].msg \in Msgs /\ turn[t] \in TurnRec
      /\ ~In(turn[t].msg, Waiting(sess, chat)) /\ ~In(turn[t].msg, timers)
  BY <1>2, HasMessage DEF Working
<1>4. turn[t].fresh \in Sids
  BY <1>1, <1>2 DEF Held, Recreating
<1>5. tt = [turn EXCEPT ![t].fresh = 0, ![t].pc = "nested"]
  BY <1>1 DEF Turns
<1>6. \/ /\ FreeAgents # {} /\ FreeTids # {}
         /\ \/ CanBegin(ss, chat) /\ Run(p)
            \/ ~CanBegin(ss, chat) /\ sess' = ss /\ turn' = v
      \/ sess' = sess /\ turn' = [turn EXCEPT ![t].pc = "closing", ![t].fresh = 0]
  BY <1>5 DEF AutoEscDone, Run
<1>7. CASE sess' = sess /\ turn' = [turn EXCEPT ![t].pc = "closing", ![t].fresh = 0]
  <2>1. turn' = [turn EXCEPT ![t] = e]
    BY <1>1, <1>7 DEF Turns
  <2>2. /\ e \in TurnRec /\ e.pc = "closing" /\ e.sess = turn[t].sess /\ e.msg = turn[t].msg
        /\ e.parent = turn[t].parent
    BY <1>3 DEF TurnRec, Pcs, Owning
  <2> HIDE DEF e
  <2>3. Goes(turn, turn', t, e)
    BY <1>1, <2>1, <2>2, SelfGoes
  <2>4. Held(e) /\ e.pc \in Working
    BY <1>3, <2>2 DEF Held, Recreating, Working, Pcs, Owning
  <2>5. sess' \in Sessions /\ Waiting(sess', chat) \in {Waiting(sess, chat), <<>>}
    BY <1>1, <1>7
  <2> QED BY <1>2, <2>2, <2>3, <2>4, <2>5, OneMoves
<1>8. /\ r \in TurnRec /\ r.pc = "nested" /\ r.sess = turn[t].sess /\ r.msg = turn[t].msg
      /\ r.parent = turn[t].parent
  BY <1>3 DEF TurnRec, Pcs, Idle
<1> HIDE DEF r
<1>9. Held(r) /\ Goes(turn, tt, t, r)
  BY <1>1, <1>3, <1>8, SelfGoes DEF Held, Recreating
<1>10. tt \in Turns /\ tt[t] = r /\ \A u \in Tids \ {t} : tt[u] = turn[u]
  BY <1>1, <1>8 DEF Turns
<1>11. ASSUME FreeAgents # {}
       PROVE  ss \in Sessions /\ Waiting(ss, chat) = Waiting(sess, chat)
  <2>1. Pick(FreeAgents) \in Agents
    BY <1>11, Picks
  <2>2. back \in Sessions /\ Waiting(back, chat) = Waiting(sess, chat)
    BY <1>1, <1>4, <2>1, RecreateEndWaits
  <2> HIDE DEF back
  <2>3. CASE chat = 0
    <3>1. ss = back
      BY <2>3 DEF FinishTurn
    <3> QED BY <2>2, <3>1
  <2>4. CASE chat # 0
    <3>1. chat \in Sids
      BY <1>1, <2>4
    <3>2. ss \in Sessions /\ ss[chat].queue = back[chat].queue
      BY <1>1, <2>1, <2>2, <3>1, QueuesAre
    <3> QED BY <2>2, <2>4, <3>2 DEF Waiting
  <2> QED BY <2>3, <2>4
<1>12. Distinct(timers)
  BY TimersAre
<1>13. CASE FreeAgents # {} /\ FreeTids # {} /\ CanBegin(ss, chat) /\ Run(p)
  <2>1. n \in Tids /\ turn[n].pc = "free" /\ chat \in Sids /\ chat # 0 /\ n # t
    BY <1>1, <1>2, <1>13, Picks DEF CanBegin
  <2>2. sess' = p.sess /\ turn' = p.turn
    BY <1>13 DEF Run
  <2>3. ss \in Sessions /\ Waiting(ss, chat) = Waiting(sess, chat)
    BY <1>11, <1>13
  <2> HIDE DEF ss, n, tt
  <2>4. /\ p.sess \in Sessions /\ p.sess[chat].queue \in {ss[chat].queue, <<>>}
        /\ Goes(tt, p.turn, n, p.turn[n]) /\ Held(p.turn[n])
        /\ p.turn[n].pc \in Working /\ p.turn[n].msg = turn[t].msg /\ p.turn[n].parent = t
    BY <1>3, <1>10, <1>13, <2>1, <2>3, ProcessGoes
  <2> HIDE DEF p
  <2>5. ASSUME NEW u \in Tids \ {n}
        PROVE  /\ turn'[u].pc = tt[u].pc /\ turn'[u].sess = tt[u].sess
               /\ turn'[u].msg = tt[u].msg /\ turn'[u].fresh = tt[u].fresh
               /\ turn'[u].parent = tt[u].parent
    BY <2>2, <2>4 DEF Goes
  <2>6. turn' \in Turns
    BY <2>2, <2>4 DEF Goes
  <2>7. ASSUME NEW u \in Tids PROVE Held(turn'[u])
    <3>1. CASE u = n
      BY <2>2, <2>4, <3>1
    <3>2. CASE u # n
      <4>1. Held(tt[u])
        <5>1. CASE u = t
          BY <1>9, <1>10, <5>1
        <5>2. CASE u # t
          BY <1>1, <1>10, <5>2 DEF Forms
        <5> QED BY <5>1, <5>2
      <4>2. turn'[u] \in TurnRec
        BY <2>6 DEF Turns
      <4>3. /\ turn'[u].pc = tt[u].pc /\ turn'[u].sess = tt[u].sess
            /\ turn'[u].msg = tt[u].msg /\ turn'[u].fresh = tt[u].fresh
        BY <2>5, <3>2
      <4> QED BY <4>1, <4>2, <4>3 DEF Held
    <3> QED BY <3>1, <3>2
  <2>8. sess' \in Sessions /\ Waiting(sess', chat) \in {Waiting(sess, chat), <<>>}
    BY <2>1, <2>2, <2>3, <2>4 DEF Waiting
  <2>9. Forms'
    BY <1>1, <1>2, <2>6, <2>7, <2>8 DEF Forms
  <2>10. Fewer(Waiting(sess, chat), timers, update.msg, unsent,
               Waiting(sess', chat), timers, update.msg, unsent)
    BY <1>12, <2>8, FewerWait
  <2>11. turn[t].pc \notin {"free", "nested", "resumed"} /\ 0 \notin Tids
    BY <1>2, BotAssumption
  <2>12. /\ turn'[t].pc = "nested" /\ turn'[t].msg = turn[t].msg
         /\ turn'[t].parent = turn[t].parent
    <3>1. t \in Tids \ {n}
      BY <2>1
    <3> QED BY <1>8, <1>10, <2>5, <3>1
  <2>13. /\ turn'[n].pc \notin {"free", "nested", "resumed"} /\ turn'[n].msg = turn[t].msg
         /\ turn'[n].parent = t
    BY <2>2, <2>4 DEF Working
  <2>14. ASSUME NEW u \in Tids \ {t, n}
         PROVE  /\ turn'[u].msg = turn[u].msg /\ turn'[u].parent = turn[u].parent
                /\ turn'[u].pc = turn[u].pc
    <3>1. u \in Tids \ {n} /\ tt[u] = turn[u]
      BY <1>10
    <3> QED BY <2>5, <3>1
  <2>15. \A u \in Tids : turn[u].pc # "resumed"
    BY <1>2 DEF Quiet
  <2>16. Once(turn, Waiting(sess, chat), timers, update.msg, unsent, Serves(sess, chat))
    BY DEF OnceInv
  <2>17. Once(turn', Waiting(sess', chat), timers, update.msg, unsent, Serves(sess', chat))
    BY <2>1, <2>10, <2>11, <2>12, <2>13, <2>14, <2>15, <2>16, OnceNests
  <2> QED BY <1>2, <2>9, <2>17 DEF OnceInv
<1>14. CASE FreeAgents # {} /\ sess' = ss /\ turn' = v
  <2> DEFINE w == [r EXCEPT !.pc = "resumed"]
  <2>1. sess' \in Sessions /\ Waiting(sess', chat) = Waiting(sess, chat)
    BY <1>11, <1>14
  <2>2. /\ w \in TurnRec /\ w.pc = "resumed" /\ w.sess = turn[t].sess
        /\ w.msg = turn[t].msg /\ w.parent = turn[t].parent
    BY <1>8 DEF TurnRec, Pcs
  <2>3. turn' = [turn EXCEPT ![t] = w]
    BY <1>1, <1>14 DEF Turns
  <2> HIDE DEF w, v, tt, ss
  <2>4. Goes(turn, turn', t, w) /\ Held(w)
    BY <1>1, <1>3, <2>2, <2>3, SelfGoes DEF Held, Recreating
  <2>5. turn' \in Turns /\ \A u \in Tids : Held(turn'[u])
    BY <1>1, <2>4, GoesHeld
  <2>6. Forms'
    BY <1>1, <1>2, <2>1, <2>5 DEF Forms
  <2>7. Fewer(Waiting(sess, chat), timers, update.msg, unsent,
              Waiting(sess', chat), timers, update.msg, unsent)
    BY <1>12, <2>1, FewerWait
  <2>8. ~In(turn[t].msg, Waiting(sess', chat)) /\ ~In(turn[t].msg, timers)
    BY <1>3, <2>1
  <2>9. /\ turn[t].pc \notin {"free", "nested"} /\ turn'[t].pc \notin {"free", "nested"}
        /\ turn'[t].msg = turn[t].msg /\ turn'[t].parent = turn[t].parent
        /\ \A u \in Tids \ {t} : /\ turn'[u].msg = turn[u].msg
                                 /\ turn'[u].parent = turn[u].parent
                                 /\ turn'[u].pc = turn[u].pc /\ turn'[u].pc # "resumed"
    BY <1>2, <2>2, <2>4 DEF Goes, Quiet
  <2>10. Once(turn', Waiting(sess', chat), timers, update.msg, unsent, Serves(sess', chat))
    BY <2>7, <2>8, <2>9, OnceResumes DEF OnceInv
  <2> QED BY <1>2, <2>6, <2>10 DEF OnceInv
<1> QED BY <1>6, <1>7, <1>13, <1>14

LEMMA FinishOnce ==
  ASSUME OnceInv, NEW t \in Tids, Finish(t)
  PROVE  OnceInv'
<1> DEFINE ss == FinishTurn(sess, turn[t].id)
           m  == turn[t].msg
<1>1. /\ Forms /\ sess \in Sessions /\ turn \in Turns /\ chat \in Sids \cup {0}
      /\ timers \in Seq(Msgs)
  BY DEF OnceInv, Forms
<1>2. /\ turn[t].pc \in {"closing", "resumed"} /\ (Quiet \/ turn[t].pc = "resumed")
      /\ UNCHANGED <<chat, update, unsent>>
  BY DEF Finish, At
<1>3. /\ turn[t].sess \in Sids /\ m \in Msgs /\ turn[t] \in TurnRec
      /\ Quiet => ~In(m, timers)
  BY <1>2, HasMessage
<1>4. turn[t].pc \notin {"free", "nested"} /\ \A u \in Tids \ {t} : turn[u].pc # "resumed"
  <2>1. CASE Quiet
    BY <1>2, <2>1 DEF Quiet
  <2>2. CASE turn[t].pc = "resumed"
    BY <2>2 DEF OnceInv, Once, Alone
  <2> QED BY <1>2, <2>1, <2>2
\* A timer of its message is set only where the queue is served.
<1>5. In(m, timers) => Serves(sess, chat)
  <2>1. CASE Quiet
    BY <1>3, <2>1
  <2>2. CASE turn[t].pc = "resumed"
    BY <2>2 DEF OnceInv, Once, Alone
  <2> QED BY <1>2, <2>1, <2>2
<1>6. CASE chat = 0
  <2>1. turn' = Ended(turn, t) /\ sess' = sess /\ timers' = timers
    BY <1>6 DEF Finish
  <2>2. Apart(Waiting(sess', chat), timers', update.msg, unsent)
    BY <2>1 DEF OnceInv, Once
  <2>3. sess' \in Sessions /\ timers' \in Seq(Msgs)
    BY <1>1, <2>1
  <2>4. \A u \in Msgs : In(u, Waiting(sess', chat)) \/ In(u, timers') =>
          In(u, Waiting(sess, chat)) \/ In(u, timers) \/ u = turn[t].msg
    BY <2>1
  <2>5. In(turn[t].msg, timers') => Serves(sess', chat)
    BY <1>5, <2>1
  <2> QED BY <1>2, <1>4, <2>1, <2>2, <2>3, <2>4, <2>5, OneEnds
<1>7. ASSUME chat # 0
      PROVE  /\ chat \in Sids /\ ss \in Sessions /\ ss[chat].queue = sess[chat].queue
             /\ ss[chat].model = sess[chat].model
             /\ BaseModel(ss) \in Sessions
  <2>1. chat \in Sids
    BY <1>1, <1>7
  <2>2. ss \in Sessions /\ ss[chat].model = sess[chat].model
    BY <1>1, <2>1, FinishTurnIs
  <2>3. ss[chat].queue = sess[chat].queue
    <3>1. sess[chat] \in SessRec
      BY <1>1, <2>1 DEF Sessions
    <3> QED BY <1>1, <2>1, <3>1 DEF FinishTurn, Sessions, SessRec
  <2>4. BaseModel(ss) \in Sessions
    BY <2>1, <2>2, BaseModelIs
  <2> QED BY <2>1, <2>2, <2>3, <2>4
<1>8. CASE chat # 0 /\ EscOn /\ ss[chat].model > 0
  <2> DEFINE r == [turn[t] EXCEPT !.pc = "deesc"]
             p == AwaitRecreate(BaseModel(ss), turn, chat, t, r)
             z == [r EXCEPT !.fresh = chat]
  <2>1. sess' = p.sess /\ turn' = p.turn /\ timers' = timers
    BY <1>8 DEF Finish, Run
  <2>2. /\ r \in TurnRec /\ r.pc = "deesc" /\ r.sess = turn[t].sess /\ r.msg = m
        /\ r.parent = turn[t].parent
    BY <1>3 DEF TurnRec, Pcs
  <2> HIDE DEF r
  <2>3. BaseModel(ss) \in Sessions /\ chat \in Sids /\ ss[chat].model = sess[chat].model
    BY <1>7, <1>8
  <2> HIDE DEF ss
  <2>4. p.sess \in Sessions /\ p.sess[chat].queue = <<>> /\ Goes(turn, p.turn, t, z)
    BY <1>1, <2>2, <2>3, AwaitRecreateGoes
  <2>5. /\ z \in TurnRec /\ z.pc = "deesc" /\ z.sess = turn[t].sess /\ z.msg = m
        /\ z.parent = turn[t].parent /\ z.fresh \in Sids
    BY <2>2, <2>3 DEF TurnRec
  <2> HIDE DEF z, p
  <2>6. Held(z) /\ Goes(turn, turn', t, z)
    BY <1>3, <2>1, <2>4, <2>5 DEF Held
  <2>7. turn' \in Turns /\ \A u \in Tids : Held(turn'[u])
    BY <1>1, <2>6, GoesHeld
  <2>8. sess' \in Sessions /\ Waiting(sess', chat) = <<>>
    BY <1>8, <2>1, <2>4 DEF Waiting
  <2>9. Forms'
    BY <1>1, <1>2, <2>1, <2>7, <2>8 DEF Forms
  <2>10. Fewer(Waiting(sess, chat), timers, update.msg, unsent,
               Waiting(sess', chat), timers, update.msg, unsent)
    <3>1. Distinct(timers)
      BY TimersAre
    <3> QED BY <2>8, <3>1, FewerWait
  <2>11. ~In(m, Waiting(sess', chat)) /\ ~In(m, timers)
    BY <1>5, <1>8, <2>3, <2>8, EmptyIs DEF Serves
  <2>12. /\ turn'[t].pc \notin {"free", "nested"}
         /\ turn'[t].msg = turn[t].msg /\ turn'[t].parent = turn[t].parent
         /\ \A u \in Tids \ {t} : /\ turn'[u].msg = turn[u].msg
                                  /\ turn'[u].parent = turn[u].parent
                                  /\ turn'[u].pc = turn[u].pc /\ turn'[u].pc # "resumed"
    BY <1>4, <2>5, <2>6 DEF Goes
  <2>13. Once(turn', Waiting(sess', chat), timers, update.msg, unsent, Serves(sess', chat))
    BY <1>4, <2>10, <2>11, <2>12, OnceResumes DEF OnceInv
  <2> QED BY <1>2, <2>1, <2>9, <2>13 DEF OnceInv
<1>9. CASE chat # 0 /\ ~(EscOn /\ ss[chat].model > 0)
  <2>1. ServeQueue(ss, chat) /\ turn' = Ended(turn, t)
    BY <1>9 DEF Finish
  <2>2. /\ chat \in Sids /\ ss \in Sessions /\ Waiting(ss, chat) \in {Waiting(sess, chat), <<>>}
    BY <1>7, <1>9 DEF Waiting
  <2> HIDE DEF ss
  <2>3. /\ sess' \in Sessions /\ timers' \in Seq(Msgs)
        /\ Apart(Waiting(sess', chat), timers', update.msg, unsent)
        /\ \A u \in Msgs : In(u, Waiting(sess', chat)) \/ In(u, timers') =>
             In(u, Waiting(sess, chat)) \/ In(u, timers)
        /\ chat # 0 => sess'[chat].model = ss[chat].model
    BY <2>1, <2>2, ServeGoes
  <2>4. Serves(sess', chat)
    BY <1>9, <2>3 DEF Serves
  <2>5. \A u \in Msgs : In(u, Waiting(sess', chat)) \/ In(u, timers') =>
          In(u, Waiting(sess, chat)) \/ In(u, timers) \/ u = turn[t].msg
    BY <2>3
  <2> QED BY <1>2, <1>4, <2>1, <2>3, <2>4, <2>5, OneEnds
<1> QED BY <1>6, <1>8, <1>9

LEMMA DeescDoneOnce ==
  ASSUME OnceInv, NEW t \in Tids, DeescDone(t)
  PROVE  OnceInv'
<1> DEFINE back == RecreateEnd(sess, turn[t].fresh, Pick(FreeAgents))
<1>1. Forms /\ sess \in Sessions /\ Held(turn[t])
  BY DEF OnceInv, Forms
<1>2. /\ Quiet /\ turn[t].pc = "deesc" /\ UNCHANGED <<chat, update, unsent>>
      /\ turn' = Ended(turn, t)
  BY DEF DeescDone, At
<1>3. /\ turn[t].msg \in Msgs /\ ~In(turn[t].msg, timers)
      /\ ~In(turn[t].msg, Waiting(sess, chat))
  BY <1>2, HasMessage
<1>4. turn[t].fresh \in Sids
  BY <1>1, <1>2 DEF Held, Recreating
<1>5. PICK ss \in Sessions : /\ Waiting(ss, chat) = Waiting(sess, chat)
                             /\ ServeQueue(ss, turn[t].fresh)
  <2>1. CASE FreeAgents # {} /\ ServeQueue(back, turn[t].fresh)
    <3>1. Pick(FreeAgents) \in Agents
      BY <2>1, Picks
    <3>2. back \in Sessions /\ Waiting(back, chat) = Waiting(sess, chat)
      BY <1>1, <1>4, <3>1, RecreateEndWaits
    <3> QED BY <2>1, <3>2
  <2>2. CASE ServeQueue(sess, turn[t].fresh)
    BY <1>1, <2>2
  <2> QED BY <2>1, <2>2 DEF DeescDone
<1>6. /\ sess' \in Sessions /\ timers' \in Seq(Msgs)
      /\ Apart(Waiting(sess', chat), timers', update.msg, unsent)
      /\ \A u \in Msgs : In(u, Waiting(sess', chat)) \/ In(u, timers') =>
           In(u, Waiting(sess, chat)) \/ In(u, timers)
  BY <1>5, ServeGoes
<1>7. \A u \in Msgs : In(u, Waiting(sess', chat)) \/ In(u, timers') =>
        In(u, Waiting(sess, chat)) \/ In(u, timers) \/ u = turn[t].msg
  BY <1>6
<1>8. turn[t].pc \notin {"free", "nested"} /\ \A u \in Tids \ {t} : turn[u].pc # "resumed"
  BY <1>2 DEF Quiet
<1>9. In(turn[t].msg, timers') => Serves(sess', chat)
  BY <1>3, <1>6
<1> QED BY <1>2, <1>6, <1>7, <1>8, <1>9, OneEnds

LEMMA OnceInit == Init => OnceInv
<1> SUFFICES ASSUME Init PROVE OnceInv
  OBVIOUS
<1>1. NoSession \in SessRec
  <2>1. NewSession(0) \in SessRec
    BY NewSessionTyped
  <2> QED BY <2>1 DEF NoSession, SessRec
<1>2. UpdateForm(update)
  BY <1>1 DEF Init, NoUpdate, UpdateForm
<1>3. /\ sess \in Sessions /\ turn \in Turns /\ chat = 0 /\ timers = <<>> /\ unsent = Msgs
      /\ \A t \in Tids : turn[t].pc = "free" /\ turn[t] = NoTurn
  BY <1>1, NoTurnTyped DEF Init, Sessions, Turns
<1>4. \A t \in Tids : Held(turn[t])
  BY <1>3, NoTurnTyped DEF Held, Recreating
<1>5. Forms
  BY <1>2, <1>3, <1>4 DEF Forms
<1>6. InLine(turn)
  <2> DEFINE d == [t \in Tids |-> 0]
  <2>1. d \in [Tids -> Nat]
    OBVIOUS
  <2>2. Ranked(turn, d)
    BY <1>3 DEF Ranked
  <2> QED BY <2>1, <2>2 DEF InLine
<1>7. Apart(<<>>, <<>>, update.msg, unsent)
  BY EmptyIs, BotAssumption DEF Apart, Init, NoUpdate
<1>8. Alone(turn, <<>>, <<>>, update.msg, unsent, Serves(sess, chat))
  BY <1>3 DEF Alone
<1>9. Once(turn, Waiting(sess, chat), timers, update.msg, unsent, Serves(sess, chat))
  BY <1>3, <1>6, <1>7, <1>8 DEF Once, Waiting
<1> QED BY <1>5, <1>9 DEF OnceInv

LEMMA OnceNext ==
  ASSUME OnceInv, [Next]_vars
  PROVE  OnceInv'
<1>1. CASE UNCHANGED vars
  BY <1>1 DEF vars, OnceInv, Forms
<1>2. CASE UserStep \/ HandlerStep \/ Expire \/ TimerFires
  BY <1>2, UserOnce, HandlerOnce, ExpireOnce, TimerOnce
<1>3. ASSUME NEW t \in Tids, TurnStep(t)
      PROVE  OnceInv'
  BY <1>3, AskOnce, StartOnce, InitFailsOnce, BeginOnce, AutoEscalateOnce, AutoEscDoneOnce,
     FinishOnce, DeescDoneOnce DEF TurnStep, AskStep
<1>4. CASE GoesStale
  <2>1. sess[chat].inFlight /\ chat # 0 /\ Quiet
    BY <1>4 DEF GoesStale
  <2>2. /\ Forms /\ turn \in Turns /\ chat \in Sids \cup {0}
        /\ sess' = [sess EXCEPT ![chat].stale = TRUE] /\ turn' = turn
        /\ UNCHANGED <<chat, timers, update, unsent>>
    BY <1>4 DEF GoesStale, OnceInv, Forms
  <2>3. sess' \in Sessions /\ Waiting(sess', chat) \in {Waiting(sess, chat), <<>>}
    BY <2>2, StaleStands
  <2> QED BY <2>1, <2>2, <2>3, SameSame, SessionKeeps
<1>5. ASSUME NEW t \in Tids, WatchdogStep(t) \/ CompactionDone(t)
      PROVE  OnceInv'
  BY <1>5, WatchdogOnce
<1> QED BY <1>1, <1>2, <1>3, <1>4, <1>5 DEF Next

\* The invariant of all commands: the chat's queue, the restart timers, the update's handler
\* and the messages to come share no message, the turns of one message stand in a line, and
\* a message with a turn is nowhere else, but for one given back as its turn ended.
THEOREM EveryMessageOnce == Spec => []OnceInv
<1>1. Init => OnceInv
  BY OnceInit
<1>2. OnceInv /\ [Next]_vars => OnceInv'
  BY OnceNext
<1> QED BY <1>1, <1>2, PTL DEF Spec

\* Whatever the commands do to the session under a turn, and whichever calls fail: no
\* message is in two places, so none is worked on twice.
THEOREM WorkedOnOnce == Spec => []NoDuplicateWork
<1>1. OnceInv => NoDuplicateWork
  <2> SUFFICES ASSUME OnceInv, NEW m \in Msgs, NEW p \in Places(m), NEW q \in Places(m)
               PROVE  p = q
    BY DEF NoDuplicateWork
  <2> DEFINE held == \E t \in Live : turn[t].msg = m /\ turn[t].pc \notin {"nested", "resumed"}
  <2>1. \/ p = <<"unsent", 0>> /\ m \in unsent
        \/ p = <<"update", 0>> /\ update.msg = m
        \/ \E i \in DOMAIN Waiting(sess, chat) : p = <<"queue", i>> /\ Waiting(sess, chat)[i] = m
        \/ \E i \in DOMAIN timers : p = <<"timer", i>> /\ timers[i] = m
        \/ \E t \in Live : /\ p = <<"turn", t>> /\ turn[t].msg = m
                           /\ turn[t].pc \notin {"nested", "resumed"}
    BY DEF Places, Waiting
  <2>2. \/ q = <<"unsent", 0>> /\ m \in unsent
        \/ q = <<"update", 0>> /\ update.msg = m
        \/ \E i \in DOMAIN Waiting(sess, chat) : q = <<"queue", i>> /\ Waiting(sess, chat)[i] = m
        \/ \E i \in DOMAIN timers : q = <<"timer", i>> /\ timers[i] = m
        \/ \E t \in Live : /\ q = <<"turn", t>> /\ turn[t].msg = m
                           /\ turn[t].pc \notin {"nested", "resumed"}
    BY DEF Places, Waiting
  <2>3. /\ \A i, j \in DOMAIN Waiting(sess, chat) :
             Waiting(sess, chat)[i] = m /\ Waiting(sess, chat)[j] = m => i = j
        /\ \A i, j \in DOMAIN timers : timers[i] = m /\ timers[j] = m => i = j
        /\ In(m, Waiting(sess, chat)) => ~In(m, timers)
        /\ In(m, Waiting(sess, chat)) \/ In(m, timers) => m # update.msg /\ m \notin unsent
        /\ m = update.msg => m \notin unsent
    BY DEF OnceInv, Once, Apart, Distinct
  <2>4. ASSUME NEW t \in Live, turn[t].msg = m, turn[t].pc \notin {"nested", "resumed"}
        PROVE  /\ m \notin unsent /\ m # update.msg
               /\ ~In(m, Waiting(sess, chat)) /\ ~In(m, timers)
               /\ \A u \in Live : turn[u].msg = m /\ turn[u].pc \notin {"nested", "resumed"} =>
                    u = t
    <3>1. t \in Tids /\ turn[t].pc # "free"
      BY DEF Live
    <3>2. PICK d \in [Tids -> Nat] : Ranked(turn, d)
      BY DEF OnceInv, Once, InLine
    <3>3. ASSUME NEW u \in Tids, turn[u].pc # "free", turn[u].msg = m,
                 turn[u].pc # "nested"
          PROVE  u = t
      BY <2>4, <3>1, <3>2, <3>3 DEF Ranked
    <3>4. ~In(m, Waiting(sess, chat)) /\ ~In(m, timers)
      <4> SUFFICES ASSUME In(m, Waiting(sess, chat)) \/ In(m, timers) PROVE FALSE
        OBVIOUS
      <4>1. PICK r \in Tids : turn[r].pc = "resumed" /\ turn[r].msg = m
        BY <2>4, <3>1 DEF OnceInv, Once, Alone
      <4>2. r = t
        BY <3>3, <4>1
      <4> QED BY <2>4, <4>1, <4>2
    <3>5. m \notin unsent /\ m # update.msg
      BY <2>4, <3>1 DEF OnceInv, Once, Alone
    <3>6. \A u \in Live : turn[u].msg = m /\ turn[u].pc \notin {"nested", "resumed"} => u = t
      BY <3>3 DEF Live
    <3> QED BY <3>4, <3>5, <3>6
  <2>5. CASE held
    <3>1. PICK t \in Live : turn[t].msg = m /\ turn[t].pc \notin {"nested", "resumed"}
      BY <2>5
    <3>2. /\ m \notin unsent /\ m # update.msg
          /\ ~In(m, Waiting(sess, chat)) /\ ~In(m, timers)
          /\ \A u \in Live : turn[u].msg = m /\ turn[u].pc \notin {"nested", "resumed"} => u = t
      BY <2>4, <3>1
    <3>3. p = <<"turn", t>>
      BY <2>1, <3>2 DEF In
    <3>4. q = <<"turn", t>>
      BY <2>2, <3>2 DEF In
    <3> QED BY <3>3, <3>4
  <2>6. CASE ~held
    <3>1. CASE m \in unsent
      <4>1. p = <<"unsent", 0>>
        BY <2>1, <2>3, <2>6, <3>1 DEF In
      <4>2. q = <<"unsent", 0>>
        BY <2>2, <2>3, <2>6, <3>1 DEF In
      <4> QED BY <4>1, <4>2
    <3>2. CASE m = update.msg
      <4>1. p = <<"update", 0>>
        BY <2>1, <2>3, <2>6, <3>2 DEF In
      <4>2. q = <<"update", 0>>
        BY <2>2, <2>3, <2>6, <3>2 DEF In
      <4> QED BY <4>1, <4>2
    <3>3. CASE m \notin unsent /\ m # update.msg
      <4>1. \/ \E i \in DOMAIN Waiting(sess, chat) :
                 p = <<"queue", i>> /\ Waiting(sess, chat)[i] = m
            \/ \E i \in DOMAIN timers : p = <<"timer", i>> /\ timers[i] = m
        BY <2>1, <2>6, <3>3
      <4>2. \/ \E i \in DOMAIN Waiting(sess, chat) :
                 q = <<"queue", i>> /\ Waiting(sess, chat)[i] = m
            \/ \E i \in DOMAIN timers : q = <<"timer", i>> /\ timers[i] = m
        BY <2>2, <2>6, <3>3
      <4> QED BY <2>3, <4>1, <4>2 DEF In
    <3> QED BY <3>1, <3>2, <3>3
  <2> QED BY <2>5, <2>6
<1> QED BY <1>1, EveryMessageOnce, PTL

=============================================================================
