------------------------ MODULE DiscordTurns_proofs -------------------------
(***************************************************************************)
(* For any number of messages, sessions and commands, and every limit of   *)
(* the Discord bot: the finally block of an older turn, which may come at  *)
(* any time, does not end a newer turn of the session.                     *)
(***************************************************************************)
EXTENDS DiscordTurns, SequenceTheorems, TLAPS

\* Where a message has a session.
Sitting == Turning \cup {"finally", "restoring", "queued", "timer"}
Where == Sitting \cup {"new", "creating", "done", "lost"}

Session ==
  [inFlight : BOOLEAN, state : {"idle", "running", "canceling", "resetting"},
   queue : Seq(Messages), last : (Messages \cup {0}) \X Nat, asker : Messages \cup {0},
   tier : 0..Tiers, escalations : Nat, pending : 0..Tiers, compactions : Nat,
   begun : BOOLEAN]
Seat == [of : 0..Objects, depth : Nat, aborted : BOOLEAN, compacting : BOOLEAN]

Sessions == [1..Objects -> Session]
Seats == [Messages -> Seat]
Waits == [Messages -> Where]

Seated(p, t) == \A u \in Messages : p[u] \in Sitting => t[u].of # 0

\* A message stands in the queue of its session only, and there once.
QueueOf(o, q, p, t) ==
  /\ \A i \in DOMAIN q : p[q[i]] = "queued" /\ t[q[i]].of = o
  /\ \A i, j \in DOMAIN q : q[i] = q[j] => i = j

Own(ob, p, t) ==
  \A u \in Messages :
    p[u] \in Turning /\ ob[t[u].of].last = <<u, t[u].depth>> /\ ob[t[u].of].begun
      => ob[t[u].of].inFlight

Good(ob, p, t) ==
  /\ ob \in Sessions /\ p \in Waits /\ t \in Seats
  /\ Seated(p, t) /\ \A o \in 1..Objects : QueueOf(o, ob[o].queue, p, t)
  /\ Own(ob, p, t)

\* The inductive invariant.
DiscordInv ==
  /\ Good(object, pc, turn)
  /\ here \in 0..Objects /\ made \in 0..Objects
  /\ remaking \in [1..Objects -> Nat] /\ commands \in Nat /\ failed \in BOOLEAN

-----------------------------------------------------------------------------
(* What a step does to the session o, to where messages wait, and to their turns *)

\* The session keeps its last turn, unless its AgentSession is made anew.
Keeps(ob, new) ==
  new.begun => ob.begun /\ new.last = ob.last /\ new.inFlight = ob.inFlight

\* Turns are told something, but stay in their sessions.
SameSeats(t) == \A u \in Messages : t[u].of = turn[u].of /\ t[u].depth = turn[u].depth

LEMMA Step ==
  ASSUME DiscordInv, NEW o \in 1..Objects, NEW new \in Session, NEW p \in Waits,
         NEW t \in Seats, Seated(p, t), QueueOf(o, new.queue, p, t),
         \A u \in Messages : pc[u] = "queued" /\ turn[u].of # o =>
                               p[u] = "queued" /\ t[u].of = turn[u].of,
         \A u \in Messages : p[u] \in Turning =>
           \/ t[u].of = o /\ new.inFlight
           \/ /\ pc[u] \in Turning /\ t[u].of = turn[u].of /\ t[u].depth = turn[u].depth
              /\ t[u].of = o /\ new.begun /\ new.last = Id(u) =>
                   object[o].begun /\ object[o].last = Id(u) /\ (object[o].inFlight => new.inFlight)
  PROVE  Good([object EXCEPT ![o] = new], p, t)
<1> DEFINE ob == [object EXCEPT ![o] = new]
<1>1. object \in Sessions
  BY DEF DiscordInv, Good
<1>2. ob \in Sessions /\ ob[o] = new /\ \A q \in 1..Objects \ {o} : ob[q] = object[q]
  BY <1>1 DEF Sessions
<1> HIDE DEF ob
<1>3. ASSUME NEW q \in 1..Objects PROVE QueueOf(q, ob[q].queue, p, t)
  <2>1. CASE q = o
    BY <1>2, <2>1
  <2>2. CASE q # o
    <3>1. QueueOf(q, object[q].queue, pc, turn) /\ ob[q] = object[q]
      BY <1>2, <2>2 DEF DiscordInv, Good
    <3>2. object[q].queue \in Seq(Messages)
      BY <1>1 DEF Sessions, Session
    <3>3. ASSUME NEW i \in DOMAIN object[q].queue
          PROVE  p[object[q].queue[i]] = "queued" /\ t[object[q].queue[i]].of = q
      <4>1. object[q].queue[i] \in Messages
        BY <3>2
      <4>2. pc[object[q].queue[i]] = "queued" /\ turn[object[q].queue[i]].of = q
        BY <3>1 DEF QueueOf
      <4> QED BY <2>2, <4>1, <4>2
    <3> QED BY <3>1, <3>3 DEF QueueOf
  <2> QED BY <2>1, <2>2
<1>4. ASSUME NEW u \in Messages, p[u] \in Turning, ob[t[u].of].last = <<u, t[u].depth>>,
             ob[t[u].of].begun
      PROVE  ob[t[u].of].inFlight
  <2>1. CASE t[u].of = o /\ new.inFlight
    BY <1>2, <2>1
  <2>2. CASE /\ pc[u] \in Turning /\ t[u].of = turn[u].of /\ t[u].depth = turn[u].depth
             /\ t[u].of = o /\ new.begun /\ new.last = Id(u) =>
                  object[o].begun /\ object[o].last = Id(u) /\ (object[o].inFlight => new.inFlight)
    <3>1. turn[u].of \in 1..Objects
      <4>1. turn[u].of \in 0..Objects /\ turn[u].of # 0
        BY <2>2 DEF DiscordInv, Good, Seated, Sitting, Seats, Seat
      <4>2. Objects \in Nat
        BY DiscordAssumption
      <4> QED BY <4>1, <4>2
    <3>2. Id(u) = <<u, turn[u].depth>>
      BY DEF Id
    <3>3. object[turn[u].of].last = Id(u) /\ object[turn[u].of].begun
            => object[turn[u].of].inFlight
      BY <2>2, <3>2 DEF DiscordInv, Good, Own
    <3>4. CASE turn[u].of = o
      BY <1>2, <1>4, <2>2, <3>2, <3>3, <3>4
    <3>5. CASE turn[u].of # o
      BY <1>2, <1>4, <2>2, <3>1, <3>2, <3>3, <3>5
    <3> QED BY <3>4, <3>5
  <2> QED BY <1>4, <2>1, <2>2
<1>5. Own(ob, p, t)
  BY <1>4 DEF Own
<1>6. Good(ob, p, t)
  BY <1>2, <1>3, <1>5 DEF Good
<1> QED BY <1>6 DEF ob

\* Turns go on in their session.
LEMMA GoesOn ==
  ASSUME DiscordInv, NEW o \in 1..Objects, NEW new \in Session, Keeps(object[o], new),
         NEW p \in Waits, NEW t \in Seats, SameSeats(t),
         \A u \in Messages : /\ p[u] \in Turning => pc[u] \in Turning
                             /\ p[u] \in Sitting => pc[u] \in Sitting
                             /\ pc[u] = "queued" /\ turn[u].of # o => p[u] = "queued",
         \/ new.queue = <<>>
         \/ /\ new.queue = object[o].queue
            /\ \A u \in Messages : pc[u] = "queued" => p[u] = "queued"
  PROVE  Good([object EXCEPT ![o] = new], p, t)
<1>1. Seated(p, t)
  BY DEF Seated, SameSeats, DiscordInv, Good
<1>2. QueueOf(o, new.queue, p, t)
  <2>1. CASE new.queue = <<>>
    BY <2>1 DEF QueueOf
  <2>2. CASE /\ new.queue = object[o].queue
             /\ \A u \in Messages : pc[u] = "queued" => p[u] = "queued"
    <3>1. QueueOf(o, object[o].queue, pc, turn) /\ object[o].queue \in Seq(Messages)
      BY DEF DiscordInv, Good, Sessions, Session
    <3>2. \A i \in DOMAIN object[o].queue : object[o].queue[i] \in Messages
      BY <3>1
    <3> QED BY <2>2, <3>1, <3>2 DEF QueueOf, SameSeats
  <2> QED BY <2>1, <2>2
<1>3. ASSUME NEW u \in Messages, p[u] \in Turning
      PROVE  /\ pc[u] \in Turning /\ t[u].of = turn[u].of /\ t[u].depth = turn[u].depth
             /\ t[u].of = o /\ new.begun /\ new.last = Id(u) =>
                  object[o].begun /\ object[o].last = Id(u) /\ (object[o].inFlight => new.inFlight)
  BY <1>3 DEF Keeps, SameSeats
<1>4. \A u \in Messages : pc[u] = "queued" /\ turn[u].of # o =>
                            p[u] = "queued" /\ t[u].of = turn[u].of
  BY DEF SameSeats
<1> QED BY <1>1, <1>2, <1>3, <1>4, Step

\* No session changes.
LEMMA GoesOnAlone ==
  ASSUME DiscordInv, NEW p \in Waits, NEW t \in Seats, SameSeats(t),
         \A u \in Messages : /\ p[u] \in Turning => pc[u] \in Turning
                             /\ p[u] \in Sitting => pc[u] \in Sitting
                             /\ pc[u] = "queued" => p[u] = "queued"
  PROVE  Good(object, p, t)
<1>1. Seated(p, t)
  BY DEF Seated, SameSeats, DiscordInv, Good
<1>2. ASSUME NEW o \in 1..Objects PROVE QueueOf(o, object[o].queue, p, t)
  <2>1. QueueOf(o, object[o].queue, pc, turn) /\ object[o].queue \in Seq(Messages)
    BY DEF DiscordInv, Good, Sessions, Session
  <2>2. \A i \in DOMAIN object[o].queue : object[o].queue[i] \in Messages
    BY <2>1
  <2> QED BY <2>1, <2>2 DEF QueueOf, SameSeats
<1>3. Own(object, p, t)
  BY DEF Own, SameSeats, DiscordInv, Good
<1> QED BY <1>1, <1>2, <1>3 DEF Good, DiscordInv

LEMMA AbortedIs ==
  ASSUME DiscordInv, NEW o \in 1..Objects
  PROVE  Aborted(o) \in Seats /\ SameSeats(Aborted(o)) /\ turn \in Seats /\ SameSeats(turn)
<1>1. turn \in Seats /\ object[o].asker \in Messages \cup {0}
  BY DEF DiscordInv, Good, Sessions, Session
<1>2. SameSeats(turn)
  BY DEF SameSeats
<1>3. ASSUME NEW a \in Messages
      PROVE  /\ [turn EXCEPT ![a].aborted = TRUE] \in Seats
             /\ SameSeats([turn EXCEPT ![a].aborted = TRUE])
  BY <1>1 DEF Seats, Seat, SameSeats
<1> QED BY <1>1, <1>2, <1>3 DEF Aborted

LEMMA LoseIs ==
  ASSUME DiscordInv, NEW o \in 1..Objects
  PROVE  /\ Lose(Dropped(o), pc) \in Waits
         /\ \A u \in Messages :
              /\ Lose(Dropped(o), pc)[u] \in {pc[u], "lost"}
              /\ pc[u] = "queued" /\ turn[u].of # o => Lose(Dropped(o), pc)[u] = "queued"
              /\ pc[u] # "queued" => Lose(Dropped(o), pc)[u] = pc[u]
<1>1. pc \in Waits /\ QueueOf(o, object[o].queue, pc, turn)
  BY DEF DiscordInv, Good
<1>2. Lose(Dropped(o), pc) \in Waits
  BY <1>1 DEF Lose, Waits, Where
<1>3. \A u \in Dropped(o) : pc[u] = "queued" /\ turn[u].of = o
  BY <1>1 DEF Dropped, ToSet, QueueOf
<1> QED BY <1>2, <1>3 DEF Lose

\* The place of one message.
LEMMA PlaceIs ==
  ASSUME NEW p \in Waits, NEW m \in Messages, NEW w \in Where
  PROVE  /\ [p EXCEPT ![m] = w] \in Waits /\ [p EXCEPT ![m] = w][m] = w
         /\ \A u \in Messages \ {m} : [p EXCEPT ![m] = w][u] = p[u]
BY DEF Waits

LEMMA SeatIs ==
  ASSUME NEW t \in Seats, NEW m \in Messages, NEW s \in Seat
  PROVE  /\ [t EXCEPT ![m] = s] \in Seats /\ [t EXCEPT ![m] = s][m] = s
         /\ \A u \in Messages \ {m} : [t EXCEPT ![m] = s][u] = t[u]
BY DEF Seats

-----------------------------------------------------------------------------
(* Sessions *)

LEMMA RemadeIs ==
  ASSUME NEW ob \in Sessions, NEW o \in 1..Objects, object = ob
  PROVE  /\ Remade(o) \in Session /\ ~Remade(o).inFlight /\ Remade(o).state = "idle"
         /\ Remade(o).queue = object[o].queue /\ Keeps(object[o], Remade(o))
         /\ ~Remade(o).begun /\ Remade(o).asker = 0
<1>1. object[o] \in Session
  BY DEF Sessions
<1> QED BY <1>1 DEF Remade, Session, Keeps

LEMMA BegunIs ==
  ASSUME NEW ob \in Session, NEW id \in Messages \X Nat
  PROVE  /\ Begun(ob, id) \in Session /\ Begun(ob, id).inFlight
         /\ Begun(ob, id).queue = ob.queue /\ Begun(ob, id).last = id
         /\ Begun(ob, id).tier = ob.tier /\ Begun(ob, id).pending = ob.pending
<1>1. id \in (Messages \cup {0}) \X Nat
  OBVIOUS
<1> QED BY <1>1 DEF Begun, Session

LEMMA RaisedIs ==
  ASSUME NEW ob \in Session, NEW tier \in 0..Tiers, NEW n \in 0..Tiers
  PROVE  /\ Raised(ob, tier) \in Session /\ Raised(ob, tier).queue = <<>>
         /\ Raised(ob, tier).inFlight = ob.inFlight /\ Raised(ob, tier).last = ob.last
         /\ Raised(ob, tier).begun = ob.begun
         /\ [Raised(ob, tier) EXCEPT !.pending = n] \in Session
         /\ [Raised(ob, tier) EXCEPT !.pending = n].queue = <<>>
         /\ [Raised(ob, tier) EXCEPT !.pending = n].inFlight = ob.inFlight
         /\ [Raised(ob, tier) EXCEPT !.pending = n].last = ob.last
         /\ [Raised(ob, tier) EXCEPT !.pending = n].begun = ob.begun
<1> DEFINE e == IF ob.escalations < MaxEscalations THEN ob.escalations + 1 ELSE ob.escalations
<1>1. e \in Nat
  <2>1. ob.escalations \in Nat
    BY DEF Session
  <2> QED BY <2>1
<1>2. Raised(ob, tier) = [ob EXCEPT !.tier = tier, !.queue = <<>>, !.state = "resetting",
                                    !.escalations = e]
  BY DEF Raised, Session
<1> HIDE DEF e
<1>3. /\ Raised(ob, tier) \in Session /\ Raised(ob, tier).queue = <<>>
      /\ Raised(ob, tier).inFlight = ob.inFlight /\ Raised(ob, tier).last = ob.last
      /\ Raised(ob, tier).begun = ob.begun
  <2>1. <<>> \in Seq(Messages)
    OBVIOUS
  <2> QED BY <1>1, <1>2, <2>1 DEF Session
<1> QED BY <1>3 DEF Session

-----------------------------------------------------------------------------
(* Turns begin *)

LEMMA StartTurnGoes ==
  ASSUME DiscordInv, NEW m \in Messages, pc[m] # "queued", NEW o \in 1..Objects,
         NEW ob \in Session, QueueOf(o, ob.queue, pc, turn), NEW t \in Seat,
         NEW steps \in SUBSET {"placeholder", "pending", "keyword"},
         StartTurn(m, o, ob, t, steps)
  PROVE  Good(object', pc', turn')
<1> DEFINE begun == Begun(ob, <<m, t.depth>>)
           s     == [t EXCEPT !.of = o, !.aborted = FALSE, !.compacting = FALSE]
           tt    == [turn EXCEPT ![m] = s]
<1>1. /\ pc \in Waits /\ turn \in Seats /\ t.depth \in Nat /\ ob.queue \in Seq(Messages)
      /\ Tiers \in Nat
  BY DiscordAssumption DEF DiscordInv, Good, Seat, Session
<1>2. /\ begun \in Session /\ begun.inFlight /\ begun.queue = ob.queue
      /\ begun.last = <<m, t.depth>> /\ begun.tier = ob.tier /\ begun.pending = ob.pending
  BY <1>1, BegunIs
<1>3. s \in Seat /\ s.of = o
  <2>1. o \in 0..Objects
    BY DiscordAssumption
  <2> QED BY <2>1 DEF Seat
<1>4. PICK next \in steps :
        /\ turn' = tt
        /\ CASE next = "placeholder" -> object' = [object EXCEPT ![o] = begun]
             [] next = "pending" ->
                  object' = [object EXCEPT ![o] =
                               [Raised(begun, begun.pending) EXCEPT !.pending = 0]]
             [] next = "keyword" ->
                  \E tier \in begun.tier + 1 .. Tiers :
                    object' = [object EXCEPT ![o] = Raised(begun, tier)]
        /\ pc' = [IF next = "placeholder" THEN pc ELSE Lose(ToSet(ob.queue), pc)
                    EXCEPT ![m] = next]
  BY DEF StartTurn
<1> HIDE DEF begun, s
<1>5. /\ tt \in Seats /\ tt[m].of = o /\ tt[m].of # 0
      /\ \A u \in Messages \ {m} : tt[u] = turn[u]
  BY <1>1, <1>3, SeatIs
<1> HIDE DEF tt
<1>6. next \in Turning /\ next \in Sitting /\ next \in Where
  BY DEF Turning, Sitting, Where
<1> DEFINE before == IF next = "placeholder" THEN pc ELSE Lose(ToSet(ob.queue), pc)
<1>7. /\ before \in Waits
      /\ \A u \in Messages :
           /\ before[u] \in {pc[u], "lost"}
           /\ pc[u] = "queued" /\ turn[u].of # o => before[u] = "queued"
  <2>1. \A u \in ToSet(ob.queue) : pc[u] = "queued" /\ turn[u].of = o
    BY DEF ToSet, QueueOf
  <2>2. Lose(ToSet(ob.queue), pc) \in Waits
    BY <1>1 DEF Lose, Waits, Where
  <2>3. \A u \in Messages :
           /\ Lose(ToSet(ob.queue), pc)[u] \in {pc[u], "lost"}
           /\ pc[u] = "queued" /\ turn[u].of # o => Lose(ToSet(ob.queue), pc)[u] = "queued"
    BY <2>1 DEF Lose
  <2> QED BY <1>1, <2>2, <2>3
<1>8. pc' = [before EXCEPT ![m] = next]
  BY <1>4
<1>9. next = "placeholder" => before = pc
  OBVIOUS
<1> HIDE DEF before
<1>10. /\ pc' \in Waits /\ pc'[m] = next /\ \A u \in Messages \ {m} : pc'[u] = before[u]
  <2>1. before \in Waits /\ next \in Where
    BY <1>6, <1>7
  <2>2. [before EXCEPT ![m] = next] \in Waits
    BY <2>1 DEF Waits
  <2>3. [before EXCEPT ![m] = next][m] = next
    BY <2>1 DEF Waits
  <2>4. ASSUME NEW u \in Messages \ {m}
        PROVE  [before EXCEPT ![m] = next][u] = before[u]
    BY <2>1, <2>4 DEF Waits
  <2> QED BY <1>8, <2>2, <2>3, <2>4
<1>11. PICK new \in Session :
         /\ object' = [object EXCEPT ![o] = new] /\ new.inFlight /\ new.last = <<m, t.depth>>
         /\ \/ new.queue = <<>>
            \/ next = "placeholder" /\ new.queue = ob.queue
  <2>1. CASE next = "placeholder"
    BY <1>2, <1>4, <2>1
  <2>2. CASE next = "pending"
    <3>1. begun.pending \in 0..Tiers /\ 0 \in 0..Tiers
      BY <1>1, <1>2 DEF Session
    <3>2. object' = [object EXCEPT ![o] = [Raised(begun, begun.pending) EXCEPT !.pending = 0]]
      BY <1>4, <2>2
    <3> DEFINE r == [Raised(begun, begun.pending) EXCEPT !.pending = 0]
    <3>3. r \in Session /\ r.queue = <<>> /\ r.inFlight /\ r.last = <<m, t.depth>>
      BY <1>2, <3>1, RaisedIs
    <3> HIDE DEF r
    <3>4. object' = [object EXCEPT ![o] = r]
      BY <3>2 DEF r
    <3> QED BY <3>3, <3>4
  <2>3. CASE next = "keyword"
    <3>1. PICK tier \in begun.tier + 1 .. Tiers : object' = [object EXCEPT ![o] = Raised(begun, tier)]
      BY <1>4, <2>3
    <3>2. tier \in 0..Tiers /\ 0 \in 0..Tiers
      <4>1. begun.tier \in Nat
        BY <1>1, <1>2 DEF Session
      <4> QED BY <1>1, <4>1
    <3>3. /\ Raised(begun, tier) \in Session /\ Raised(begun, tier).queue = <<>>
          /\ Raised(begun, tier).inFlight /\ Raised(begun, tier).last = <<m, t.depth>>
      BY <1>2, <3>2, RaisedIs
    <3> QED BY <3>1, <3>3
  <2> QED BY <1>6, <2>1, <2>2, <2>3
<1>12. Seated(pc', tt)
  <2>1. ASSUME NEW u \in Messages \ {m}, pc'[u] \in Sitting PROVE tt[u].of # 0
    <3>1. pc[u] \in Sitting
      BY <1>7, <1>10, <2>1 DEF Sitting, Turning
    <3> QED BY <1>5, <3>1 DEF DiscordInv, Good, Seated
  <2> QED BY <1>5, <2>1 DEF Seated
<1>13. QueueOf(o, new.queue, pc', tt)
  <2>1. CASE new.queue = <<>>
    BY <2>1 DEF QueueOf
  <2>2. CASE next = "placeholder" /\ new.queue = ob.queue
    <3>1. ASSUME NEW i \in DOMAIN ob.queue
          PROVE  pc'[ob.queue[i]] = "queued" /\ tt[ob.queue[i]].of = o
      <4>1. ob.queue[i] \in Messages /\ pc[ob.queue[i]] = "queued" /\ turn[ob.queue[i]].of = o
        BY <1>1 DEF QueueOf
      <4>2. ob.queue[i] \in Messages \ {m}
        BY <4>1
      <4>3. before[ob.queue[i]] = "queued"
        BY <1>9, <2>2, <4>1
      <4> QED BY <1>5, <1>10, <4>1, <4>2, <4>3
    <3> QED BY <2>2, <3>1 DEF QueueOf
  <2> QED BY <1>11, <2>1, <2>2
<1>14. \A u \in Messages : pc[u] = "queued" /\ turn[u].of # o =>
                            pc'[u] = "queued" /\ tt[u].of = turn[u].of
  BY <1>5, <1>7, <1>10
<1>15. ASSUME NEW u \in Messages, pc'[u] \in Turning
       PROVE  \/ tt[u].of = o /\ new.inFlight
              \/ /\ pc[u] \in Turning /\ tt[u].of = turn[u].of /\ tt[u].depth = turn[u].depth
                 /\ tt[u].of = o /\ new.begun /\ new.last = Id(u) =>
                      /\ object[o].begun /\ object[o].last = Id(u)
                      /\ object[o].inFlight => new.inFlight
  <2>1. CASE u = m
    BY <1>5, <1>11, <2>1
  <2>2. CASE u # m
    <3>1. pc[u] \in Turning /\ tt[u] = turn[u]
      BY <1>5, <1>7, <1>10, <1>15, <2>2 DEF Turning
    <3>2. new.last # Id(u)
      BY <1>11, <2>2 DEF Id
    <3> QED BY <3>1, <3>2
  <2> QED BY <2>1, <2>2
<1>16. Good([object EXCEPT ![o] = new], pc', tt)
  BY <1>5, <1>10, <1>12, <1>13, <1>14, <1>15, Step
<1> QED BY <1>4, <1>11, <1>16

LEMMA FirstStepsAre ==
  ASSUME NEW ob
  PROVE  /\ Onward(ob) \in SUBSET {"placeholder", "pending", "keyword"}
         /\ FirstSteps(ob) \in SUBSET {"placeholder", "pending", "keyword"}
BY DEF FirstSteps, Onward

LEMMA NoTurnTyped ==
  NoTurn \in Seat /\ NoTurn.of = 0
BY DiscordAssumption DEF NoTurn, Seat

\* A message that comes to its session.
LEMMA DispatchGoes ==
  ASSUME DiscordInv, NEW m \in Messages, pc[m] \in {"new", "creating"}, NEW o \in 1..Objects,
         NEW ob \in Session, QueueOf(o, ob.queue, pc, turn), Keeps(object[o], ob),
         ob.queue = <<>> \/ ob.queue = object[o].queue, Dispatch(m, o, ob)
  PROVE  Good(object', pc', turn')
<1>1. /\ pc \in Waits /\ turn \in Seats /\ ob.queue \in Seq(Messages) /\ SameSeats(turn)
      /\ pc[m] \notin Sitting /\ pc[m] # "queued"
  BY DEF DiscordInv, Good, Session, SameSeats, Sitting, Turning
<1> DEFINE lost == [pc EXCEPT ![m] = "lost"]
           s    == [turn[m] EXCEPT !.of = o]
           tt   == [turn EXCEPT ![m] = s]
<1>2. /\ lost \in Waits /\ lost[m] = "lost" /\ \A u \in Messages \ {m} : lost[u] = pc[u]
  BY <1>1, PlaceIs DEF Where
<1>3. s \in Seat /\ s.of = o /\ s.of # 0
  BY <1>1, DiscordAssumption DEF Seat, Seats
<1>4. [turn EXCEPT ![m].of = o] = tt
  BY <1>1 DEF Seats
<1> HIDE DEF s
<1>5. tt \in Seats /\ tt[m] = s /\ \A u \in Messages \ {m} : tt[u] = turn[u]
  BY <1>1, <1>3, SeatIs
<1> HIDE DEF lost, tt
<1>6. \A u \in Messages : lost[u] = "lost" \/ lost[u] = pc[u]
  BY <1>2
<1>7. \A u \in Messages : pc[u] = "queued" => lost[u] = "queued"
  BY <1>1, <1>2
<1>8. CASE ob.inFlight /\ Len(ob.queue) >= MaxQueue
  <2>1. pc' = lost /\ object' = [object EXCEPT ![o] = ob] /\ turn' = tt
    BY <1>4, <1>8 DEF Dispatch, Go, lost
  <2>2. Seated(lost, tt)
    BY <1>2, <1>5 DEF Seated, DiscordInv, Good, Sitting, Turning
  <2>3. QueueOf(o, ob.queue, lost, tt)
    <3>1. ASSUME NEW i \in DOMAIN ob.queue
          PROVE  lost[ob.queue[i]] = "queued" /\ tt[ob.queue[i]].of = o
      <4>1. ob.queue[i] \in Messages /\ pc[ob.queue[i]] = "queued" /\ turn[ob.queue[i]].of = o
        BY <1>1 DEF QueueOf
      <4> QED BY <1>1, <1>5, <1>7, <4>1
    <3> QED BY <3>1 DEF QueueOf
  <2>4. \A u \in Messages : pc[u] = "queued" /\ turn[u].of # o =>
                              lost[u] = "queued" /\ tt[u].of = turn[u].of
    BY <1>1, <1>5, <1>7
  <2>5. ASSUME NEW u \in Messages, lost[u] \in Turning
        PROVE  /\ pc[u] \in Turning /\ tt[u].of = turn[u].of /\ tt[u].depth = turn[u].depth
               /\ tt[u].of = o /\ ob.begun /\ ob.last = Id(u) =>
                    object[o].begun /\ object[o].last = Id(u) /\ (object[o].inFlight => ob.inFlight)
    <3>1. u # m /\ pc[u] \in Turning
      BY <1>2, <1>6, <2>5 DEF Turning
    <3> QED BY <1>5, <3>1 DEF Keeps
  <2>6. Good([object EXCEPT ![o] = ob], lost, tt)
    BY <1>2, <1>5, <2>2, <2>3, <2>4, <2>5, Step
  <2> QED BY <2>1, <2>6
<1>9. CASE ob.inFlight /\ ~(Len(ob.queue) >= MaxQueue)
  <2> DEFINE q == [ob EXCEPT !.queue = Append(@, m)]
             p == [pc EXCEPT ![m] = "queued"]
  <2>1. pc' = p /\ object' = [object EXCEPT ![o] = q] /\ turn' = tt
    BY <1>4, <1>9 DEF Dispatch, Go
  <2>2. /\ Append(ob.queue, m) \in Seq(Messages)
        /\ Len(Append(ob.queue, m)) = Len(ob.queue) + 1
        /\ \A i \in 1..Len(ob.queue) : Append(ob.queue, m)[i] = ob.queue[i]
        /\ Append(ob.queue, m)[Len(ob.queue) + 1] = m
    BY <1>1, AppendProperties
  <2>3. /\ q \in Session /\ q.queue = Append(ob.queue, m) /\ q.inFlight = ob.inFlight
        /\ q.begun = ob.begun /\ q.last = ob.last
    BY <2>2 DEF Session
  <2> HIDE DEF q
  <2>4. /\ p \in Waits /\ p[m] = "queued" /\ \A u \in Messages \ {m} : p[u] = pc[u]
    BY <1>1, PlaceIs DEF Where, Sitting
  <2> HIDE DEF p
  <2>5. Seated(p, tt)
    BY <1>3, <1>5, <2>4 DEF Seated, DiscordInv, Good
  <2>6. QueueOf(o, q.queue, p, tt)
    <3>1. /\ DOMAIN q.queue = 1..(Len(ob.queue) + 1) /\ Len(ob.queue) \in Nat
          /\ DOMAIN ob.queue = 1..Len(ob.queue)
      BY <1>1, <2>2, <2>3
    <3>2. ASSUME NEW i \in 1..Len(ob.queue)
          PROVE  /\ ob.queue[i] \in Messages \ {m} /\ pc[ob.queue[i]] = "queued"
                 /\ turn[ob.queue[i]].of = o /\ q.queue[i] = ob.queue[i]
      <4>1. ob.queue[i] \in Messages /\ pc[ob.queue[i]] = "queued" /\ turn[ob.queue[i]].of = o
        BY <1>1, <3>1 DEF QueueOf
      <4> QED BY <1>1, <2>2, <2>3, <4>1
    <3>3. q.queue[Len(ob.queue) + 1] = m
      BY <2>2, <2>3
    <3>4. ASSUME NEW i \in DOMAIN q.queue
          PROVE  p[q.queue[i]] = "queued" /\ tt[q.queue[i]].of = o
      <4>1. CASE i \in 1..Len(ob.queue)
        BY <1>5, <2>4, <3>2, <4>1
      <4>2. CASE i = Len(ob.queue) + 1
        BY <1>3, <1>5, <2>4, <3>3, <4>2
      <4> QED BY <3>1, <4>1, <4>2
    <3>5. ASSUME NEW i \in DOMAIN q.queue, NEW j \in DOMAIN q.queue, q.queue[i] = q.queue[j]
          PROVE  i = j
      <4>1. CASE i \in 1..Len(ob.queue) /\ j \in 1..Len(ob.queue)
        BY <3>1, <3>2, <3>5, <4>1 DEF QueueOf
      <4>2. CASE i = Len(ob.queue) + 1 /\ j \in 1..Len(ob.queue)
        BY <3>2, <3>3, <3>5, <4>2
      <4>3. CASE i \in 1..Len(ob.queue) /\ j = Len(ob.queue) + 1
        BY <3>2, <3>3, <3>5, <4>3
      <4> QED BY <3>1, <4>1, <4>2, <4>3
    <3> QED BY <3>4, <3>5 DEF QueueOf
  <2>7. \A u \in Messages : pc[u] = "queued" /\ turn[u].of # o =>
                              p[u] = "queued" /\ tt[u].of = turn[u].of
    BY <1>1, <1>5, <2>4
  <2>8. ASSUME NEW u \in Messages, p[u] \in Turning
        PROVE  /\ pc[u] \in Turning /\ tt[u].of = turn[u].of /\ tt[u].depth = turn[u].depth
               /\ tt[u].of = o /\ q.begun /\ q.last = Id(u) =>
                    object[o].begun /\ object[o].last = Id(u) /\ (object[o].inFlight => q.inFlight)
    <3>1. u # m /\ pc[u] \in Turning
      BY <2>4, <2>8 DEF Turning
    <3> QED BY <1>5, <2>3, <3>1 DEF Keeps
  <2>9. Good([object EXCEPT ![o] = q], p, tt)
    BY <1>5, <2>3, <2>4, <2>5, <2>6, <2>7, <2>8, Step
  <2> QED BY <2>1, <2>9
<1>10. CASE ~ob.inFlight /\ MayBegin(ob)
  BY <1>1, <1>10, StartTurnGoes, NoTurnTyped, FirstStepsAre DEF Dispatch
<1>11. CASE ~ob.inFlight /\ ~MayBegin(ob)
  <2>1. pc' = lost /\ object' = [object EXCEPT ![o] = ob] /\ turn' = turn
    BY <1>11 DEF Dispatch, Go, lost
  <2>2. Good([object EXCEPT ![o] = ob], lost, turn)
    BY <1>1, <1>2, <1>6, <1>7, GoesOn DEF Sitting, Turning
  <2> QED BY <2>1, <2>2
<1> QED BY <1>8, <1>9, <1>10, <1>11
-----------------------------------------------------------------------------
(* The finally block *)

\* m's turn leaves the session o as `new`, as far as the other turns can tell.
LeavesTo(m, o, new) ==
  \A u \in Messages \ {m} :
    new.begun /\ new.last = Id(u) =>
      object[o].begun /\ object[o].last = Id(u) /\ (object[o].inFlight => new.inFlight)

LEMMA FinishedIs ==
  ASSUME DiscordInv, NEW m \in Messages, turn[m].of \in 1..Objects
  PROVE  /\ Finished(m) \in Session /\ Finished(m).queue = object[turn[m].of].queue
         /\ LeavesTo(m, turn[m].of, Finished(m))
<1> DEFINE ob == object[turn[m].of]
<1>1. ob \in Session
  BY DEF DiscordInv, Good, Sessions
<1> DEFINE f == [ob EXCEPT !.inFlight = FALSE, !.state = "idle", !.asker = 0]
<1>2. /\ f \in Session /\ f.queue = ob.queue /\ f.last = ob.last
  BY <1>1 DEF Session
<1>3. Finished(m) = IF ob.last = Id(m) THEN f ELSE ob
  BY DEF Finished, Of
<1> HIDE DEF f
<1>4. \A u \in Messages \ {m} : Id(u) # Id(m)
  BY DEF Id
<1> QED BY <1>1, <1>2, <1>3, <1>4 DEF LeavesTo

\* A turn that is over, with the session as it leaves it.
LEMMA LeavesGoes ==
  ASSUME DiscordInv, NEW m \in Messages, NEW o \in 1..Objects, NEW new \in Session,
         LeavesTo(m, o, new), NEW p \in Waits, p[m] \notin Turning, NEW t \in Seats,
         Seated(p, t), QueueOf(o, new.queue, p, t),
         \A u \in Messages : pc[u] = "queued" /\ turn[u].of # o =>
                               p[u] = "queued" /\ t[u].of = turn[u].of,
         \A u \in Messages \ {m} :
           p[u] \in Turning => /\ pc[u] \in Turning
                               /\ t[u].of = turn[u].of /\ t[u].depth = turn[u].depth
  PROVE  Good([object EXCEPT ![o] = new], p, t)
<1>1. ASSUME NEW u \in Messages, p[u] \in Turning
      PROVE  /\ pc[u] \in Turning /\ t[u].of = turn[u].of /\ t[u].depth = turn[u].depth
             /\ t[u].of = o /\ new.begun /\ new.last = Id(u) =>
                  object[o].begun /\ object[o].last = Id(u) /\ (object[o].inFlight => new.inFlight)
  BY <1>1 DEF LeavesTo
<1> QED BY <1>1, Step

\* The turn a message is left in when processMessage returns.
LEMMA CallerIs ==
  ASSUME NEW m \in Messages, turn[m] \in Seat
  PROVE  /\ CallerTurn(m) \in Seat
         /\ Caller(m) \in Sitting => CallerTurn(m).of = turn[m].of
<1>1. CASE turn[m].depth > 0
  <2>1. turn[m].depth - 1 \in Nat
    BY <1>1 DEF Seat
  <2>2. ASSUME NEW d \in Nat
        PROVE  /\ [turn[m] EXCEPT !.depth = d, !.compacting = FALSE] \in Seat
               /\ [turn[m] EXCEPT !.depth = d, !.compacting = FALSE].of = turn[m].of
    BY DEF Seat
  <2>3. CallerTurn(m) = [turn[m] EXCEPT !.depth = turn[m].depth - 1, !.compacting = FALSE]
    BY <1>1 DEF CallerTurn
  <2> QED BY <2>1, <2>2, <2>3
<1>2. CASE ~(turn[m].depth > 0)
  BY <1>2, NoTurnTyped DEF CallerTurn, Caller, Sitting, Turning
<1> QED BY <1>1, <1>2

LEMMA ShiftGoes ==
  ASSUME DiscordInv, NEW m \in Messages, pc[m] \in {"finally", "restoring"},
         turn[m].of \in 1..Objects, NEW ob \in Session,
         ob.queue = object[turn[m].of].queue, LeavesTo(m, turn[m].of, ob),
         Shift(m, turn[m].of, ob, pc)
  PROVE  Good(object', pc', turn')
<1> DEFINE o     == turn[m].of
           next  == Head(ob.queue)
           w     == Caller(m)
           left  == [pc EXCEPT ![m] = w]
           s     == CallerTurn(m)
           tt    == [turn EXCEPT ![m] = s]
<1>1. /\ pc \in Waits /\ turn \in Seats /\ ob.queue \in Seq(Messages)
      /\ QueueOf(o, ob.queue, pc, turn) /\ turn[m] \in Seat /\ turn[m].depth \in Nat
  BY DEF DiscordInv, Good, Session, Seats, Seat
<1>2. s \in Seat /\ (w \in Sitting => s.of = o)
  BY <1>1, CallerIs
<1>3. turn' = tt
  BY DEF Shift
<1> HIDE DEF s
<1>4. tt \in Seats /\ tt[m] = s /\ \A u \in Messages \ {m} : tt[u] = turn[u]
  BY <1>1, <1>2, SeatIs
<1> HIDE DEF tt
<1>5. w \in Where /\ w \notin Turning /\ w # "queued"
  BY DEF Caller, Where, Sitting, Turning
<1>6. pc[m] # "queued" /\ pc[m] \in Sitting
  BY DEF Sitting
<1>7. /\ ob.queue = <<>> => pc' = left /\ object' = [object EXCEPT ![o] = ob]
      /\ ob.queue # <<>> =>
           /\ \E x \in {"timer", "lost"} : pc' = [left EXCEPT ![next] = x]
           /\ object' = [object EXCEPT ![o] = [ob EXCEPT !.queue = Tail(ob.queue)]]
  BY DEF Shift
<1> HIDE DEF w
<1>8. left \in Waits /\ left[m] = w /\ \A u \in Messages \ {m} : left[u] = pc[u]
  BY <1>1, <1>5, PlaceIs
<1> HIDE DEF left
<1>9. CASE ob.queue = <<>>
  <2>1. QueueOf(o, ob.queue, left, tt)
    BY <1>9 DEF QueueOf
  <2>2. Seated(left, tt)
    BY <1>2, <1>4, <1>8 DEF Seated, DiscordInv, Good
  <2>3. Good([object EXCEPT ![o] = ob], left, tt)
    BY <1>4, <1>5, <1>6, <1>8, <2>1, <2>2, LeavesGoes
  <2> QED BY <1>3, <1>7, <1>9, <2>3
<1>10. CASE ob.queue # <<>>
  <2> DEFINE rest == [ob EXCEPT !.queue = Tail(ob.queue)]
  <2>1. /\ next \in Messages /\ Tail(ob.queue) \in Seq(Messages)
        /\ Len(Tail(ob.queue)) = Len(ob.queue) - 1 /\ Len(ob.queue) \in Nat \ {0}
        /\ \A i \in 1..Len(Tail(ob.queue)) : Tail(ob.queue)[i] = ob.queue[i + 1]
        /\ next = ob.queue[1]
    BY <1>1, <1>10, HeadTailProperties
  <2>2. /\ rest \in Session /\ rest.queue = Tail(ob.queue) /\ rest.begun = ob.begun
        /\ rest.last = ob.last /\ rest.inFlight = ob.inFlight
    BY <2>1 DEF Session
  <2>3. object' = [object EXCEPT ![o] = rest]
    BY <1>7, <1>10
  <2> HIDE DEF rest
  <2>4. pc[next] = "queued" /\ turn[next].of = o /\ next # m
    <3>1. 1 \in DOMAIN ob.queue
      BY <1>1, <2>1
    <3> QED BY <1>1, <1>6, <2>1, <3>1 DEF QueueOf
  <2>5. PICK x \in {"timer", "lost"} : pc' = [left EXCEPT ![next] = x]
    BY <1>7, <1>10
  <2> HIDE DEF next
  <2>6. x \in Where /\ x \notin Turning /\ x # "queued"
    BY DEF Where, Sitting, Turning
  <2>7. pc' \in Waits /\ pc'[next] = x /\ \A u \in Messages \ {next} : pc'[u] = left[u]
    <3>1. /\ [left EXCEPT ![next] = x] \in Waits /\ [left EXCEPT ![next] = x][next] = x
          /\ \A u \in Messages \ {next} : [left EXCEPT ![next] = x][u] = left[u]
      BY <1>8, <2>1, <2>6, PlaceIs
    <3> QED BY <2>5, <3>1
  <2>8. Seated(pc', tt)
    <3>1. o # 0
      OBVIOUS
    <3>2. \A u \in Messages \ {m, next} : pc'[u] \in Sitting => tt[u].of # 0
      BY <1>4, <1>8, <2>7 DEF DiscordInv, Good, Seated
    <3>3. tt[next].of # 0
      BY <1>4, <2>1, <2>4, <3>1
    <3>4. pc'[m] \in Sitting => tt[m].of # 0
      BY <1>2, <1>4, <1>8, <2>4, <2>7, <3>1
    <3> QED BY <3>2, <3>3, <3>4 DEF Seated
  <2>9. QueueOf(o, rest.queue, pc', tt)
    <3>1. /\ DOMAIN rest.queue = 1..(Len(ob.queue) - 1) /\ DOMAIN ob.queue = 1..Len(ob.queue)
          /\ \A i \in DOMAIN rest.queue :
               rest.queue[i] = ob.queue[i + 1] /\ i + 1 \in DOMAIN ob.queue /\ i + 1 # 1
                 /\ i \in Int
      BY <1>1, <2>1, <2>2
    <3>2. 1 \in DOMAIN ob.queue
      BY <2>1, <3>1
    <3>3. ASSUME NEW i \in DOMAIN rest.queue
          PROVE  pc'[rest.queue[i]] = "queued" /\ tt[rest.queue[i]].of = o
      <4>1. ob.queue[i + 1] \in Messages /\ pc[ob.queue[i + 1]] = "queued"
              /\ turn[ob.queue[i + 1]].of = o
        BY <1>1, <3>1 DEF QueueOf
      <4>2. ob.queue[i + 1] # next
        BY <1>1, <2>1, <3>1, <3>2 DEF QueueOf
      <4>3. rest.queue[i] \in Messages \ {m, next} /\ pc[rest.queue[i]] = "queued"
              /\ turn[rest.queue[i]].of = o
        BY <1>6, <3>1, <4>1, <4>2
      <4> QED BY <1>4, <1>8, <2>7, <4>3
    <3>4. ASSUME NEW i \in DOMAIN rest.queue, NEW j \in DOMAIN rest.queue,
                 rest.queue[i] = rest.queue[j]
          PROVE  i = j
      <4> DEFINE a == i + 1
                 b == j + 1
      <4>1. /\ a \in DOMAIN ob.queue /\ b \in DOMAIN ob.queue
            /\ ob.queue[a] = ob.queue[b]
        BY <3>1, <3>4
      <4> HIDE DEF a, b
      <4>2. a = b
        BY <1>1, <4>1 DEF QueueOf
      <4>3. i + 1 = j + 1
        BY <4>2 DEF a, b
      <4> QED BY <3>1, <4>3
    <3> QED BY <3>3, <3>4 DEF QueueOf
  <2>10. LeavesTo(m, o, rest)
    BY <2>2 DEF LeavesTo
  <2>11. \A u \in Messages : pc[u] = "queued" /\ turn[u].of # o =>
                               pc'[u] = "queued" /\ tt[u].of = turn[u].of
    BY <1>4, <1>6, <1>8, <2>4, <2>7
  <2>12. pc'[m] \notin Turning
    BY <1>5, <1>8, <2>4, <2>7
  <2>13. \A u \in Messages \ {m} :
           pc'[u] \in Turning => /\ pc[u] \in Turning
                                 /\ tt[u].of = turn[u].of /\ tt[u].depth = turn[u].depth
    BY <1>4, <1>8, <2>6, <2>7
  <2>14. Good([object EXCEPT ![o] = rest], pc', tt)
    BY <1>4, <2>2, <2>7, <2>8, <2>9, <2>10, <2>11, <2>12, <2>13, LeavesGoes
  <2> QED BY <1>3, <2>3, <2>14
<1> QED BY <1>9, <1>10
-----------------------------------------------------------------------------
(* The actions *)

LEMMA SeatedAt ==
  ASSUME DiscordInv, NEW m \in Messages, pc[m] \in Sitting
  PROVE  turn[m].of \in 1..Objects /\ object[turn[m].of] \in Session
<1>1. turn[m].of \in 0..Objects /\ turn[m].of # 0
  BY DEF DiscordInv, Good, Seated, Seats, Seat
<1>2. Objects \in Nat
  BY DiscordAssumption
<1>3. turn[m].of \in 1..Objects
  BY <1>1, <1>2
<1> QED BY <1>3 DEF DiscordInv, Good, Sessions

LEMMA HereIs ==
  ASSUME DiscordInv, here # 0
  PROVE  here \in 1..Objects
<1>1. here \in 0..Objects /\ Objects \in Nat
  BY DiscordAssumption DEF DiscordInv
<1> QED BY <1>1

\* A message that only goes on to another place.
LEMMA GoGoes ==
  ASSUME DiscordInv, NEW m \in Messages, pc[m] # "queued", NEW w \in Where, Go(m, w),
         w \in Turning => pc[m] \in Turning, w \in Sitting => pc[m] \in Sitting
  PROVE  Good(object, pc', turn)
<1>1. pc \in Waits /\ turn \in Seats /\ SameSeats(turn)
  BY DEF DiscordInv, Good, SameSeats
<1> DEFINE p == [pc EXCEPT ![m] = w]
<1>2. p \in Waits /\ p[m] = w /\ \A u \in Messages \ {m} : p[u] = pc[u]
  BY <1>1, PlaceIs
<1>3. pc' = p
  BY DEF Go
<1> HIDE DEF p
<1>4. \A u \in Messages : /\ p[u] \in Turning => pc[u] \in Turning
                          /\ p[u] \in Sitting => pc[u] \in Sitting
                          /\ pc[u] = "queued" => p[u] = "queued"
  BY <1>2
<1> QED BY <1>1, <1>2, <1>3, <1>4, GoesOnAlone

LEMMA ArriveGoes ==
  ASSUME DiscordInv, NEW m \in Messages, Arrive(m)
  PROVE  Good(object', pc', turn')
<1>1. pc[m] = "new"
  BY DEF Arrive, At
<1>2. CASE here # 0
  <2>1. here \in 1..Objects
    BY <1>2, HereIs
  <2>2. object[here] \in Session /\ QueueOf(here, object[here].queue, pc, turn)
    BY <2>1 DEF DiscordInv, Good, Sessions
  <2>3. Dispatch(m, here, object[here]) /\ Keeps(object[here], object[here])
    BY <1>2 DEF Arrive, Keeps
  <2> QED BY <1>1, <2>1, <2>2, <2>3, DispatchGoes
<1>3. CASE here = 0
  <2>1. Go(m, "creating") /\ object' = object /\ turn' = turn
    BY <1>3 DEF Arrive
  <2>2. Good(object, pc', turn)
    BY <1>1, <2>1, GoGoes DEF Where, Sitting, Turning
  <2> QED BY <2>1, <2>2
<1> QED BY <1>2, <1>3

LEMMA NewObjectIs ==
  NewObject \in Session /\ NewObject.queue = <<>> /\ ~NewObject.begun
<1>1. Tiers \in Nat /\ <<>> \in Seq(Messages)
  BY DiscordAssumption
<1>2. 0 \in 0..Tiers /\ <<0, 0>> \in (Messages \cup {0}) \X Nat
  BY <1>1
<1> QED BY <1>1, <1>2 DEF NewObject, Session, NoId

LEMMA CreatedGoes ==
  ASSUME DiscordInv, NEW m \in Messages, NEW ok \in BOOLEAN, Created(m, ok)
  PROVE  Good(object', pc', turn') /\ made' \in 0..Objects /\ here' \in 0..Objects
<1>1. pc[m] = "creating" /\ made < Objects /\ made \in 0..Objects /\ here \in 0..Objects
  BY DEF Created, At, DiscordInv
<1>2. CASE ok
  <2>1. made + 1 \in 1..Objects /\ made' = made + 1 /\ here' = made + 1
          /\ made + 1 \in 0..Objects
    BY <1>1, <1>2, DiscordAssumption DEF Created
  <2>2. NewObject \in Session /\ NewObject.queue = <<>> /\ ~NewObject.begun
    BY NewObjectIs
  <2>3. QueueOf(made + 1, NewObject.queue, pc, turn) /\ Keeps(object[made + 1], NewObject)
    BY <2>2 DEF QueueOf, Keeps
  <2>4. Dispatch(m, made + 1, NewObject)
    BY <1>2 DEF Created
  <2>5. Good(object', pc', turn')
    BY <1>1, <2>1, <2>2, <2>3, <2>4, DispatchGoes
  <2> QED BY <2>1, <2>5
<1>3. CASE ~ok
  <2>1. Go(m, "lost") /\ object' = object /\ turn' = turn /\ made' = made /\ here' = here
    BY <1>3 DEF Created
  <2>2. Good(object, pc', turn)
    BY <1>1, <2>1, GoGoes DEF Where, Sitting, Turning
  <2> QED BY <1>1, <2>1, <2>2
<1> QED BY <1>2, <1>3

\* A session made anew.
LEMMA RemadeHere ==
  ASSUME DiscordInv, NEW o \in 1..Objects
  PROVE  /\ Remade(o) \in Session /\ Remade(o).queue = object[o].queue
         /\ Keeps(object[o], Remade(o)) /\ ~Remade(o).begun
         /\ QueueOf(o, Remade(o).queue, pc, turn)
         /\ object[o] \in Session /\ Keeps(object[o], object[o])
         /\ QueueOf(o, object[o].queue, pc, turn)
<1>1. object \in Sessions /\ QueueOf(o, object[o].queue, pc, turn)
  BY DEF DiscordInv, Good
<1>2. object[o] \in Session
  BY <1>1 DEF Sessions
<1> QED BY <1>1, <1>2, RemadeIs DEF Keeps

LEMMA EscalatedGoes ==
  ASSUME DiscordInv, NEW m \in Messages, NEW ok \in BOOLEAN, Escalated(m, ok)
  PROVE  Good(object', pc', turn')
<1> DEFINE o  == turn[m].of
           ob == IF ok THEN Remade(o) ELSE object[o]
<1>1. pc[m] \in {"pending", "keyword"} /\ pc[m] \in Sitting /\ pc[m] \in Turning
        /\ pc[m] # "queued"
  BY DEF Escalated, At, Sitting, Turning
<1>2. o \in 1..Objects /\ turn \in Seats /\ turn[m] \in Seat /\ pc \in Waits
  BY <1>1, SeatedAt DEF DiscordInv, Good, Seats
<1>3. /\ ob \in Session /\ ob.queue = object[o].queue /\ Keeps(object[o], ob)
      /\ QueueOf(o, ob.queue, pc, turn)
  BY <1>2, RemadeHere
<1>4. IF ~ok /\ pc[m] = "keyword"
      THEN Go(m, "placeholder") /\ object' = object /\ turn' = turn
      ELSE IF MayBegin(ob)
      THEN StartTurn(m, o, ob, turn[m],
                     IF pc[m] = "pending" THEN Onward(ob) ELSE {"placeholder"})
      ELSE /\ object' = [object EXCEPT ![o] = ob]
           /\ turn' = [turn EXCEPT ![m] = CallerTurn(m)]
           /\ Go(m, Caller(m))
  BY DEF Escalated
<1> HIDE DEF ob, o
<1>5. CASE ~ok /\ pc[m] = "keyword"
  <2>1. "placeholder" \in Where /\ "placeholder" \in Turning /\ "placeholder" \in Sitting
    BY DEF Where, Sitting, Turning
  <2>2. Good(object, pc', turn)
    BY <1>1, <1>4, <1>5, <2>1, GoGoes
  <2> QED BY <1>4, <1>5, <2>2
<1>6. CASE ~(~ok /\ pc[m] = "keyword") /\ MayBegin(ob)
  <2>1. PICK steps \in SUBSET {"placeholder", "pending", "keyword"} :
          StartTurn(m, o, ob, turn[m], steps)
    BY <1>4, <1>6, FirstStepsAre
  <2> QED BY <1>1, <1>2, <1>3, <2>1, StartTurnGoes
<1>7. CASE ~(~ok /\ pc[m] = "keyword") /\ ~MayBegin(ob)
  <2> DEFINE w == Caller(m)
             s == CallerTurn(m)
             p == [pc EXCEPT ![m] = w]
             t == [turn EXCEPT ![m] = s]
  <2>1. w \in Where /\ w \notin Turning /\ w # "queued"
    BY DEF Caller, Where, Sitting, Turning
  <2>2. s \in Seat /\ (w \in Sitting => s.of = o)
    BY <1>2, CallerIs DEF o
  <2>3. object' = [object EXCEPT ![o] = ob] /\ turn' = t /\ pc' = p
    BY <1>4, <1>7 DEF Go
  <2> HIDE DEF w, s
  <2>4. p \in Waits /\ p[m] = w /\ \A u \in Messages \ {m} : p[u] = pc[u]
    BY <1>2, <2>1, PlaceIs
  <2>5. t \in Seats /\ t[m] = s /\ \A u \in Messages \ {m} : t[u] = turn[u]
    BY <1>2, <2>2, SeatIs
  <2> HIDE DEF p, t
  <2>6. o # 0
    BY <1>2
  <2>7. Seated(p, t)
    BY <2>2, <2>4, <2>5, <2>6 DEF Seated, DiscordInv, Good
  <2>8. QueueOf(o, ob.queue, p, t)
    <3>1. ASSUME NEW i \in DOMAIN ob.queue
          PROVE  p[ob.queue[i]] = "queued" /\ t[ob.queue[i]].of = o
      <4>1. ob.queue[i] \in Messages /\ pc[ob.queue[i]] = "queued" /\ turn[ob.queue[i]].of = o
        BY <1>3 DEF QueueOf, Session
      <4>2. ob.queue[i] \in Messages \ {m}
        BY <1>1, <4>1
      <4> QED BY <2>4, <2>5, <4>1, <4>2
    <3> QED BY <1>3, <3>1 DEF QueueOf
  <2>9. LeavesTo(m, o, ob)
    BY <1>3 DEF LeavesTo, Keeps
  <2>10. \A u \in Messages : pc[u] = "queued" /\ turn[u].of # o =>
                               p[u] = "queued" /\ t[u].of = turn[u].of
    BY <1>1, <2>4, <2>5
  <2>11. \A u \in Messages \ {m} :
           p[u] \in Turning => /\ pc[u] \in Turning
                               /\ t[u].of = turn[u].of /\ t[u].depth = turn[u].depth
    BY <2>4, <2>5
  <2>12. p[m] \notin Turning
    BY <2>1, <2>4
  <2>13. Good([object EXCEPT ![o] = ob], p, t)
    BY <1>2, <1>3, <2>4, <2>5, <2>7, <2>8, <2>9, <2>10, <2>11, <2>12, LeavesGoes
  <2> QED BY <2>3, <2>13
<1> QED BY <1>5, <1>6, <1>7

LEMMA AttemptGoes ==
  ASSUME DiscordInv, NEW m \in Messages, pc[m] \in {"placeholder", "compacting"}, Attempt(m)
  PROVE  Good(object', pc', turn')
<1> DEFINE o   == turn[m].of
           new == [object[o] EXCEPT !.asker = m]
           s   == [turn[m] EXCEPT !.aborted = FALSE]
           p   == [pc EXCEPT ![m] = "asking"]
           t   == [turn EXCEPT ![m] = s]
<1>1. /\ pc[m] \in Sitting /\ pc[m] \in Turning /\ pc[m] # "queued"
      /\ "asking" \in Where /\ "asking" \in Turning /\ "asking" \in Sitting
  BY DEF Sitting, Turning, Where
<1>2. /\ o \in 1..Objects /\ object[o] \in Session /\ object \in Sessions /\ turn \in Seats
      /\ turn[m] \in Seat /\ pc \in Waits
  BY <1>1, SeatedAt DEF DiscordInv, Good, Seats
<1>3. new \in Session /\ new.queue = object[o].queue /\ Keeps(object[o], new)
  BY <1>2 DEF Session, Keeps
<1>4. s \in Seat /\ s.of = turn[m].of /\ s.depth = turn[m].depth
  BY <1>2 DEF Seat
<1>5. object' = [object EXCEPT ![o] = new] /\ pc' = p /\ turn' = t
  BY <1>2 DEF Attempt, Go, Sessions, Seats
<1> HIDE DEF new, s
<1>6. t \in Seats /\ t[m] = s /\ \A u \in Messages \ {m} : t[u] = turn[u]
  BY <1>2, <1>4, SeatIs
<1>7. p \in Waits /\ p[m] = "asking" /\ \A u \in Messages \ {m} : p[u] = pc[u]
  BY <1>1, <1>2, PlaceIs
<1> HIDE DEF p, t
<1>8. SameSeats(t)
  BY <1>4, <1>6 DEF SameSeats
<1>9. \A u \in Messages : /\ p[u] \in Turning => pc[u] \in Turning
                          /\ p[u] \in Sitting => pc[u] \in Sitting
                          /\ pc[u] = "queued" => p[u] = "queued"
  BY <1>1, <1>7
<1>10. Good([object EXCEPT ![o] = new], p, t)
  BY <1>2, <1>3, <1>6, <1>7, <1>8, <1>9, GoesOn
<1> QED BY <1>5, <1>10

LEMMA AskEndsGoes ==
  ASSUME DiscordInv, NEW m \in Messages, NEW how, AskEnds(m, how)
  PROVE  Good(object', pc', turn')
<1>1. pc[m] = "asking" /\ object' = object /\ turn' = turn
  BY DEF AskEnds, At
<1>2. PICK w \in {"compacting", "finally", "announcing", "closing"} : Go(m, w)
  <2>1. \/ Go(m, "compacting") \/ Go(m, "finally") \/ Go(m, "announcing") \/ Go(m, "closing")
    BY DEF AskEnds
  <2> QED BY <2>1
<1>3. w \in Where /\ pc[m] \in Turning /\ pc[m] \in Sitting /\ pc[m] # "queued"
  BY <1>1 DEF Where, Sitting, Turning
<1>4. Good(object, pc', turn)
  BY <1>2, <1>3, GoGoes
<1> QED BY <1>1, <1>4

LEMMA ClosedGoes ==
  ASSUME DiscordInv, NEW m \in Messages, Closed(m)
  PROVE  Good(object', pc', turn')
<1>1. pc[m] = "closing" /\ object' = object /\ turn' = turn /\ Go(m, "finally")
  BY DEF Closed, At
<1>2. /\ "finally" \in Where /\ "finally" \notin Turning
      /\ pc[m] \in Sitting /\ pc[m] # "queued"
  BY <1>1 DEF Where, Sitting, Turning
<1>3. Good(object, pc', turn)
  BY <1>1, <1>2, GoGoes
<1> QED BY <1>1, <1>3

\* A session is made anew, or cancelled, by m or by a command: its queue is dropped, the
\* attempt in progress aborted.
LEMMA DropGoes ==
  ASSUME DiscordInv, NEW o \in 1..Objects, NEW new \in Session, Keeps(object[o], new),
         new.queue = <<>>, NEW t \in Seats, SameSeats(t)
  PROVE  Good([object EXCEPT ![o] = new], Lose(Dropped(o), pc), t)
<1> DEFINE p == Lose(Dropped(o), pc)
<1>1. p \in Waits /\ \A u \in Messages :
                       /\ p[u] \in {pc[u], "lost"}
                       /\ pc[u] = "queued" /\ turn[u].of # o => p[u] = "queued"
  BY LoseIs
<1> HIDE DEF p
<1>2. \A u \in Messages : /\ p[u] \in Turning => pc[u] \in Turning
                          /\ p[u] \in Sitting => pc[u] \in Sitting
                          /\ pc[u] = "queued" /\ turn[u].of # o => p[u] = "queued"
  BY <1>1 DEF Sitting, Turning
<1>3. Good([object EXCEPT ![o] = new], p, t)
  BY <1>1, <1>2, GoesOn
<1> QED BY <1>3 DEF p

LEMMA AnnouncedGoes ==
  ASSUME DiscordInv, NEW m \in Messages, Announced(m)
  PROVE  Good(object', pc', turn')
<1> DEFINE o    == turn[m].of
           tier == NextTier(o)
           new  == [Raised(object[o], tier) EXCEPT !.pending = tier]
           lose == Lose(Dropped(o), pc)
           p    == [lose EXCEPT ![m] = "escalating"]
<1>1. /\ pc[m] = "announcing" /\ pc[m] \in Sitting /\ pc[m] \in Turning /\ pc[m] # "queued"
      /\ "escalating" \in Where /\ "escalating" \in Turning /\ "escalating" \in Sitting
  BY DEF Announced, At, Sitting, Turning, Where
<1>2. o \in 1..Objects /\ object[o] \in Session /\ pc \in Waits
  BY <1>1, SeatedAt DEF DiscordInv, Good
<1>3. tier \in 0..Tiers
  <2>1. object[o].tier \in 0..Tiers /\ Tiers \in Nat
    BY <1>2, DiscordAssumption DEF Session
  <2> QED BY <2>1 DEF NextTier
<1>4. object' = [object EXCEPT ![o] = new] /\ turn' = Aborted(o) /\ pc' = p
  BY DEF Announced
<1> HIDE DEF tier
<1>5. new \in Session /\ new.queue = <<>> /\ Keeps(object[o], new)
  BY <1>2, <1>3, RaisedIs DEF Keeps
<1> HIDE DEF new
<1>6. Aborted(o) \in Seats /\ SameSeats(Aborted(o))
  BY <1>2, AbortedIs
<1>7. lose \in Waits /\ \A u \in Messages :
                          /\ lose[u] \in {pc[u], "lost"}
                          /\ pc[u] = "queued" /\ turn[u].of # o => lose[u] = "queued"
  BY <1>2, LoseIs
<1> HIDE DEF lose
<1>8. p \in Waits /\ p[m] = "escalating" /\ \A u \in Messages \ {m} : p[u] = lose[u]
  BY <1>1, <1>7, PlaceIs
<1> HIDE DEF p
<1>9. \A u \in Messages : /\ p[u] \in Turning => pc[u] \in Turning
                          /\ p[u] \in Sitting => pc[u] \in Sitting
                          /\ pc[u] = "queued" /\ turn[u].of # o => p[u] = "queued"
  BY <1>1, <1>7, <1>8 DEF Sitting, Turning
<1>10. Good([object EXCEPT ![o] = new], p, Aborted(o))
  BY <1>2, <1>5, <1>6, <1>8, <1>9, GoesOn
<1> QED BY <1>4, <1>10

LEMMA RerunGoes ==
  ASSUME DiscordInv, NEW m \in Messages, NEW ok \in BOOLEAN, Rerun(m, ok)
  PROVE  Good(object', pc', turn')
<1> DEFINE o  == turn[m].of
           ob == Remade(o)
           t  == [turn[m] EXCEPT !.depth = turn[m].depth + 1]
<1>1. pc[m] = "escalating" /\ pc[m] \in Sitting /\ pc[m] \in Turning /\ pc[m] # "queued"
  BY DEF Rerun, At, Sitting, Turning
<1>2. o \in 1..Objects /\ turn[m] \in Seat
  BY <1>1, SeatedAt DEF DiscordInv, Good, Seats
<1>3. CASE ok
  <2>1. ob \in Session /\ QueueOf(o, ob.queue, pc, turn)
    BY <1>2, RemadeHere
  <2>2. t \in Seat
    <3>1. turn[m].depth + 1 \in Nat
      <4>1. turn[m].depth \in Nat
        BY <1>2 DEF Seat
      <4> QED BY <4>1
    <3>2. ASSUME NEW d \in Nat PROVE [turn[m] EXCEPT !.depth = d] \in Seat
      BY <1>2 DEF Seat
    <3> QED BY <3>1, <3>2
  <2>3. StartTurn(m, o, ob, t, FirstSteps(ob))
    BY <1>3 DEF Rerun
  <2> QED BY <1>1, <1>2, <2>1, <2>2, <2>3, FirstStepsAre, StartTurnGoes
<1>4. CASE ~ok
  <2>1. Go(m, "finally") /\ object' = object /\ turn' = turn
    BY <1>4 DEF Rerun
  <2>2. "finally" \in Where /\ "finally" \notin Turning
    BY DEF Where, Sitting, Turning
  <2>3. Good(object, pc', turn)
    BY <1>1, <2>1, <2>2, GoGoes
  <2> QED BY <2>1, <2>3
<1> QED BY <1>3, <1>4

LEMMA FinallyGoes ==
  ASSUME DiscordInv, NEW m \in Messages, Finally(m)
  PROVE  Good(object', pc', turn')
<1> DEFINE o    == turn[m].of
           ob   == Finished(m)
           new  == [ob EXCEPT !.tier = 0, !.escalations = 0, !.state = "resetting",
                              !.queue = <<>>]
           t    == IF ob.asker = 0 THEN turn ELSE [turn EXCEPT ![ob.asker].aborted = TRUE]
           lose == Lose(Dropped(o), pc)
           p    == [lose EXCEPT ![m] = "restoring"]
<1>1. pc[m] = "finally" /\ pc[m] \in Sitting /\ pc[m] # "queued"
  BY DEF Finally, At, Sitting
<1>2. o \in 1..Objects /\ object[o] \in Session /\ pc \in Waits /\ turn \in Seats
  BY <1>1, SeatedAt DEF DiscordInv, Good
<1>3. ob \in Session /\ ob.queue = object[o].queue /\ LeavesTo(m, o, ob)
  BY <1>2, FinishedIs
<1>4. IF ob.tier > 0
      THEN object' = [object EXCEPT ![o] = new] /\ turn' = t /\ pc' = p
      ELSE Shift(m, o, ob, pc)
  BY DEF Finally
<1> HIDE DEF ob
<1>5. CASE ~(ob.tier > 0)
  BY <1>1, <1>2, <1>3, <1>4, <1>5, ShiftGoes
<1>6. CASE ob.tier > 0
  <2>1. new \in Session /\ new.queue = <<>> /\ LeavesTo(m, o, new)
    <3>1. 0 \in 0..Tiers /\ <<>> \in Seq(Messages)
      BY DiscordAssumption
    <3>2. /\ new \in Session /\ new.queue = <<>> /\ new.begun = ob.begun
          /\ new.last = ob.last /\ new.inFlight = ob.inFlight
      BY <1>3, <3>1 DEF Session
    <3> QED BY <1>3, <3>2 DEF LeavesTo
  <2>2. t \in Seats /\ SameSeats(t)
    <3>1. ob.asker \in Messages \cup {0}
      BY <1>3 DEF Session
    <3>2. ASSUME NEW a \in Messages
          PROVE  /\ [turn EXCEPT ![a].aborted = TRUE] \in Seats
                 /\ SameSeats([turn EXCEPT ![a].aborted = TRUE])
      BY <1>2 DEF Seats, Seat, SameSeats
    <3>3. SameSeats(turn)
      BY DEF SameSeats
    <3> QED BY <1>2, <3>1, <3>2, <3>3
  <2>3. object' = [object EXCEPT ![o] = new] /\ turn' = t /\ pc' = p
    BY <1>4, <1>6
  <2> HIDE DEF new, t
  <2>4. lose \in Waits /\ \A u \in Messages :
                            /\ lose[u] \in {pc[u], "lost"}
                            /\ pc[u] = "queued" /\ turn[u].of # o => lose[u] = "queued"
    BY <1>2, LoseIs
  <2> HIDE DEF lose
  <2>5. "restoring" \in Where /\ "restoring" \notin Turning
    BY DEF Where, Sitting, Turning
  <2>6. p \in Waits /\ p[m] = "restoring" /\ \A u \in Messages \ {m} : p[u] = lose[u]
    BY <2>4, <2>5, PlaceIs
  <2> HIDE DEF p
  <2>7. Seated(p, t)
    <3>1. \A u \in Messages : p[u] \in Sitting => pc[u] \in Sitting
      BY <1>1, <2>4, <2>6 DEF Sitting, Turning
    <3> QED BY <2>2, <3>1 DEF Seated, SameSeats, DiscordInv, Good
  <2>8. QueueOf(o, new.queue, p, t)
    BY <2>1 DEF QueueOf
  <2>9. \A u \in Messages : pc[u] = "queued" /\ turn[u].of # o =>
                              p[u] = "queued" /\ t[u].of = turn[u].of
    BY <1>1, <2>2, <2>4, <2>6 DEF SameSeats
  <2>10. \A u \in Messages \ {m} :
           p[u] \in Turning => /\ pc[u] \in Turning
                               /\ t[u].of = turn[u].of /\ t[u].depth = turn[u].depth
    BY <2>2, <2>4, <2>6 DEF SameSeats, Turning
  <2>11. Good([object EXCEPT ![o] = new], p, t)
    BY <1>2, <2>1, <2>2, <2>5, <2>6, <2>7, <2>8, <2>9, <2>10, LeavesGoes
  <2> QED BY <2>3, <2>11
<1> QED BY <1>5, <1>6

LEMMA RestoredGoes ==
  ASSUME DiscordInv, NEW m \in Messages, NEW ok \in BOOLEAN, Restored(m, ok)
  PROVE  Good(object', pc', turn')
<1> DEFINE o  == turn[m].of
           ob == IF ok THEN Remade(o) ELSE object[o]
<1>1. pc[m] = "restoring" /\ pc[m] \in Sitting
  BY DEF Restored, At, Sitting
<1>2. o \in 1..Objects
  BY <1>1, SeatedAt
<1>3. ob \in Session /\ ob.queue = object[o].queue /\ Keeps(object[o], ob)
  BY <1>2, RemadeHere
<1>4. Shift(m, o, ob, pc)
  BY DEF Restored
<1> HIDE DEF ob
<1>5. LeavesTo(m, o, ob)
  BY <1>3 DEF LeavesTo, Keeps
<1> QED BY <1>1, <1>2, <1>3, <1>4, <1>5, ShiftGoes

LEMMA TimerGoes ==
  ASSUME DiscordInv, NEW m \in Messages, Timer(m)
  PROVE  Good(object', pc', turn')
<1> DEFINE o == turn[m].of
<1>1. pc[m] = "timer" /\ pc[m] \in Sitting /\ pc[m] # "queued"
  BY DEF Timer, At, Sitting
<1>2. o \in 1..Objects
  BY <1>1, SeatedAt
<1>3. CASE Of(m).state = "idle" /\ ~Of(m).inFlight
  <2>1. StartTurn(m, o, object[o], NoTurn, FirstSteps(object[o]))
    BY <1>3 DEF Timer, Of
  <2>2. object[o] \in Session /\ QueueOf(o, object[o].queue, pc, turn)
    BY <1>2, RemadeHere
  <2> QED BY <1>1, <1>2, <2>1, <2>2, NoTurnTyped, FirstStepsAre, StartTurnGoes
<1>4. CASE ~(Of(m).state = "idle" /\ ~Of(m).inFlight)
  <2>1. Go(m, "lost") /\ object' = object /\ turn' = turn
    BY <1>4 DEF Timer
  <2>2. "lost" \in Where /\ "lost" \notin Turning /\ "lost" \notin Sitting
    BY DEF Where, Sitting, Turning
  <2>3. Good(object, pc', turn)
    BY <1>1, <2>1, <2>2, GoGoes
  <2> QED BY <2>1, <2>3
<1> QED BY <1>3, <1>4
LEMMA WatchdogGoes ==
  ASSUME DiscordInv, NEW m \in Messages, Watchdog(m)
  PROVE  Good(object', pc', turn')
<1> DEFINE o == turn[m].of
<1>1. pc[m] = "asking" /\ pc[m] \in Sitting
  BY DEF Watchdog, At, Sitting, Turning
<1>2. o \in 1..Objects /\ object[o] \in Session /\ object \in Sessions /\ pc \in Waits
  BY <1>1, SeatedAt DEF DiscordInv, Good
<1>3. Aborted(o) \in Seats /\ SameSeats(Aborted(o))
  BY <1>2, AbortedIs
<1>4. CASE MayCompact(Of(m))
  <2> DEFINE new == [object[o] EXCEPT !.compactions = object[o].compactions + 1]
             s   == [Aborted(o)[m] EXCEPT !.compacting = TRUE]
             t   == [Aborted(o) EXCEPT ![m] = s]
  <2>1. new \in Session /\ new.queue = object[o].queue /\ Keeps(object[o], new)
    <3>1. object[o].compactions \in Nat
      BY <1>2 DEF Session
    <3>2. object[o].compactions + 1 \in Nat
      BY <3>1
    <3> QED BY <1>2, <3>2 DEF Session, Keeps
  <2>2. s \in Seat /\ s.of = turn[m].of /\ s.depth = turn[m].depth
    <3>1. Aborted(o)[m] \in Seat
      BY <1>3 DEF Seats
    <3> QED BY <1>3, <3>1 DEF Seat, SameSeats
  <2>3. object' = [object EXCEPT ![o] = new] /\ turn' = t /\ pc' = pc
    BY <1>2, <1>3, <1>4 DEF Watchdog, Sessions, Seats
  <2> HIDE DEF new, s
  <2>4. t \in Seats /\ t[m] = s /\ \A u \in Messages \ {m} : t[u] = Aborted(o)[u]
    BY <1>3, <2>2, SeatIs
  <2> HIDE DEF t
  <2>5. SameSeats(t)
    BY <1>3, <2>2, <2>4 DEF SameSeats
  <2>6. Good([object EXCEPT ![o] = new], pc, t)
    BY <1>2, <2>1, <2>4, <2>5, GoesOn
  <2> QED BY <2>3, <2>6
<1>5. CASE ~MayCompact(Of(m))
  <2> DEFINE new == [object[o] EXCEPT !.state = "canceling", !.queue = <<>>]
  <2>1. new \in Session /\ new.queue = <<>> /\ Keeps(object[o], new)
    <3>1. <<>> \in Seq(Messages)
      OBVIOUS
    <3> QED BY <1>2, <3>1 DEF Session, Keeps
  <2>2. /\ object' = [object EXCEPT ![o] = new] /\ turn' = Aborted(o)
        /\ pc' = Lose(Dropped(o), pc)
    <3>1. /\ object' = [object EXCEPT ![o].state = "canceling", ![o].queue = <<>>]
          /\ turn' = Aborted(o) /\ pc' = Lose(Dropped(o), pc)
      BY <1>5 DEF Watchdog
    <3> QED BY <1>2, <3>1 DEF Sessions
  <2> HIDE DEF new
  <2>3. Good([object EXCEPT ![o] = new], Lose(Dropped(o), pc), Aborted(o))
    BY <1>2, <1>3, <2>1, DropGoes
  <2> QED BY <2>2, <2>3
<1> QED BY <1>4, <1>5

LEMMA CompactionEndsGoes ==
  ASSUME DiscordInv, NEW m \in Messages, CompactionEnds(m)
  PROVE  Good(object', pc', turn')
<1> DEFINE s == [turn[m] EXCEPT !.compacting = FALSE]
           t == [turn EXCEPT ![m] = s]
<1>1. turn \in Seats /\ turn[m] \in Seat /\ pc \in Waits
  BY DEF DiscordInv, Good, Seats
<1>2. s \in Seat /\ s.of = turn[m].of /\ s.depth = turn[m].depth
  BY <1>1 DEF Seat
<1>3. object' = object /\ turn' = t /\ pc' = pc
  BY <1>1 DEF CompactionEnds, Seats
<1> HIDE DEF s
<1>4. t \in Seats /\ t[m] = s /\ \A u \in Messages \ {m} : t[u] = turn[u]
  BY <1>1, <1>2, SeatIs
<1> HIDE DEF t
<1>5. SameSeats(t)
  BY <1>2, <1>4 DEF SameSeats
<1>6. Good(object, pc, t)
  BY <1>1, <1>4, <1>5, GoesOnAlone
<1> QED BY <1>3, <1>6

-----------------------------------------------------------------------------
(* Commands *)

LEMMA UnmadeIs ==
  ASSUME DiscordInv, NEW o \in 1..Objects
  PROVE  /\ Unmade(o) \in Session /\ Unmade(o).queue = <<>> /\ Keeps(object[o], Unmade(o))
         /\ [Unmade(o) EXCEPT !.pending = 0, !.tier = 0] \in Session
         /\ [Unmade(o) EXCEPT !.pending = 0, !.tier = 0].queue = <<>>
         /\ Keeps(object[o], [Unmade(o) EXCEPT !.pending = 0, !.tier = 0])
<1>1. object[o] \in Session /\ <<>> \in Seq(Messages) /\ 0 \in 0..Tiers
  BY DiscordAssumption DEF DiscordInv, Good, Sessions
<1>2. Unmade(o) \in Session /\ Unmade(o).queue = <<>> /\ Keeps(object[o], Unmade(o))
  BY <1>1 DEF Unmade, Session, Keeps
<1> HIDE DEF Unmade
<1> QED BY <1>1, <1>2 DEF Session, Keeps

LEMMA DestroyGoes ==
  ASSUME DiscordInv, Destroy
  PROVE  Good(object', pc', turn')
<1>1. /\ here \in 1..Objects /\ object' = [object EXCEPT ![here] = Unmade(here)]
      /\ turn' = Aborted(here) /\ pc' = Lose(Dropped(here), pc)
  BY HereIs DEF Destroy
<1>2. Aborted(here) \in Seats /\ SameSeats(Aborted(here))
  BY <1>1, AbortedIs
<1>3. Unmade(here) \in Session /\ Unmade(here).queue = <<>> /\ Keeps(object[here], Unmade(here))
  BY <1>1, UnmadeIs
<1> QED BY <1>1, <1>2, <1>3, DropGoes

LEMMA CancelGoes ==
  ASSUME DiscordInv, Cancel
  PROVE  Good(object', pc', turn')
<1> DEFINE st  == IF object[here].inFlight THEN "canceling" ELSE object[here].state
           new == [object[here] EXCEPT !.queue = <<>>, !.state = st]
           t   == IF object[here].inFlight THEN Aborted(here) ELSE turn
<1>1. here \in 1..Objects
  BY HereIs DEF Cancel
<1>2. object[here] \in Session /\ object \in Sessions /\ <<>> \in Seq(Messages)
  BY <1>1 DEF DiscordInv, Good, Sessions
<1>3. st \in {"idle", "running", "canceling", "resetting"}
  BY <1>2 DEF Session
<1>4. /\ object' = [object EXCEPT ![here].queue = <<>>, ![here].state = st]
      /\ turn' = t /\ pc' = Lose(Dropped(here), pc)
  BY DEF Cancel
<1> HIDE DEF st
<1>5. new \in Session /\ new.queue = <<>> /\ Keeps(object[here], new)
  BY <1>2, <1>3 DEF Session, Keeps
<1>6. object' = [object EXCEPT ![here] = new]
  BY <1>1, <1>2, <1>4 DEF Sessions
<1> HIDE DEF new
<1>7. t \in Seats /\ SameSeats(t)
  BY <1>1, AbortedIs
<1> HIDE DEF t
<1>8. Good([object EXCEPT ![here] = new], Lose(Dropped(here), pc), t)
  BY <1>1, <1>5, <1>7, DropGoes
<1> QED BY <1>4, <1>6, <1>8

LEMMA EscalateGoes ==
  ASSUME DiscordInv, Escalate
  PROVE  Good(object', pc', turn')
<1>1. here \in 1..Objects /\ turn' = turn /\ pc' = pc
  BY HereIs DEF Escalate
<1>2. PICK tier \in 1..Tiers : object' = [object EXCEPT ![here].pending = tier]
  BY DEF Escalate
<1>3. object[here] \in Session /\ object \in Sessions /\ pc \in Waits /\ turn \in Seats
  BY <1>1 DEF DiscordInv, Good, Sessions
<1>4. tier \in 0..Tiers
  BY <1>2, DiscordAssumption
<1> DEFINE new == [object[here] EXCEPT !.pending = tier]
<1>5. new \in Session /\ new.queue = object[here].queue /\ Keeps(object[here], new)
  BY <1>3, <1>4 DEF Session, Keeps
<1>6. object' = [object EXCEPT ![here] = new]
  BY <1>1, <1>2, <1>3 DEF Sessions
<1> HIDE DEF new
<1>7. SameSeats(turn)
  BY DEF SameSeats
<1>8. Good([object EXCEPT ![here] = new], pc, turn)
  BY <1>1, <1>3, <1>5, <1>7, GoesOn
<1> QED BY <1>1, <1>6, <1>8

LEMMA RemakingGoes ==
  ASSUME DiscordInv, NEW o \in 1..Objects, NEW new \in Session, new.queue = <<>>,
         Keeps(object[o], new), Remaking(o, new)
  PROVE  Good(object', pc', turn') /\ remaking' \in [1..Objects -> Nat]
<1>1. Aborted(o) \in Seats /\ SameSeats(Aborted(o))
  BY AbortedIs
<1>2. Good([object EXCEPT ![o] = new], Lose(Dropped(o), pc), Aborted(o))
  BY <1>1, DropGoes
<1>3. remaking \in [1..Objects -> Nat] /\ remaking[o] \in Nat
  BY DEF DiscordInv
<1>4. remaking[o] + 1 \in Nat
  BY <1>3
<1> QED BY <1>2, <1>3, <1>4 DEF Remaking

LEMMA RemakeEndsGoes ==
  ASSUME DiscordInv, NEW o \in 1..Objects, NEW ok \in BOOLEAN, RemakeEnds(o, ok)
  PROVE  Good(object', pc', turn') /\ remaking' \in [1..Objects -> Nat]
<1>1. /\ object' = IF ok THEN [object EXCEPT ![o] = Remade(o)] ELSE object
      /\ pc' = pc /\ turn' = turn /\ remaking[o] > 0
      /\ remaking' = [remaking EXCEPT ![o] = remaking[o] - 1]
  BY DEF RemakeEnds
<1>2. /\ pc \in Waits /\ turn \in Seats /\ SameSeats(turn) /\ Good(object, pc, turn)
      /\ remaking \in [1..Objects -> Nat] /\ remaking[o] \in Nat
  BY DEF DiscordInv, Good, SameSeats
<1>3. /\ Remade(o) \in Session /\ Remade(o).queue = object[o].queue
      /\ Keeps(object[o], Remade(o))
  BY RemadeHere
<1>4. Good([object EXCEPT ![o] = Remade(o)], pc, turn)
  BY <1>2, <1>3, GoesOn
<1>5. remaking[o] - 1 \in Nat
  BY <1>1, <1>2
<1> QED BY <1>1, <1>2, <1>4, <1>5

-----------------------------------------------------------------------------
(* The theorems *)

LEMMA DiscordInvInit == DiscordInit => DiscordInv
<1> SUFFICES ASSUME DiscordInit PROVE DiscordInv
  OBVIOUS
<1>1. object \in Sessions /\ \A o \in 1..Objects : object[o] = NewObject
  BY NewObjectIs DEF DiscordInit, Sessions
<1>2. pc \in Waits /\ \A m \in Messages : pc[m] = "new"
  BY DEF DiscordInit, Waits, Where
<1>3. turn \in Seats
  BY NoTurnTyped DEF DiscordInit, Seats
<1>4. Seated(pc, turn) /\ Own(object, pc, turn)
  BY <1>2 DEF Seated, Own, Sitting, Turning
<1>5. \A o \in 1..Objects : QueueOf(o, object[o].queue, pc, turn)
  BY <1>1, NewObjectIs DEF QueueOf
<1>6. here \in 0..Objects /\ made \in 0..Objects /\ commands \in Nat /\ failed \in BOOLEAN
  <2>1. Objects \in Nat
    BY DiscordAssumption
  <2>2. 0 \in 0..Objects
    BY <2>1
  <2> QED BY <2>2 DEF DiscordInit
<1>7. remaking \in [1..Objects -> Nat]
  BY DEF DiscordInit
<1> QED BY <1>1, <1>2, <1>3, <1>4, <1>5, <1>6, <1>7 DEF DiscordInv, Good

LEMMA MovesGoes ==
  ASSUME DiscordInv, NEW m \in Messages, Moves(m)
  PROVE  DiscordInv'
<1>1. CASE \E ok \in BOOLEAN : Created(m, ok)
  <2>1. PICK ok \in BOOLEAN : Created(m, ok)
    BY <1>1
  <2>2. remaking' = remaking /\ commands' = commands /\ failed' \in BOOLEAN
    BY <2>1 DEF Created, Failing
  <2> QED BY <2>1, <2>2, CreatedGoes DEF DiscordInv
<1>2. CASE \E ok \in BOOLEAN : Escalated(m, ok) \/ Rerun(m, ok) \/ Restored(m, ok)
  <2>1. PICK ok \in BOOLEAN : Escalated(m, ok) \/ Rerun(m, ok) \/ Restored(m, ok)
    BY <1>2
  <2>2. /\ remaking' = remaking /\ commands' = commands /\ failed' \in BOOLEAN
        /\ here' = here /\ made' = made
    BY <2>1 DEF Escalated, Rerun, Restored, Failing
  <2> QED BY <2>1, <2>2, EscalatedGoes, RerunGoes, RestoredGoes DEF DiscordInv
<1>3. CASE Ask(m) \/ Retry(m)
  <2>1. pc[m] \in {"placeholder", "compacting"} /\ Attempt(m)
    BY <1>3 DEF Ask, Retry, At
  <2>2. /\ remaking' = remaking /\ commands' = commands /\ failed' = failed
        /\ here' = here /\ made' = made
    BY <1>3 DEF Ask, Retry
  <2> QED BY <2>1, <2>2, AttemptGoes DEF DiscordInv
<1>4. CASE Announced(m) \/ Closed(m) \/ Timer(m)
  <2>1. /\ remaking' = remaking /\ commands' = commands /\ failed' = failed
        /\ here' = here /\ made' = made
    BY <1>4 DEF Announced, Closed, Timer
  <2> QED BY <1>4, <2>1, AnnouncedGoes, ClosedGoes, TimerGoes DEF DiscordInv
<1>5. CASE \E how \in {"answer", "escalate", "aborted"} : AskEnds(m, how)
  <2>1. PICK how \in {"answer", "escalate", "aborted"} : AskEnds(m, how)
    BY <1>5
  <2>2. /\ remaking' = remaking /\ commands' = commands /\ failed' = failed
        /\ here' = here /\ made' = made
    BY <2>1 DEF AskEnds
  <2> QED BY <2>1, <2>2, AskEndsGoes DEF DiscordInv
<1> QED BY <1>1, <1>2, <1>3, <1>4, <1>5 DEF Moves

LEMMA UserMovesGoes ==
  ASSUME DiscordInv, UserMoves
  PROVE  DiscordInv'
<1>1. commands' \in Nat
  <2>1. commands \in Nat /\ commands' = commands + 1
    BY DEF DiscordInv, UserMoves, Interaction, Destroy, Cancel, Escalate, Deescalate, Dir,
           Command
  <2> QED BY <2>1
<1>2. CASE Destroy
  <2>1. here' = 0 /\ made' = made /\ remaking' = remaking /\ failed' = failed
    BY <1>2 DEF Destroy
  <2>2. 0 \in 0..Objects
    BY DiscordAssumption
  <2> QED BY <1>1, <1>2, <2>1, <2>2, DestroyGoes DEF DiscordInv
<1>3. CASE Cancel
  <2>1. here' = here /\ made' = made /\ remaking' = remaking /\ failed' = failed
    BY <1>3 DEF Cancel
  <2> QED BY <1>1, <1>3, <2>1, CancelGoes DEF DiscordInv
<1>4. CASE Escalate
  <2>1. here' = here /\ made' = made /\ remaking' = remaking /\ failed' = failed
    BY <1>4 DEF Escalate
  <2> QED BY <1>1, <1>4, <2>1, EscalateGoes DEF DiscordInv
<1>5. CASE Deescalate \/ Dir
  <2>1. here \in 1..Objects
    BY <1>5, HereIs DEF Deescalate, Dir
  <2>2. PICK new \in Session : /\ new.queue = <<>> /\ Keeps(object[here], new)
                               /\ Remaking(here, new)
    <3>1. CASE Deescalate
      BY <2>1, <3>1, UnmadeIs DEF Deescalate
    <3>2. CASE Dir
      BY <2>1, <3>2, UnmadeIs DEF Dir
    <3> QED BY <1>5, <3>1, <3>2
  <2>3. here' = here /\ made' = made /\ failed' = failed
    BY <2>2 DEF Remaking
  <2> QED BY <1>1, <2>1, <2>2, <2>3, RemakingGoes DEF DiscordInv
<1> QED BY <1>2, <1>3, <1>4, <1>5 DEF UserMoves, Interaction

LEMMA DiscordInvNext == DiscordInv /\ [DiscordNext]_dvars => DiscordInv'
<1> SUFFICES ASSUME DiscordInv, [DiscordNext]_dvars PROVE DiscordInv'
  OBVIOUS
<1>1. CASE \E m \in Messages :
             Finally(m) \/ Arrive(m) \/ Watchdog(m) \/ CompactionEnds(m)
  <2>1. PICK m \in Messages : Finally(m) \/ Arrive(m) \/ Watchdog(m) \/ CompactionEnds(m)
    BY <1>1
  <2>2. /\ remaking' = remaking /\ commands' = commands /\ failed' = failed
        /\ here' = here /\ made' = made
    BY <2>1 DEF Finally, Arrive, Watchdog, CompactionEnds
  <2> QED BY <2>1, <2>2, FinallyGoes, ArriveGoes, WatchdogGoes, CompactionEndsGoes
          DEF DiscordInv
<1>2. CASE \E m \in Messages : Moves(m)
  BY <1>2, MovesGoes
<1>3. CASE UserMoves
  BY <1>3, UserMovesGoes
<1>4. CASE \E o \in 1..Objects, ok \in BOOLEAN : RemakeEnds(o, ok)
  <2>1. PICK o \in 1..Objects, ok \in BOOLEAN : RemakeEnds(o, ok)
    BY <1>4
  <2>2. here' = here /\ made' = made /\ commands' = commands /\ failed' \in BOOLEAN
    BY <2>1 DEF RemakeEnds, Failing
  <2> QED BY <2>1, <2>2, RemakeEndsGoes DEF DiscordInv
<1>5. CASE UNCHANGED dvars
  BY <1>5 DEF dvars, DiscordInv, Good, Seated, QueueOf, Own
<1> QED BY <1>1, <1>2, <1>3, <1>4, <1>5 DEF DiscordNext

\* Messages, sessions and queues fit together through every order of turns, escalations,
\* watchdogs and commands (processMessage, recreateSession, finishTurn of discord.ts).
THEOREM DiscordInvariant == DiscordSpec => []DiscordInv
BY DiscordInvInit, DiscordInvNext, PTL DEF DiscordSpec

\* The finally block of an older turn never ends a newer one (finishTurn): a session is in
\* flight as long as its last turn runs, unless its AgentSession is made anew under it.
THEOREM TurnsAreTheirOwn == DiscordSpec => []OwnTurn
<1>1. DiscordInv => OwnTurn
  BY DEF DiscordInv, Good, Own, OwnTurn, At, Of, Id
<1> QED BY <1>1, DiscordInvariant, PTL
=============================================================================
