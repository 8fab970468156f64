-------------------------- MODULE CodexTurnProofs --------------------------
(***************************************************************************)
(* Proofs about CodexTurn, for every number of attempts, messages and      *)
(* retries: the types; every message ends at most once and a send that     *)
(* throws has no end (EndsOnce); a message is retried only when none of    *)
(* its turns runs (OneRun).                                                *)
(*                                                                         *)
(* Inv, the inductive invariant, has three layers:                         *)
(*                                                                         *)
(*  - Booked: what was sent, requested and answered agree;                 *)
(*  - Turns: at most one turn stands (it runs and was not abandoned), it   *)
(*    is of the last message, and the adapter follows it;                  *)
(*  - Waits: the office awaits the last message for as long as its end is  *)
(*    to come. send() starts its turn whatever the adapter follows, so     *)
(*    Turns holds only because the office does not send before that.       *)
(*                                                                         *)
(* Turns and Waits hold as long as no turn strayed, Waits until the stream *)
(* ends. Per action, a Frame lemma says what it leaves, a Sound lemma that *)
(* it keeps Booked and Turns, a Waits lemma that it keeps Waits.           *)
(***************************************************************************)
EXTENDS CodexTurn, TLAPS, WellFoundedInduction

-----------------------------------------------------------------------------
(* The parts of the invariant.                                             *)

\* The adapter starts the turn of attempt i.
Follows(i) == adapter.turn = [kind |-> "starting", attempt |-> i]

\* The watchdog ended the turn with this id; None where it had no name yet.
Abandoned(id) == adapter.gone = [on |-> TRUE, id |-> id]

\* A turn that runs and was not abandoned by its id.
Stands(i) == Live(i) /\ ~Abandoned(i)

\* Every attempt is of a message that was sent, and a turn has an answered
\* request. A client that is closed has no request in flight, and its stream
\* ends.
Booked ==
  /\ \A i \in Attempts :
       /\ engine.request[i] # "none" => engine.send[i] \in 1..office.sent
       /\ engine.turn[i] # "none" => engine.request[i] \in {"ok", "handled"}
       /\ engine.request[i] = "ok" => engine.turn[i] # "none"
       /\ engine.named[i] => engine.turn[i] # "none"
       /\ Follows(i) => engine.request[i] # "none"
       /\ engine.request[i] \in {"asked", "ok"} => ~adapter.ended
  /\ adapter.turn # Idle => office.sent > 0
  /\ adapter.turn.kind = "starting" <=> adapter.turn.attempt # None
  /\ \A k \in 1..MaxSends : k > office.sent => Ended(k) = 0
  /\ adapter.ended <=> adapter.closed \/ engine.exited
  /\ office.detached => adapter.ended

\* A request in flight is of the turn the adapter starts, and so is one that
\* was accepted, unless its turn is over already.
Asked ==
  \A i \in Attempts :
    /\ engine.request[i] = "asked" => Follows(i)
    /\ engine.request[i] = "ok" => (Live(i) <=> Follows(i))
    /\ Follows(i) =>
         /\ engine.send[i] = office.sent
         /\ engine.request[i] = "handled" => adapter.closed /\ engine.retry[i]
         /\ engine.turn[i] # "none" => engine.request[i] = "ok"

\* At most one turn stands.
OneStands == \A i, j \in Attempts : Stands(i) /\ Stands(j) => i = j

\* The turn that stands is of the last message, and it is the one the adapter
\* runs or starts, or the one it abandoned without a name.
Standing ==
  \A i \in Attempts : Stands(i) =>
    /\ engine.send[i] = office.sent
    /\ \/ engine.exited \/ adapter.turn.kind = "running" \/ Follows(i)
       \/ Abandoned(None)

\* A turn the adapter runs is one that stands.
Running == adapter.turn.kind = "running" => \E i \in Attempts : Stands(i)

\* A turn that was abandoned without a name is the only one there is.
Unnamed ==
  Abandoned(None) =>
    /\ adapter.turn = Idle /\ adapter.active = None
    /\ \A i \in Attempts : engine.request[i] # "ok"
    /\ \E i \in Attempts : Live(i)

\* Ids are of turns that were named.
Named ==
  \A i \in Attempts :
    /\ adapter.active = i => Stands(i) /\ engine.named[i]
    /\ Abandoned(i) => engine.named[i] /\ engine.request[i] = "handled"

\* An abandoned turn of the last message is the only one there is.
GoneCurrent ==
  \A i \in Attempts :
    Live(i) /\ Abandoned(i) /\ engine.send[i] = office.sent =>
      /\ adapter.turn = Idle
      /\ \A j \in Attempts : Live(j) => j = i

\* A turn whose end the adapter owes has had none.
Owed == adapter.turn # Idle /\ ~engine.exited => Ended(office.sent) = 0

\* An attempt of send() that has no turn.
Unanswered(i) ==
  ~engine.retry[i] /\ engine.request[i] \notin {"none", "ok"} /\ engine.turn[i] = "none"

\* The message of a send that may throw has no end, and no turn.
Phantoms ==
  \A i \in Attempts : Unanswered(i) =>
    /\ Ended(engine.send[i]) = 0
    /\ \A j \in Attempts :
         engine.request[j] # "none" /\ engine.send[j] = engine.send[i] => j = i
    /\ engine.send[i] = office.sent =>
         /\ adapter.turn = Idle \/ Follows(i)
         /\ \A j \in Attempts : ~Stands(j)

\* The adapter's turn and the engine's turns agree.
Turns ==
  /\ Asked /\ OneStands /\ Standing /\ Running /\ Unnamed /\ Named
  /\ GoneCurrent /\ Owed /\ Phantoms

\* The adapter waits for a turn that has not begun.
Fresh ==
  \/ adapter.turn.kind = "backoff"
  \/ \E i \in Attempts : Follows(i) /\ engine.turn[i] = "none"

\* The flags of an error are of the turn that stands, which met it.
Errs ==
  /\ \A i \in Attempts :
       /\ Live(i) /\ (Abandoned(i) \/ Abandoned(None)) => engine.turn[i] = "erred"
       /\ Stands(i) =>
            /\ adapter.dog => engine.turn[i] = "erred"
            /\ engine.turn[i] = "live" => ~adapter.capacity /\ ~adapter.limit
  /\ ~(adapter.capacity /\ adapter.limit)
  /\ Fresh =>
       /\ ~adapter.dog /\ ~adapter.limit
       /\ adapter.capacity => adapter.turn.kind = "backoff"
       /\ \A i \in Attempts : ~Stands(i)

\* The end of the last message is to come, and nothing on its way settles the
\* office's turn before.
Unsettled ==
  \/ Fresh \/ adapter.reading # {}
  \/ \E i \in Attempts :
       /\ Stands(i) /\ ~Abandoned(None)
       /\ engine.turn[i] = "live" \/ adapter.capacity \/ adapter.limit

\* The office still waits for a message whose end is to come.
Awaits ==
  /\ Unsettled => out = <<>> /\ office.call # "none" /\ ~office.settled
  /\ adapter.reading # {} => adapter.turn = Idle /\ adapter.reading = {office.sent}

\* A refused request is of the turn the adapter starts.
Refusals == \A i \in Attempts : engine.request[i] = "bad" => Follows(i)

\* The office awaits the message whose end is to come.
Waits == Errs /\ Awaits /\ Refusals

\* The turns as long as none strayed, and the office until the stream ends.
Tracked == office.strayed \/ (Turns /\ (adapter.ended \/ Waits))

\* The ends of every message, but those in K, are as before.
EndsOnly(K) == \A k \in (1..MaxSends) \ K : Ended(k)' = Ended(k)

\* What a step leaves alone: the engine's books,
EngineKept == UNCHANGED <<engine.send, engine.retry, engine.exited>>
\* the office's messages,
OfficeKept == UNCHANGED <<office.sent, office.strayed>>
\* and the flags of an error.
FlagsKept == UNCHANGED <<adapter.dog, adapter.capacity, adapter.limit>>

\* The type of the adapter's turn.
TurnType ==
  [kind : {"idle", "starting", "running", "backoff"},
   attempt : Attempts \cup {None}]

USE AttemptsAssumption, BoundsAssumption DEF None

-----------------------------------------------------------------------------
(* Types.                                                                  *)

\* A turn/start gets a fresh attempt.
LEMMA NextAttemptFree ==
  ASSUME FreeAttempts # {}
  PROVE  NextAttempt \in FreeAttempts
<1>1. FreeAttempts \subseteq Nat
  BY DEF FreeAttempts
<1>2. PICK i \in FreeAttempts :
        \A j \in FreeAttempts : ~ (<<j, i>> \in OpToRel(<, Nat))
  BY <1>1, NatLessThanWellFounded, WFMin
<1>3. ASSUME NEW j \in Nat, NEW k \in Nat, j < k
      PROVE  <<j, k>> \in OpToRel(<, Nat)
  BY <1>3, Zenon DEF OpToRel
<1>4. \A j \in FreeAttempts : ~ (j < i)
  BY <1>1, <1>2, <1>3, Zenon
<1>5. \A j \in FreeAttempts : i <= j
  BY <1>1, <1>4
<1> QED BY <1>5 DEF NextAttempt

\* The turns the adapter can follow.
LEMMA TurnTypes ==
  /\ Idle \in TurnType
  /\ \A i \in Attempts : [kind |-> "starting", attempt |-> i] \in TurnType
  /\ \A kind \in {"running", "backoff"} :
       [kind |-> kind, attempt |-> None] \in TurnType
BY DEF TurnType, Idle

\* The adapter takes another turn.
LEMMA SetTurnTyped ==
  ASSUME NEW a \in Adapter, NEW t \in TurnType
  PROVE  [a EXCEPT !.turn = t] \in Adapter
BY DEF Adapter, TurnType

\* What the adapter knew of the attempt is forgotten.
LEMMA ClearTyped ==
  ASSUME NEW a \in Adapter
  PROVE  ClearCapacityRetry(a) \in Adapter
<1>1. 0 \in 0..MaxRetries
  OBVIOUS
<1> QED BY <1>1 DEF ClearCapacityRetry, Adapter

\* An event of a message that was sent is an event of the stream.
LEMMA EmitsTyped ==
  ASSUME TypeOK, NEW k \in 1..MaxSends, Emits(k)
  PROVE  out' \in Seq(Event) /\ ends' \in [1..MaxSends -> Nat]
<1>1. [what |-> "end", send |-> k] \in Event
  BY DEF Event
<1> HIDE DEF Event
<1> QED BY <1>1 DEF Emits, TypeOK

\* The stream is left alone.
LEMMA NoEventTyped ==
  ASSUME TypeOK, NoEvent
  PROVE  out' \in Seq(Event) /\ ends' \in [1..MaxSends -> Nat]
BY DEF NoEvent, TypeOK

\* No end enters the stream.
LEMMA NoEventEnds ==
  ASSUME NoEvent, adapter'.reading = adapter.reading
  PROVE  EndsOnly({})
BY DEF EndsOnly, NoEvent, Ended

\* One end enters the stream.
LEMMA EmitsEnds ==
  ASSUME TypeOK, NEW k \in 1..MaxSends, Emits(k), adapter'.reading = adapter.reading
  PROVE  EndsOnly({k})
BY DEF EndsOnly, Emits, Ended, TypeOK

\* One field of the engine changes for one attempt.
LEMMA RequestSet ==
  ASSUME TypeOK, NEW i \in Attempts, NEW r \in {"ok", "bad", "handled"},
         engine' = [engine EXCEPT !.request[i] = r]
  PROVE  /\ engine' \in Engine /\ EngineKept
         /\ engine'.request = [engine.request EXCEPT ![i] = r]
         /\ engine'.turn = engine.turn /\ engine'.named = engine.named
<1>1. engine' \in Engine
  BY DEF TypeOK, Engine
<1>2. /\ engine'.send = engine.send /\ engine'.retry = engine.retry
      /\ engine'.exited = engine.exited
      /\ engine'.turn = engine.turn /\ engine'.named = engine.named
  BY DEF TypeOK, Engine
<1>3. engine'.request = [engine.request EXCEPT ![i] = r]
  BY DEF TypeOK, Engine
<1> QED BY <1>1, <1>2, <1>3 DEF EngineKept

\* The state of a turn changes.
LEMMA TurnSet ==
  ASSUME TypeOK, NEW i \in Attempts, NEW r \in {"live", "erred", "over"},
         engine' = [engine EXCEPT !.turn[i] = r]
  PROVE  /\ engine' \in Engine /\ EngineKept
         /\ engine'.turn = [engine.turn EXCEPT ![i] = r]
         /\ engine'.request = engine.request /\ engine'.named = engine.named
<1>1. engine' \in Engine
  BY DEF TypeOK, Engine
<1>2. /\ engine'.send = engine.send /\ engine'.retry = engine.retry
      /\ engine'.exited = engine.exited
      /\ engine'.request = engine.request /\ engine'.named = engine.named
  BY DEF TypeOK, Engine
<1>3. engine'.turn = [engine.turn EXCEPT ![i] = r]
  BY DEF TypeOK, Engine
<1> QED BY <1>1, <1>2, <1>3 DEF EngineKept

\* A request is recorded with the message it is of.
LEMMA RequestsTyped ==
  ASSUME TypeOK, NEW i \in Attempts, NEW k \in 0..MaxSends, NEW retry \in BOOLEAN,
         Requests(i, k, retry)
  PROVE  /\ engine' \in Engine
         /\ engine'.send = [engine.send EXCEPT ![i] = k]
         /\ engine'.retry = [engine.retry EXCEPT ![i] = retry]
         /\ engine'.request =
              [engine.request EXCEPT ![i] = IF engine.exited \/ adapter.closed
                                              THEN "bad" ELSE "asked"]
         /\ engine'.turn = engine.turn /\ engine'.named = engine.named
         /\ engine'.exited = engine.exited
<1> DEFINE r == IF engine.exited \/ adapter.closed THEN "bad" ELSE "asked"
           e == [engine EXCEPT !.send[i] = k, !.retry[i] = retry, !.request[i] = r]
<1>1. engine' = e /\ r \in {"bad", "asked"}
  BY DEF Requests
<1> HIDE DEF r
<1>2. e \in Engine
  BY <1>1 DEF TypeOK, Engine
<1>3. e.send = [engine.send EXCEPT ![i] = k] /\ e.retry = [engine.retry EXCEPT ![i] = retry]
  BY DEF TypeOK, Engine
<1>4. e.request = [engine.request EXCEPT ![i] = r]
  BY DEF TypeOK, Engine
<1>5. e.turn = engine.turn /\ e.named = engine.named /\ e.exited = engine.exited
  BY DEF TypeOK, Engine
<1> HIDE DEF e
<1> QED BY <1>1, <1>2, <1>3, <1>4, <1>5 DEF r

\* send() names a message that was not sent, and starts its turn.
LEMMA SendFrame ==
  ASSUME TypeOK, Send
  PROVE  /\ TypeOK' /\ EndsOnly({}) /\ ~office.detached /\ ~adapter.ended
         /\ out = <<>> /\ office.call = "none"
         /\ \A j \in Attempts : engine.request[j] \notin {"ok", "bad"}
         /\ out' = <<>> /\ office'.call = "sending" /\ ~office'.settled
         /\ ~adapter'.dog /\ ~adapter'.capacity /\ ~adapter'.limit
         /\ UNCHANGED <<adapter.reading, adapter.ended, office.detached>>
         /\ office'.sent = office.sent + 1
         /\ office'.strayed = (office.strayed \/ Stray # {})
         /\ UNCHANGED <<adapter.active, adapter.gone, adapter.closed>>
         /\ \E i \in Attempts :
              /\ engine.request[i] = "none"
              /\ adapter'.turn = [kind |-> "starting", attempt |-> i]
              /\ Requests(i, office.sent + 1, FALSE)
<1>1. PICK i \in Attempts : i = NextAttempt /\ engine.request[i] = "none"
  BY NextAttemptFree DEF Send, FreeAttempts
<1>2. PICK k \in 0..MaxSends : k \in 1..MaxSends /\ k = office.sent + 1
  BY DEF Send, TypeOK, Office
<1> DEFINE c == ClearCapacityRetry(adapter)
           t == [kind |-> "starting", attempt |-> i]
           d == [c EXCEPT !.dog = FALSE, !.limit = FALSE, !.turn = t]
           s == office.strayed \/ Stray # {}
<1>3. /\ adapter' = d /\ Requests(i, k, FALSE) /\ NoEvent
      /\ office' = [office EXCEPT !.sent = k, !.call = "sending",
                                  !.settled = FALSE, !.strayed = s]
  BY <1>1, <1>2 DEF Send
<1>4. c \in Adapter
  BY ClearTyped DEF TypeOK
<1>5. /\ c.active = adapter.active /\ c.gone = adapter.gone
      /\ c.closed = adapter.closed /\ c.reading = adapter.reading
      /\ c.ended = adapter.ended /\ c.capacity = FALSE
  BY DEF ClearCapacityRetry, TypeOK, Adapter
<1>6. t \in TurnType
  BY TurnTypes
<1> HIDE DEF c, t
<1>7. d \in Adapter /\ s \in BOOLEAN
  BY <1>4, <1>6 DEF Adapter, TurnType
<1>8. /\ d.turn = t /\ d.active = c.active /\ d.gone = c.gone
      /\ d.closed = c.closed /\ d.reading = c.reading /\ d.ended = c.ended
      /\ d.dog = FALSE /\ d.limit = FALSE /\ d.capacity = c.capacity
  BY <1>4 DEF Adapter
<1> HIDE DEF d, s
<1>9. office' \in Office
  BY <1>2, <1>3, <1>7 DEF TypeOK, Office
<1>10. /\ office'.sent = k /\ office'.strayed = s
       /\ office'.call = "sending" /\ office'.settled = FALSE
       /\ office'.detached = office.detached
  BY <1>3 DEF TypeOK, Office
<1>11. TypeOK'
  BY <1>3, <1>7, <1>9, NoEventTyped, RequestsTyped DEF TypeOK
<1>12. EndsOnly({})
  BY <1>3, <1>5, <1>8, NoEventEnds
<1>13. /\ ~office.detached /\ ~adapter.ended /\ out = <<>> /\ office.call = "none"
       /\ \A j \in Attempts : engine.request[j] \notin {"ok", "bad"}
       /\ out' = out
  BY <1>3 DEF Send, NextEvent, Answered, NoEvent
<1> QED BY <1>1, <1>2, <1>3, <1>5, <1>8, <1>10, <1>11, <1>12, <1>13 DEF s, t

\* The engine answers a request.
LEMMA EngineAnswersFrame ==
  ASSUME TypeOK, NEW i \in Attempts, NEW ok \in BOOLEAN, EngineAnswers(i, ok)
  PROVE  /\ TypeOK' /\ EngineKept /\ UNCHANGED <<adapter, office, out>>
         /\ EndsOnly({})
         /\ \A j \in Attempts : engine.request[j] \notin {"ok", "bad"}
         /\ engine.request[i] = "asked" /\ ~engine.exited
         /\ engine'.named = engine.named
         /\ engine'.request = [engine.request EXCEPT ![i] = IF ok THEN "ok" ELSE "bad"]
         /\ engine'.turn = IF ok THEN [engine.turn EXCEPT ![i] = "live"] ELSE engine.turn
<1> DEFINE r == IF ok THEN "ok" ELSE "bad"
           t == IF ok THEN "live" ELSE engine.turn[i]
<1>1. /\ engine' = [engine EXCEPT !.request[i] = r, !.turn[i] = t]
      /\ UNCHANGED <<adapter, office, out, ends>>
      /\ engine.request[i] = "asked" /\ ~engine.exited
      /\ \A j \in Attempts : engine.request[j] \notin {"ok", "bad"}
  BY DEF EngineAnswers, NextEvent, Answered
<1>2. engine \in Engine /\ r \in {"ok", "bad"} /\ t \in {"none", "live", "erred", "over"}
  BY DEF TypeOK, Engine
<1> HIDE DEF r, t
<1>3. engine' \in Engine
  BY <1>1, <1>2 DEF Engine
<1>4. EngineKept /\ engine'.named = engine.named
  BY <1>1, <1>2 DEF Engine, EngineKept
<1>5. engine'.request = [engine.request EXCEPT ![i] = r]
  BY <1>1, <1>2 DEF Engine
<1>6. engine'.turn = [engine.turn EXCEPT ![i] = t]
  BY <1>1, <1>2 DEF Engine
<1>7. ~ok => engine'.turn = engine.turn
  BY <1>2, <1>6 DEF t, Engine
<1>8. TypeOK'
  BY <1>1, <1>3 DEF TypeOK
<1> QED BY <1>1, <1>4, <1>5, <1>6, <1>7, <1>8, NoEventEnds DEF r, t, NoEvent

\* An answer is handled.
LEMMA AcceptedFrame ==
  ASSUME TypeOK, NEW i \in Attempts, SendReturns(i) \/ RetryReturns(i)
  PROVE  /\ TypeOK' /\ EngineKept /\ OfficeKept /\ EndsOnly({})
         /\ engine.request[i] = "ok"
         /\ engine'.named = engine.named /\ engine'.turn = engine.turn
         /\ engine'.request = [engine.request EXCEPT ![i] = "handled"]
         /\ UNCHANGED <<adapter.active, adapter.closed, adapter.ended, out>>
         /\ FlagsKept /\ UNCHANGED <<adapter.reading, office.settled, office.detached>>
         /\ office.call # "none" /\ ~office.settled => office'.call # "none"
         /\ \/ UNCHANGED <<adapter.turn, adapter.gone>> /\ adapter.closed
            \/ /\ adapter'.turn = IF Follows(i) THEN [kind |-> "running", attempt |-> None]
                                   ELSE adapter.turn
               /\ adapter'.gone = IF adapter.gone.on /\ adapter.gone.id = None
                                    THEN NotGone ELSE adapter.gone
<1> DEFINE t == IF Follows(i) THEN [kind |-> "running", attempt |-> None]
                ELSE adapter.turn
           g == IF adapter.gone.on /\ adapter.gone.id = None THEN NotGone
                ELSE adapter.gone
           d == [adapter EXCEPT !.turn = t, !.gone = g]
<1>1. /\ engine' = [engine EXCEPT !.request[i] = "handled"]
      /\ engine.request[i] = "ok" /\ NoEvent
  BY DEF SendReturns, RetryReturns
<1>2. adapter' = d \/ (adapter' = adapter /\ adapter.closed)
  BY DEF SendReturns, RetryReturns, StartAccepted, Follows
<1>3. adapter \in Adapter
  BY DEF TypeOK
<1>4. t \in TurnType
  BY <1>3, TurnTypes DEF TurnType, Adapter
<1>5. g \in [on : BOOLEAN, id : Attempts \cup {None}]
  BY <1>3 DEF Adapter, NotGone
<1> HIDE DEF t, g
<1>6. d \in Adapter
  BY <1>3, <1>4, <1>5 DEF Adapter, TurnType
<1>7. /\ d.turn = t /\ d.gone = g /\ d.active = adapter.active
      /\ d.closed = adapter.closed /\ d.reading = adapter.reading
      /\ d.ended = adapter.ended /\ d.dog = adapter.dog
      /\ d.capacity = adapter.capacity /\ d.limit = adapter.limit
  BY <1>3 DEF Adapter
<1> HIDE DEF d
<1>8. /\ office' \in Office /\ OfficeKept
      /\ UNCHANGED <<office.settled, office.detached>>
      /\ office.call # "none" /\ ~office.settled => office'.call # "none"
  <2> DEFINE c == IF office.settled THEN "none" ELSE "waiting"
  <2>1. office' = office \/ office' = [office EXCEPT !.call = c]
    BY DEF SendReturns, RetryReturns
  <2>2. c \in {"none", "waiting"} /\ office \in Office
    BY DEF TypeOK
  <2>5. ~office.settled => c # "none"
    OBVIOUS
  <2> HIDE DEF c
  <2>3. office' \in Office
    BY <2>1, <2>2 DEF Office
  <2>4. /\ OfficeKept /\ UNCHANGED <<office.settled, office.detached>>
        /\ office'.call \in {office.call, c}
    BY <2>1, <2>2 DEF Office, OfficeKept
  <2> QED BY <2>3, <2>4, <2>5
<1>9. /\ engine' \in Engine /\ EngineKept
      /\ engine'.request = [engine.request EXCEPT ![i] = "handled"]
      /\ engine'.turn = engine.turn /\ engine'.named = engine.named
  BY <1>1, RequestSet
<1>10. TypeOK'
  BY <1>1, <1>2, <1>3, <1>6, <1>8, <1>9, NoEventTyped DEF TypeOK
<1>11. EndsOnly({})
  BY <1>1, <1>2, <1>7, NoEventEnds
<1>12. adapter'.reading = adapter.reading /\ FlagsKept /\ out' = out
  BY <1>1, <1>2, <1>7 DEF FlagsKept, NoEvent
<1> QED BY <1>1, <1>2, <1>7, <1>8, <1>9, <1>10, <1>11, <1>12 DEF t, g

\* send() throws: its turn/start was refused.
LEMMA SendThrowsFrame ==
  ASSUME TypeOK, NEW i \in Attempts, SendThrows(i)
  PROVE  /\ TypeOK' /\ EngineKept /\ OfficeKept /\ EndsOnly({})
         /\ engine.request[i] = "bad" /\ ~engine.retry[i]
         /\ engine'.named = engine.named /\ engine'.turn = engine.turn
         /\ engine'.request = [engine.request EXCEPT ![i] = "handled"]
         /\ UNCHANGED <<adapter.active, adapter.gone, adapter.closed, adapter.ended>>
         /\ FlagsKept /\ UNCHANGED <<adapter.reading, office.detached>>
         /\ adapter'.turn = IF Follows(i) THEN Idle ELSE adapter.turn
<1> DEFINE t == IF Follows(i) THEN Idle ELSE adapter.turn
           d == [adapter EXCEPT !.turn = t]
<1>1. /\ engine' = [engine EXCEPT !.request[i] = "handled"]
      /\ engine.request[i] = "bad" /\ ~engine.retry[i] /\ NoEvent
      /\ adapter' = d /\ office' = [office EXCEPT !.call = "none"]
  BY DEF SendThrows, Follows
<1>2. adapter \in Adapter /\ office \in Office
  BY DEF TypeOK
<1>3. t \in TurnType
  BY <1>2, TurnTypes DEF TurnType, Adapter
<1> HIDE DEF t
<1>4. d \in Adapter
  BY <1>2, <1>3, SetTurnTyped
<1>5. /\ d.turn = t /\ d.gone = adapter.gone /\ d.active = adapter.active
      /\ d.closed = adapter.closed /\ d.reading = adapter.reading
      /\ d.ended = adapter.ended /\ d.dog = adapter.dog
      /\ d.capacity = adapter.capacity /\ d.limit = adapter.limit
  BY <1>2 DEF Adapter
<1> HIDE DEF d
<1>6. office' \in Office
  BY <1>1, <1>2 DEF Office
<1>7. OfficeKept /\ office'.detached = office.detached
  BY <1>1, <1>2 DEF Office, OfficeKept
<1>8. /\ engine' \in Engine /\ EngineKept
      /\ engine'.request = [engine.request EXCEPT ![i] = "handled"]
      /\ engine'.turn = engine.turn /\ engine'.named = engine.named
  BY <1>1, RequestSet
<1>9. TypeOK'
  BY <1>1, <1>4, <1>6, <1>8, NoEventTyped DEF TypeOK
<1>10. EndsOnly({})
  BY <1>1, <1>5, NoEventEnds
<1> QED BY <1>1, <1>5, <1>7, <1>8, <1>9, <1>10 DEF t, FlagsKept

\* The message the adapter's turn is of.
LEMMA SentTyped ==
  ASSUME TypeOK, Booked
  PROVE  /\ adapter.turn # Idle => office.sent \in 1..MaxSends
         /\ \A i \in Attempts :
              engine.request[i] # "none" => engine.send[i] \in 1..MaxSends
<1>1. office.sent \in 0..MaxSends
  BY DEF TypeOK, Office
<1> QED BY <1>1 DEF Booked

\* A retry whose turn/start was refused ends the turn.
LEMMA RetryFailsFrame ==
  ASSUME TypeOK, Booked, NEW i \in Attempts, RetryFails(i)
  PROVE  /\ TypeOK' /\ EngineKept /\ OfficeKept
         /\ engine.request[i] = "bad" /\ engine.retry[i]
         /\ engine'.named = engine.named /\ engine'.turn = engine.turn
         /\ engine'.request = [engine.request EXCEPT ![i] = "handled"]
         /\ UNCHANGED <<adapter.active, adapter.gone, adapter.closed, adapter.ended>>
         /\ \/ /\ adapter'.turn = adapter.turn /\ EndsOnly({})
               /\ adapter.closed \/ ~Follows(i)
            \/ /\ adapter'.turn = Idle /\ Follows(i) /\ FlagsKept
               /\ EndsOnly({engine.send[i]})
         /\ UNCHANGED <<adapter.reading, office.detached>>
<1> DEFINE d == [adapter EXCEPT !.turn = Idle]
<1>1. /\ engine' = [engine EXCEPT !.request[i] = "handled"]
      /\ engine.request[i] = "bad" /\ engine.retry[i] /\ office' = office
      /\ \/ adapter' = adapter /\ NoEvent /\ (adapter.closed \/ ~Follows(i))
         \/ adapter' = d /\ Emits(engine.send[i]) /\ Follows(i)
  BY DEF RetryFails, Follows
<1>2. adapter \in Adapter
  BY DEF TypeOK
<1>3. d \in Adapter
  BY <1>2, TurnTypes, SetTurnTyped
<1>4. /\ d.turn = Idle /\ d.gone = adapter.gone /\ d.active = adapter.active
      /\ d.closed = adapter.closed /\ d.reading = adapter.reading
      /\ d.ended = adapter.ended /\ d.dog = adapter.dog
      /\ d.capacity = adapter.capacity /\ d.limit = adapter.limit
  BY <1>2 DEF Adapter
<1> HIDE DEF d
<1>5. PICK k \in 1..MaxSends : k = engine.send[i]
  BY <1>1, SentTyped
<1>6. out' \in Seq(Event) /\ ends' \in [1..MaxSends -> Nat]
  BY <1>1, <1>5, EmitsTyped, NoEventTyped
<1>7. OfficeKept /\ office' \in Office
  BY <1>1 DEF OfficeKept, TypeOK
<1>8. /\ engine' \in Engine /\ EngineKept
      /\ engine'.request = [engine.request EXCEPT ![i] = "handled"]
      /\ engine'.turn = engine.turn /\ engine'.named = engine.named
  BY <1>1, RequestSet
<1>9. TypeOK'
  BY <1>1, <1>2, <1>3, <1>6, <1>7, <1>8 DEF TypeOK
<1>10. CASE adapter' = adapter /\ NoEvent /\ (adapter.closed \/ ~Follows(i))
  BY <1>1, <1>7, <1>8, <1>9, <1>10, NoEventEnds
<1>11. CASE adapter' = d /\ Emits(engine.send[i]) /\ Follows(i)
  BY <1>1, <1>4, <1>5, <1>7, <1>8, <1>9, <1>11, EmitsEnds DEF FlagsKept
<1> QED BY <1>1, <1>10, <1>11

\* The engine names its turn.
LEMMA TurnStartedFrame ==
  ASSUME TypeOK, NEW i \in Attempts, TurnStarted(i)
  PROVE  /\ TypeOK' /\ EngineKept /\ OfficeKept /\ EndsOnly({})
         /\ Live(i) /\ ~engine.named[i]
         /\ engine'.request = engine.request /\ engine'.turn = engine.turn
         /\ engine'.named = [engine.named EXCEPT ![i] = TRUE]
         /\ UNCHANGED <<adapter.turn, adapter.closed, adapter.ended>>
         /\ FlagsKept /\ UNCHANGED <<adapter.reading, office, out>>
         /\ IF adapter.gone = [on |-> TRUE, id |-> None] /\ adapter.turn = Idle
              THEN /\ adapter'.gone = [on |-> TRUE, id |-> i]
                   /\ adapter'.active = adapter.active
            ELSE adapter'.gone = adapter.gone /\ adapter'.active = i
<1> DEFINE d == [adapter EXCEPT !.gone.id = i]
           e == [adapter EXCEPT !.active = i]
           unnamed == adapter.gone = [on |-> TRUE, id |-> None] /\ adapter.turn = Idle
<1>1. /\ Live(i) /\ ~engine.named[i]
      /\ engine' = [engine EXCEPT !.named[i] = TRUE]
      /\ adapter' = IF unnamed THEN d ELSE e
      /\ office' = office /\ NoEvent
  BY DEF TurnStarted, Notifies
<1>2. adapter \in Adapter /\ engine \in Engine
  BY DEF TypeOK
<1>3. d \in Adapter /\ e \in Adapter
  BY <1>2 DEF Adapter
<1>4. /\ d.turn = adapter.turn /\ d.closed = adapter.closed
      /\ d.reading = adapter.reading /\ d.ended = adapter.ended
      /\ d.active = adapter.active /\ d.dog = adapter.dog
      /\ d.capacity = adapter.capacity /\ d.limit = adapter.limit
  BY <1>2 DEF Adapter
<1>5. unnamed => d.gone = [on |-> TRUE, id |-> i]
  <2>1. d.gone \in [on : BOOLEAN, id : Attempts \cup {None}]
    BY <1>3 DEF Adapter
  <2>2. d.gone.on = adapter.gone.on /\ d.gone.id = i
    BY <1>2 DEF Adapter
  <2>3. unnamed => adapter.gone.on = TRUE
    OBVIOUS
  <2> HIDE DEF d, unnamed
  <2>4. d.gone = [on |-> d.gone.on, id |-> d.gone.id]
    BY <2>1
  <2> QED BY <2>2, <2>3, <2>4
<1>6. /\ e.turn = adapter.turn /\ e.closed = adapter.closed
      /\ e.reading = adapter.reading /\ e.ended = adapter.ended
      /\ e.gone = adapter.gone /\ e.active = i /\ e.dog = adapter.dog
      /\ e.capacity = adapter.capacity /\ e.limit = adapter.limit
  BY <1>2 DEF Adapter
<1> HIDE DEF d, e
<1>7. engine' \in Engine
  BY <1>1, <1>2 DEF Engine
<1>8. /\ EngineKept /\ engine'.request = engine.request
      /\ engine'.turn = engine.turn
  BY <1>1, <1>2 DEF Engine, EngineKept
<1>9. engine'.named = [engine.named EXCEPT ![i] = TRUE]
  BY <1>1, <1>2 DEF Engine
<1>10. TypeOK'
  BY <1>1, <1>3, <1>7, NoEventTyped DEF TypeOK
<1>11. EndsOnly({}) /\ OfficeKept
  BY <1>1, <1>4, <1>6, NoEventEnds DEF OfficeKept
<1>12. FlagsKept /\ adapter'.reading = adapter.reading /\ out' = out
  BY <1>1, <1>4, <1>6 DEF FlagsKept, NoEvent
<1> QED BY <1>1, <1>4, <1>5, <1>6, <1>8, <1>9, <1>10, <1>11, <1>12

\* settleTurn lets one end out, at once or after its read.
LEMMA SettleTurnFrame ==
  ASSUME TypeOK, NEW a \in Adapter, NEW k \in 1..MaxSends, NEW held \in BOOLEAN,
         SettleTurn(a, k, held), a.reading = adapter.reading
  PROVE  /\ adapter' \in Adapter /\ adapter'.turn = Idle
         /\ out' \in Seq(Event) /\ ends' \in [1..MaxSends -> Nat]
         /\ adapter'.active = a.active /\ adapter'.gone = a.gone
         /\ adapter'.closed = a.closed /\ adapter'.ended = a.ended
         /\ adapter'.dog = a.dog /\ ~adapter'.capacity /\ ~adapter'.limit
         /\ \/ adapter'.reading = adapter.reading
            \/ held /\ adapter'.reading = adapter.reading \cup {k} /\ out' = out
         /\ EndsOnly({k})
<1> DEFINE c == [a EXCEPT !.turn = Idle, !.limit = FALSE]
           b == ClearCapacityRetry(c)
           h == [b EXCEPT !.reading = @ \cup {k}]
<1>1. c \in Adapter
  BY TurnTypes DEF Adapter, TurnType
<1>2. /\ c.turn = Idle /\ c.active = a.active /\ c.gone = a.gone
      /\ c.closed = a.closed /\ c.ended = a.ended /\ c.reading = a.reading
      /\ c.dog = a.dog /\ c.limit = FALSE
  BY DEF Adapter
<1>3. \/ adapter' = h /\ NoEvent /\ held
      \/ adapter' = b /\ Emits(k)
  BY DEF SettleTurn
<1> HIDE DEF c
<1>4. b \in Adapter
  BY <1>1, ClearTyped
<1>5. /\ b.turn = c.turn /\ b.active = c.active /\ b.gone = c.gone
      /\ b.closed = c.closed /\ b.ended = c.ended /\ b.reading = c.reading
      /\ b.dog = c.dog /\ b.limit = c.limit /\ b.capacity = FALSE
  BY <1>1 DEF ClearCapacityRetry, Adapter
<1> HIDE DEF b
<1>6. h \in Adapter
  BY <1>4 DEF Adapter
<1>7. /\ h.turn = b.turn /\ h.active = b.active /\ h.gone = b.gone
      /\ h.closed = b.closed /\ h.ended = b.ended
      /\ h.reading = b.reading \cup {k} /\ h.dog = b.dog
      /\ h.limit = b.limit /\ h.capacity = b.capacity
  BY <1>4 DEF Adapter
<1> HIDE DEF h
<1>8. CASE adapter' = h /\ NoEvent /\ held
  <2>1. EndsOnly({k})
    BY <1>2, <1>5, <1>7, <1>8 DEF EndsOnly, NoEvent, Ended
  <2> QED BY <1>2, <1>5, <1>6, <1>7, <1>8, <2>1, NoEventTyped DEF NoEvent
<1>9. CASE adapter' = b /\ Emits(k)
  BY <1>2, <1>4, <1>5, <1>9, EmitsTyped, EmitsEnds
<1> QED BY <1>3, <1>8, <1>9

\* A turn/completed: its turn is over, and the adapter drops it, retries its
\* message or ends its own turn.
LEMMA TurnCompletedFrame ==
  ASSUME TypeOK, Booked, NEW i \in Attempts, NEW failed \in BOOLEAN,
         NEW held \in BOOLEAN, TurnCompleted(i, failed, held)
  PROVE  /\ TypeOK' /\ EngineKept /\ OfficeKept
         /\ Live(i)
         /\ engine'.request = engine.request /\ engine'.named = engine.named
         /\ engine'.turn = [engine.turn EXCEPT ![i] = "over"]
         /\ UNCHANGED <<adapter.closed, adapter.ended, office>>
         /\ \/ /\ Dropped(i) /\ EndsOnly({}) /\ adapter'.gone = NotGone
               /\ UNCHANGED <<adapter.turn, adapter.active>>
               /\ FlagsKept /\ UNCHANGED <<adapter.reading, out>>
            \/ /\ ~Dropped(i) /\ adapter'.gone = adapter.gone
               /\ adapter'.active = None /\ ~adapter'.dog
               /\ \/ /\ adapter'.turn.kind = "backoff" /\ adapter'.turn.attempt = None
                     /\ EndsOnly({}) /\ adapter.capacity
                     /\ UNCHANGED <<adapter.limit, adapter.reading, out>>
                  \/ /\ adapter'.turn = Idle /\ EndsOnly({engine.send[i]})
                     /\ ~adapter'.capacity /\ ~adapter'.limit
                     /\ \/ adapter'.reading = adapter.reading
                        \/ /\ adapter'.reading = adapter.reading \cup {engine.send[i]}
                           /\ out' = out
                           /\ adapter.limit \/ engine.turn[i] = "live"
<1> DEFINE a == [adapter EXCEPT !.dog = FALSE, !.active = None]
           g == [adapter EXCEPT !.gone = NotGone]
           t == [kind |-> "backoff", attempt |-> None]
           b == [a EXCEPT !.retries = @ + 1, !.turn = t]
<1>1. /\ held => adapter.limit \/ engine.turn[i] = "live"
      /\ Live(i) /\ engine' = [engine EXCEPT !.turn[i] = "over"] /\ office' = office
      /\ \/ Dropped(i) /\ adapter' = g /\ NoEvent
         \/ ~Dropped(i) /\ CanRetryCapacity(failed) /\ adapter' = b /\ NoEvent
         \/ ~Dropped(i) /\ SettleTurn(a, engine.send[i], held)
  BY DEF TurnCompleted, Notifies
<1>2. adapter \in Adapter
  BY DEF TypeOK
<1>3. a \in Adapter
  BY <1>2 DEF Adapter
<1>4. /\ a.turn = adapter.turn /\ a.active = None /\ a.gone = adapter.gone
      /\ a.closed = adapter.closed /\ a.ended = adapter.ended
      /\ a.reading = adapter.reading /\ a.retries = adapter.retries
      /\ a.dog = FALSE /\ a.capacity = adapter.capacity /\ a.limit = adapter.limit
  BY <1>2 DEF Adapter
<1>5. g \in Adapter
  BY <1>2 DEF Adapter, NotGone
<1>6. /\ g.turn = adapter.turn /\ g.active = adapter.active /\ g.gone = NotGone
      /\ g.closed = adapter.closed /\ g.ended = adapter.ended
      /\ g.reading = adapter.reading /\ g.dog = adapter.dog
      /\ g.capacity = adapter.capacity /\ g.limit = adapter.limit
  BY <1>2 DEF Adapter
<1>7. t \in TurnType /\ t.kind = "backoff" /\ t.attempt = None
  BY TurnTypes
<1> HIDE DEF a, g, t
<1>8. CanRetryCapacity(failed) => b \in Adapter
  <2>1. CanRetryCapacity(failed) => a.retries + 1 \in 0..MaxRetries
    BY <1>2, <1>4 DEF CanRetryCapacity, Adapter
  <2> QED BY <1>3, <1>7, <2>1 DEF Adapter, TurnType
<1>9. /\ b.turn = t /\ b.active = a.active /\ b.gone = a.gone
      /\ b.closed = a.closed /\ b.ended = a.ended /\ b.reading = a.reading
      /\ b.dog = a.dog /\ b.limit = a.limit
  BY <1>3 DEF Adapter
<1> HIDE DEF b
<1>10. /\ engine' \in Engine /\ EngineKept
       /\ engine'.turn = [engine.turn EXCEPT ![i] = "over"]
       /\ engine'.request = engine.request /\ engine'.named = engine.named
  BY <1>1, TurnSet
<1>11. office' \in Office /\ OfficeKept
  BY <1>1 DEF TypeOK, OfficeKept
<1>12. CASE Dropped(i) /\ adapter' = g /\ NoEvent
  <2>1. TypeOK' /\ EndsOnly({})
    BY <1>5, <1>6, <1>10, <1>11, <1>12, NoEventTyped, NoEventEnds DEF TypeOK
  <2> QED BY <1>1, <1>6, <1>10, <1>11, <1>12, <2>1 DEF FlagsKept, NoEvent
<1>13. CASE ~Dropped(i) /\ CanRetryCapacity(failed) /\ adapter' = b /\ NoEvent
  <2>1. TypeOK' /\ EndsOnly({})
    BY <1>4, <1>8, <1>9, <1>10, <1>11, <1>13, NoEventTyped, NoEventEnds DEF TypeOK
  <2>2. adapter.capacity /\ out' = out
    BY <1>13 DEF CanRetryCapacity, NoEvent
  <2> QED BY <1>1, <1>4, <1>7, <1>9, <1>10, <1>11, <1>13, <2>1, <2>2
<1>14. CASE ~Dropped(i) /\ SettleTurn(a, engine.send[i], held)
  <2>1. PICK k \in 1..MaxSends : k = engine.send[i]
    <3>1. engine.request[i] # "none"
      BY <1>1 DEF Booked, Live
    <3> QED BY <3>1, SentTyped
  <2>2. /\ adapter' \in Adapter /\ adapter'.turn = Idle
        /\ out' \in Seq(Event) /\ ends' \in [1..MaxSends -> Nat]
        /\ adapter'.active = a.active /\ adapter'.gone = a.gone
        /\ adapter'.closed = a.closed /\ adapter'.ended = a.ended
        /\ adapter'.dog = a.dog /\ ~adapter'.capacity /\ ~adapter'.limit
        /\ \/ adapter'.reading = adapter.reading
           \/ held /\ adapter'.reading = adapter.reading \cup {k} /\ out' = out
        /\ EndsOnly({k})
    <3>1. SettleTurn(a, k, held) /\ a.reading = adapter.reading
      BY <1>4, <1>14, <2>1
    <3> QED BY <1>3, <3>1, SettleTurnFrame
  <2>3. TypeOK'
    BY <1>10, <1>11, <2>2 DEF TypeOK
  <2> QED BY <1>1, <1>4, <1>10, <1>11, <1>14, <2>1, <2>2, <2>3
<1> QED BY <1>1, <1>12, <1>13, <1>14

\* A capacity retry starts its turn.
LEMMA RetryTimerFrame ==
  ASSUME TypeOK, RetryTimerFires
  PROVE  /\ TypeOK' /\ EndsOnly({}) /\ OfficeKept
         /\ adapter.turn.kind = "backoff" /\ ~adapter.closed
         /\ UNCHANGED <<adapter.active, adapter.gone, adapter.closed, adapter.ended>>
         /\ \A i \in Attempts : engine.request[i] \notin {"ok", "bad"}
         /\ ~adapter'.capacity
         /\ UNCHANGED <<adapter.dog, adapter.limit, adapter.reading, office, out>>
         /\ \E i \in Attempts :
              /\ engine.request[i] = "none"
              /\ adapter'.turn = [kind |-> "starting", attempt |-> i]
              /\ Requests(i, office.sent, TRUE)
<1>1. PICK i \in Attempts : i = NextAttempt /\ engine.request[i] = "none"
  BY NextAttemptFree DEF RetryTimerFires, FreeAttempts
<1> DEFINE t == [kind |-> "starting", attempt |-> i]
           d == [adapter EXCEPT !.capacity = FALSE, !.shown = FALSE, !.turn = t]
<1>2. /\ adapter' = d /\ Requests(i, office.sent, TRUE) /\ NoEvent
      /\ office' = office /\ adapter.turn.kind = "backoff" /\ ~adapter.closed
      /\ \A j \in Attempts : engine.request[j] \notin {"ok", "bad"}
  BY <1>1 DEF RetryTimerFires, NextEvent, Answered
<1>3. adapter \in Adapter /\ t \in TurnType
  BY TurnTypes DEF TypeOK
<1>4. office.sent \in 0..MaxSends /\ TRUE \in BOOLEAN /\ office' \in Office
  BY <1>2 DEF TypeOK, Office
<1> HIDE DEF t
<1>5. d \in Adapter
  BY <1>3 DEF Adapter, TurnType
<1>6. /\ d.turn = t /\ d.active = adapter.active /\ d.gone = adapter.gone
      /\ d.closed = adapter.closed /\ d.reading = adapter.reading
      /\ d.ended = adapter.ended /\ d.dog = adapter.dog /\ d.capacity = FALSE
      /\ d.limit = adapter.limit
  BY <1>3 DEF Adapter
<1> HIDE DEF d
<1>7. engine' \in Engine
  BY <1>2, <1>4, RequestsTyped
<1>8. TypeOK'
  BY <1>2, <1>4, <1>5, <1>7, NoEventTyped DEF TypeOK
<1>9. EndsOnly({}) /\ OfficeKept
  BY <1>2, <1>6, NoEventEnds DEF OfficeKept
<1> QED BY <1>1, <1>2, <1>6, <1>8, <1>9 DEF t, NoEvent

\* The watchdog ends the turn that runs, and abandons it.
LEMMA WatchdogFrame ==
  ASSUME TypeOK, Booked, NEW held \in BOOLEAN, WatchdogFires(held)
  PROVE  /\ TypeOK' /\ UNCHANGED engine /\ office'.sent = office.sent
         /\ UNCHANGED <<adapter.closed, adapter.ended>>
         /\ UNCHANGED <<office.call, office.settled, office.detached>>
         /\ \A i \in Attempts : engine.request[i] \notin {"ok", "bad"}
         /\ adapter.dog /\ ~adapter'.dog
         /\ \/ /\ UNCHANGED <<adapter.turn, adapter.active, adapter.gone>>
               /\ UNCHANGED <<adapter.capacity, adapter.limit, adapter.reading, out>>
               /\ office'.strayed = office.strayed /\ EndsOnly({})
            \/ /\ adapter.turn.kind = "running" /\ adapter'.turn = Idle
               /\ adapter'.active = None
               /\ adapter'.gone = [on |-> TRUE, id |-> adapter.active]
               /\ EndsOnly({office.sent})
               /\ ~adapter'.capacity /\ ~adapter'.limit
               /\ \/ adapter'.reading = adapter.reading
                  \/ /\ adapter'.reading = adapter.reading \cup {office.sent}
                     /\ out' = out /\ adapter.limit
               /\ office'.strayed = (office.strayed \/ (adapter.gone.id \in Attempts
                                       /\ Live(adapter.gone.id)))
<1> DEFINE a == [adapter EXCEPT !.dog = FALSE]
           x == [on |-> TRUE, id |-> adapter.active]
           g == [a EXCEPT !.gone = x, !.active = None]
           owes == OwesTurnEnd(adapter)
           s == office.strayed \/ (owes /\ adapter.gone.id \in Attempts
                                     /\ Live(adapter.gone.id))
<1>1. adapter \in Adapter
  BY DEF TypeOK
<1>2. a \in Adapter
  BY <1>1 DEF Adapter
<1>3. /\ a.turn = adapter.turn /\ a.active = adapter.active /\ a.gone = adapter.gone
      /\ a.closed = adapter.closed /\ a.ended = adapter.ended
      /\ a.reading = adapter.reading /\ a.dog = FALSE
      /\ a.capacity = adapter.capacity /\ a.limit = adapter.limit
  BY <1>1 DEF Adapter
<1>4. OwesTurnEnd(a) <=> owes
  BY <1>3 DEF OwesTurnEnd
<1>5. /\ adapter.turn.kind \notin {"starting", "backoff"}
      /\ IF ~owes THEN adapter' = a /\ NoEvent
         ELSE SettleTurn(g, office.sent, held)
      /\ office' = [office EXCEPT !.strayed = s]
      /\ engine' = engine
      /\ \A i \in Attempts : engine.request[i] \notin {"ok", "bad"}
      /\ adapter.dog /\ (held => adapter.limit)
  BY <1>3, <1>4 DEF WatchdogFires, NextEvent, Answered
<1>6. owes => adapter.turn.kind = "running"
  BY <1>5 DEF OwesTurnEnd
<1>7. s \in BOOLEAN
  OBVIOUS
<1>8. x \in [on : BOOLEAN, id : Attempts \cup {None}]
  BY <1>1 DEF Adapter
<1> HIDE DEF a, x
<1>9. g \in Adapter
  BY <1>2, <1>8 DEF Adapter
<1>10. /\ g.turn = a.turn /\ g.active = None /\ g.gone = x
       /\ g.closed = a.closed /\ g.ended = a.ended /\ g.reading = a.reading
       /\ g.dog = a.dog
  BY <1>2 DEF Adapter
<1> HIDE DEF g, s
<1>11. office' \in Office
  BY <1>5, <1>7 DEF TypeOK, Office
<1>12. /\ office'.sent = office.sent /\ office'.strayed = s
       /\ UNCHANGED <<office.call, office.settled, office.detached>>
  BY <1>5 DEF TypeOK, Office
<1>13. ~owes => s = office.strayed
  BY DEF s, TypeOK, Office
<1>14. owes => s = (office.strayed \/ (adapter.gone.id \in Attempts
                                         /\ Live(adapter.gone.id)))
  BY DEF s
<1> HIDE DEF owes
<1>15. CASE ~owes
  <2>1. TypeOK' /\ EndsOnly({})
    BY <1>2, <1>3, <1>5, <1>11, <1>15, NoEventTyped, NoEventEnds DEF TypeOK
  <2> QED BY <1>3, <1>5, <1>12, <1>13, <1>15, <2>1 DEF NoEvent
<1>16. CASE owes
  <2>1. PICK k \in 1..MaxSends : k = office.sent
    BY <1>6, <1>16, SentTyped DEF Idle
  <2>2. /\ adapter' \in Adapter /\ adapter'.turn = Idle
        /\ out' \in Seq(Event) /\ ends' \in [1..MaxSends -> Nat]
        /\ adapter'.active = g.active /\ adapter'.gone = g.gone
        /\ adapter'.closed = g.closed /\ adapter'.ended = g.ended
        /\ adapter'.dog = g.dog /\ ~adapter'.capacity /\ ~adapter'.limit
        /\ \/ adapter'.reading = adapter.reading
           \/ held /\ adapter'.reading = adapter.reading \cup {k} /\ out' = out
        /\ EndsOnly({k})
    BY ZenonT(40), <1>3, <1>5, <1>9, <1>10, <1>16, <2>1, SettleTurnFrame
  <2>3. TypeOK'
    BY <1>5, <1>11, <2>2 DEF TypeOK
  <2> QED BY <1>3, <1>5, <1>6, <1>10, <1>12, <1>14, <1>16, <2>1, <2>2, <2>3 DEF x
<1> QED BY <1>15, <1>16

\* The end of a backoff.
LEMMA FinishBackoffFrame ==
  ASSUME NEW a \in Adapter
  PROVE  LET b == FinishBackoff(a)
         IN /\ b \in Adapter /\ b.turn = Idle /\ b.active = None
            /\ b.gone = a.gone /\ b.closed = a.closed /\ b.ended = a.ended
            /\ b.reading = a.reading /\ ~b.dog /\ b.limit = a.limit
<1> DEFINE c == [a EXCEPT !.turn = Idle, !.dog = FALSE, !.active = None]
           b == ClearCapacityRetry(c)
<1>1. c \in Adapter
  BY TurnTypes DEF Adapter, TurnType
<1>2. /\ c.turn = Idle /\ c.active = None /\ c.gone = a.gone
      /\ c.closed = a.closed /\ c.ended = a.ended /\ c.reading = a.reading
      /\ c.dog = FALSE /\ c.limit = a.limit
  BY DEF Adapter
<1>3. FinishBackoff(a) = b
  BY DEF FinishBackoff
<1> HIDE DEF c
<1>4. b \in Adapter
  BY <1>1, ClearTyped
<1>5. /\ b.turn = c.turn /\ b.active = c.active /\ b.gone = c.gone
      /\ b.closed = c.closed /\ b.ended = c.ended /\ b.reading = c.reading
      /\ b.dog = c.dog /\ b.limit = c.limit
  BY <1>1 DEF ClearCapacityRetry, Adapter
<1> HIDE DEF b
<1> QED BY <1>2, <1>3, <1>4, <1>5

\* Stop in a backoff ends the turn.
LEMMA StopInBackoffFrame ==
  ASSUME TypeOK, Booked, StopInBackoff
  PROVE  /\ TypeOK' /\ UNCHANGED <<engine, office>>
         /\ adapter.turn.kind = "backoff" /\ EndsOnly({office.sent})
         /\ UNCHANGED <<adapter.gone, adapter.closed, adapter.ended>>
         /\ adapter'.turn = Idle /\ adapter'.active = None
         /\ ~adapter'.dog /\ UNCHANGED <<adapter.limit, adapter.reading>>
         /\ \A i \in Attempts : engine.request[i] \notin {"ok", "bad"}
<1>1. /\ adapter' = FinishBackoff(adapter) /\ Emits(office.sent)
      /\ engine' = engine /\ office' = office /\ adapter.turn.kind = "backoff"
      /\ \A i \in Attempts : engine.request[i] \notin {"ok", "bad"}
  BY DEF StopInBackoff, NextEvent, Answered
<1>2. adapter \in Adapter
  BY DEF TypeOK
<1>3. PICK k \in 1..MaxSends : k = office.sent
  BY <1>1, SentTyped DEF Idle
<1>4. /\ adapter' \in Adapter /\ adapter'.turn = Idle /\ adapter'.active = None
      /\ adapter'.gone = adapter.gone /\ adapter'.closed = adapter.closed
      /\ adapter'.ended = adapter.ended /\ adapter'.reading = adapter.reading
      /\ ~adapter'.dog /\ adapter'.limit = adapter.limit
  BY <1>1, <1>2, FinishBackoffFrame
<1>5. TypeOK'
  BY <1>1, <1>3, <1>4, EmitsTyped DEF TypeOK
<1>6. EndsOnly({office.sent})
  BY <1>1, <1>3, <1>4, EmitsEnds
<1> QED BY <1>1, <1>4, <1>5, <1>6

\* The requests in flight fail when the client closes.
LEMMA FailedRequestsFrame ==
  ASSUME TypeOK, NEW x \in BOOLEAN,
         engine' = [engine EXCEPT !.exited = x, !.request = FailedRequests]
  PROVE  /\ engine' \in Engine /\ engine'.exited = x
         /\ UNCHANGED <<engine.send, engine.retry, engine.named, engine.turn>>
         /\ engine'.request = FailedRequests
<1>1. engine \in Engine
  BY DEF TypeOK
<1>2. FailedRequests \in [Attempts -> {"none", "asked", "ok", "bad", "handled"}]
  BY <1>1 DEF FailedRequests, Engine
<1>3. engine' \in Engine
  BY <1>1, <1>2 DEF Engine
<1>4. /\ UNCHANGED <<engine.send, engine.retry, engine.named, engine.turn>>
      /\ engine'.request = FailedRequests /\ engine'.exited = x
  BY <1>1 DEF Engine
<1> QED BY <1>3, <1>4

\* The subprocess exits: the adapter ends a turn it owes the end of.
LEMMA ExitFrame ==
  ASSUME TypeOK, Booked, SubprocessExits
  PROVE  /\ TypeOK' /\ UNCHANGED office /\ ~engine.exited /\ engine'.exited
         /\ UNCHANGED <<engine.send, engine.retry, engine.named, engine.turn>>
         /\ engine'.request = FailedRequests
         /\ \A i \in Attempts : engine.request[i] # "ok"
         /\ UNCHANGED <<adapter.gone, adapter.closed>>
         /\ \/ /\ adapter.closed /\ UNCHANGED adapter /\ EndsOnly({})
            \/ /\ adapter'.ended /\ adapter'.turn = Idle
               /\ adapter'.active \in {adapter.active, None}
               /\ IF OwesTurnEnd(adapter) THEN EndsOnly({office.sent})
                  ELSE EndsOnly({})
<1> DEFINE f == FinishBackoff(adapter)
           n == [adapter EXCEPT !.dog = FALSE, !.turn = Idle]
           b == IF adapter.turn.kind = "backoff" THEN f ELSE n
           e == [b EXCEPT !.ended = TRUE]
<1>1. /\ ~engine.exited /\ office' = office
      /\ engine' = [engine EXCEPT !.exited = TRUE, !.request = FailedRequests]
      /\ \A i \in Attempts : engine.request[i] # "ok"
      /\ \/ adapter.closed /\ adapter' = adapter /\ NoEvent
         \/ /\ ~adapter.closed /\ adapter' = e
            /\ IF OwesTurnEnd(adapter) THEN Emits(office.sent) ELSE NoEvent
  BY DEF SubprocessExits, NextEvent, Answered
<1>2. adapter \in Adapter
  BY DEF TypeOK
<1>3. /\ f \in Adapter /\ f.turn = Idle /\ f.active = None
      /\ f.gone = adapter.gone /\ f.closed = adapter.closed
      /\ f.reading = adapter.reading
  BY <1>2, FinishBackoffFrame
<1>4. n \in Adapter
  BY <1>2, TurnTypes DEF Adapter, TurnType
<1>5. /\ n.turn = Idle /\ n.active = adapter.active /\ n.gone = adapter.gone
      /\ n.closed = adapter.closed /\ n.reading = adapter.reading
  BY <1>2 DEF Adapter
<1> HIDE DEF f, n
<1>6. /\ b \in Adapter /\ b.turn = Idle /\ b.active \in {adapter.active, None}
      /\ b.gone = adapter.gone /\ b.closed = adapter.closed
      /\ b.reading = adapter.reading
  BY <1>3, <1>4, <1>5
<1> HIDE DEF b
<1>7. e \in Adapter
  BY <1>6 DEF Adapter
<1>8. /\ e.turn = b.turn /\ e.active = b.active /\ e.gone = b.gone
      /\ e.closed = b.closed /\ e.reading = b.reading /\ e.ended
  BY <1>6 DEF Adapter
<1> HIDE DEF e
<1>9. /\ engine' \in Engine /\ engine'.exited
      /\ UNCHANGED <<engine.send, engine.retry, engine.named, engine.turn>>
      /\ engine'.request = FailedRequests
  BY <1>1, FailedRequestsFrame
<1>10. office' \in Office /\ UNCHANGED office
  BY <1>1 DEF TypeOK
<1>11. CASE adapter.closed /\ adapter' = adapter /\ NoEvent
  <2>1. TypeOK' /\ EndsOnly({})
    BY <1>2, <1>9, <1>10, <1>11, NoEventTyped, NoEventEnds DEF TypeOK
  <2> QED BY <1>1, <1>9, <1>10, <1>11, <2>1
<1>12. CASE /\ adapter' = e
            /\ IF OwesTurnEnd(adapter) THEN Emits(office.sent) ELSE NoEvent
  <2>1. CASE OwesTurnEnd(adapter)
    <3>1. PICK k \in 1..MaxSends : k = office.sent
      BY <2>1, SentTyped DEF OwesTurnEnd, Idle
    <3>2. TypeOK' /\ EndsOnly({office.sent})
      BY <1>6, <1>7, <1>8, <1>9, <1>10, <1>12, <2>1, <3>1, EmitsTyped, EmitsEnds DEF TypeOK
    <3> QED BY <1>1, <1>6, <1>8, <1>9, <1>10, <1>12, <2>1, <3>2
  <2>2. CASE ~OwesTurnEnd(adapter)
    <3>1. TypeOK' /\ EndsOnly({})
      BY <1>6, <1>7, <1>8, <1>9, <1>10, <1>12, <2>2, NoEventTyped, NoEventEnds DEF TypeOK
    <3> QED BY <1>1, <1>6, <1>8, <1>9, <1>10, <1>12, <2>2, <3>1
  <2> QED BY <2>1, <2>2
<1> QED BY <1>1, <1>11, <1>12

\* The office closes the session.
LEMMA CloseFrame ==
  ASSUME TypeOK, Booked, Close
  PROVE  /\ TypeOK' /\ OfficeKept /\ ~adapter.closed /\ adapter'.closed /\ adapter'.ended
         /\ UNCHANGED <<engine.send, engine.retry, engine.named, engine.turn, engine.exited>>
         /\ engine'.request = FailedRequests
         /\ \A i \in Attempts : engine.request[i] # "ok"
         /\ UNCHANGED adapter.gone
         /\ \/ /\ adapter.turn.kind # "backoff" /\ EndsOnly({})
               /\ UNCHANGED <<adapter.turn, adapter.active>>
            \/ /\ adapter.turn.kind = "backoff" /\ EndsOnly({office.sent})
               /\ adapter'.turn = Idle /\ adapter'.active = None
<1> DEFINE f == FinishBackoff(adapter)
           n == [adapter EXCEPT !.dog = FALSE]
           b == IF adapter.turn.kind = "backoff" THEN f ELSE n
           e == [b EXCEPT !.closed = TRUE, !.approval = FALSE, !.ended = TRUE]
           c == IF office.call = "waiting" THEN "none" ELSE office.call
<1>1. /\ ~adapter.closed /\ adapter' = e
      /\ engine' = [engine EXCEPT !.request = FailedRequests]
      /\ \A i \in Attempts : engine.request[i] # "ok"
      /\ IF adapter.turn.kind = "backoff" THEN Emits(office.sent) ELSE NoEvent
      /\ office' = [office EXCEPT !.detached = TRUE, !.call = c]
  BY DEF Close, NextEvent, Answered
<1>2. adapter \in Adapter /\ office \in Office /\ engine \in Engine
  BY DEF TypeOK
<1>3. /\ f \in Adapter /\ f.turn = Idle /\ f.active = None
      /\ f.gone = adapter.gone /\ f.reading = adapter.reading
  BY <1>2, FinishBackoffFrame
<1>4. n \in Adapter
  BY <1>2 DEF Adapter
<1>5. /\ n.turn = adapter.turn /\ n.active = adapter.active /\ n.gone = adapter.gone
      /\ n.reading = adapter.reading
  BY <1>2 DEF Adapter
<1>6. c \in {"none", "sending", "waiting"}
  BY <1>2 DEF Office
<1> HIDE DEF f, n, c
<1>7. /\ b \in Adapter /\ b.gone = adapter.gone /\ b.reading = adapter.reading
      /\ IF adapter.turn.kind = "backoff" THEN b.turn = Idle /\ b.active = None
         ELSE b.turn = adapter.turn /\ b.active = adapter.active
  BY <1>3, <1>4, <1>5
<1> HIDE DEF b
<1>8. e \in Adapter
  BY <1>7 DEF Adapter
<1>9. /\ e.turn = b.turn /\ e.active = b.active /\ e.gone = b.gone
      /\ e.closed /\ e.reading = b.reading /\ e.ended
  BY <1>7 DEF Adapter
<1> HIDE DEF e
<1>10. engine' = [engine EXCEPT !.exited = engine.exited, !.request = FailedRequests]
  BY <1>1, <1>2 DEF Engine
<1>11. /\ engine' \in Engine /\ engine'.exited = engine.exited
       /\ UNCHANGED <<engine.send, engine.retry, engine.named, engine.turn>>
       /\ engine'.request = FailedRequests
  BY <1>2, <1>10, FailedRequestsFrame DEF Engine
<1>12. office' \in Office
  BY <1>1, <1>2, <1>6 DEF Office
<1>13. OfficeKept
  BY <1>1, <1>2 DEF Office, OfficeKept
<1>14. CASE adapter.turn.kind = "backoff"
  <2>1. PICK k \in 1..MaxSends : k = office.sent
    BY <1>14, SentTyped DEF Idle
  <2>2. TypeOK' /\ EndsOnly({office.sent})
    BY <1>1, <1>7, <1>8, <1>9, <1>11, <1>12, <1>14, <2>1, EmitsTyped, EmitsEnds DEF TypeOK
  <2> QED BY <1>1, <1>7, <1>9, <1>11, <1>13, <1>14, <2>2
<1>15. CASE adapter.turn.kind # "backoff"
  <2>1. TypeOK' /\ EndsOnly({})
    BY <1>1, <1>7, <1>8, <1>9, <1>11, <1>12, <1>15, NoEventTyped, NoEventEnds DEF TypeOK
  <2> QED BY <1>1, <1>7, <1>9, <1>11, <1>13, <1>15, <2>1
<1> QED BY <1>14, <1>15

\* Items and approvals leave turns alone.
Aside ==
  /\ UNCHANGED <<adapter.turn, adapter.active, adapter.gone, adapter.closed, adapter.ended>>
  /\ FlagsKept /\ UNCHANGED <<adapter.reading, engine, office, out>>

\* An item, an approval or no step at all.
LEMMA AsideFrame ==
  ASSUME TypeOK,
         \/ \E i \in Attempts : ItemShown(i) \/ ApprovalRequested(i)
         \/ ApprovalEnds \/ UNCHANGED vars
  PROVE  TypeOK' /\ Aside /\ EndsOnly({})
<1> DEFINE s == [adapter EXCEPT !.shown = TRUE]
           o == [adapter EXCEPT !.approval = TRUE]
           e == [adapter EXCEPT !.approval = FALSE]
<1>1. adapter' \in {s, o, e, adapter} /\ UNCHANGED <<engine, office>> /\ NoEvent
  BY DEF ItemShown, ApprovalRequested, ApprovalEnds, vars, NoEvent
<1>2. adapter \in Adapter
  BY DEF TypeOK
<1>3. s \in Adapter /\ o \in Adapter /\ e \in Adapter
  BY <1>2 DEF Adapter
<1> DEFINE Same(d) ==
             /\ d.turn = adapter.turn /\ d.active = adapter.active /\ d.gone = adapter.gone
             /\ d.closed = adapter.closed /\ d.ended = adapter.ended
             /\ d.dog = adapter.dog /\ d.capacity = adapter.capacity
             /\ d.limit = adapter.limit /\ d.reading = adapter.reading
<1>4. Same(s) /\ Same(o) /\ Same(e)
  BY <1>2 DEF Adapter
<1> HIDE DEF s, o, e
<1>5. Same(adapter')
  BY <1>1, <1>4
<1>6. TypeOK'
  BY <1>1, <1>2, <1>3, NoEventTyped DEF TypeOK
<1> QED BY <1>1, <1>5, <1>6, NoEventEnds DEF Aside, FlagsKept, NoEvent

\* A terminal error: its flags, and what the chat shows of it.
LEMMA ErrorsFrame ==
  ASSUME TypeOK, Booked, NEW i \in Attempts, NEW what \in ErrorKinds, Errors(i, what)
  PROVE  /\ TypeOK' /\ EngineKept /\ EndsOnly({})
         /\ engine.turn[i] = "live"
         /\ engine'.request = engine.request /\ engine'.named = engine.named
         /\ engine'.turn = [engine.turn EXCEPT ![i] = "erred"]
         /\ UNCHANGED <<adapter.turn, adapter.active, adapter.gone, adapter.closed>>
         /\ UNCHANGED <<adapter.ended, adapter.reading, office>>
         /\ adapter'.capacity = (adapter.capacity \/ what = "capacity")
         /\ adapter'.limit = (adapter.limit \/ what = "limit")
         /\ what # "shown" => out' = out
<1> DEFINE g == adapter.dog \/ adapter.turn # Idle
           c == adapter.capacity \/ what = "capacity"
           l == adapter.limit \/ what = "limit"
           d == [adapter EXCEPT !.dog = g, !.capacity = c, !.limit = l]
           x == [what |-> "error", send |-> engine.send[i]]
<1>1. /\ engine.turn[i] = "live" /\ adapter' = d /\ office' = office /\ ends' = ends
      /\ engine' = [engine EXCEPT !.turn[i] = "erred"]
      /\ out' = IF what = "shown" THEN Append(out, x) ELSE out
  BY DEF Errors
<1>2. adapter \in Adapter
  BY DEF TypeOK
<1>3. g \in BOOLEAN /\ c \in BOOLEAN /\ l \in BOOLEAN
  OBVIOUS
<1> HIDE DEF g, c, l
<1>4. d \in Adapter
  BY <1>2, <1>3 DEF Adapter
<1>5. /\ d.turn = adapter.turn /\ d.active = adapter.active /\ d.gone = adapter.gone
      /\ d.closed = adapter.closed /\ d.ended = adapter.ended
      /\ d.reading = adapter.reading /\ d.capacity = c /\ d.limit = l
  BY <1>2 DEF Adapter
<1>6. engine.request[i] # "none"
  BY <1>1 DEF Booked
<1>7. x \in Event
  BY <1>6, SentTyped DEF Event
<1> HIDE DEF d, x
<1>8. out' \in Seq(Event)
  BY <1>1, <1>7 DEF TypeOK
<1>9. /\ engine' \in Engine /\ EngineKept
      /\ engine'.turn = [engine.turn EXCEPT ![i] = "erred"]
      /\ engine'.request = engine.request /\ engine'.named = engine.named
  BY <1>1, TurnSet
<1>10. TypeOK'
  BY <1>1, <1>4, <1>8, <1>9 DEF TypeOK
<1>11. EndsOnly({})
  BY <1>1, <1>5 DEF EndsOnly, Ended
<1> QED BY <1>1, <1>5, <1>9, <1>10, <1>11 DEF c, l

\* An end that was held back enters the stream.
LEMMA LimitReadFrame ==
  ASSUME TypeOK, NEW k \in 1..MaxSends, LimitReadEnds(k)
  PROVE  /\ TypeOK' /\ UNCHANGED <<engine, office>> /\ EndsOnly({})
         /\ UNCHANGED <<adapter.turn, adapter.active, adapter.gone, adapter.closed>>
         /\ FlagsKept /\ adapter'.ended = adapter.ended
         /\ k \in adapter.reading /\ adapter'.reading = adapter.reading \ {k}
<1> DEFINE r == adapter.reading \ {k}
           d == [adapter EXCEPT !.reading = r]
<1>1. /\ k \in adapter.reading /\ adapter' = d /\ Emits(k)
      /\ UNCHANGED <<engine, office>>
  BY DEF LimitReadEnds
<1>2. adapter \in Adapter
  BY DEF TypeOK
<1>3. r \in SUBSET (1..MaxSends)
  BY <1>2 DEF Adapter
<1> HIDE DEF r
<1>4. d \in Adapter
  BY <1>2, <1>3 DEF Adapter
<1>5. /\ d.turn = adapter.turn /\ d.active = adapter.active /\ d.gone = adapter.gone
      /\ d.closed = adapter.closed /\ d.ended = adapter.ended /\ d.dog = adapter.dog
      /\ d.capacity = adapter.capacity /\ d.limit = adapter.limit /\ d.reading = r
  BY <1>2 DEF Adapter
<1> HIDE DEF d
<1>6. TypeOK'
  BY <1>1, <1>4, EmitsTyped DEF TypeOK
<1>7. EndsOnly({})
  <2> SUFFICES ASSUME NEW j \in 1..MaxSends PROVE Ended(j)' = Ended(j)
    BY DEF EndsOnly
  <2>1. ends'[j] = IF j = k THEN ends[j] + 1 ELSE ends[j]
    BY <1>1 DEF Emits, TypeOK
  <2>2. ends[j] \in Nat
    BY DEF TypeOK
  <2>3. j \in adapter'.reading <=> j \in adapter.reading /\ j # k
    BY <1>1, <1>5 DEF r
  <2> QED BY <1>1, <2>1, <2>2, <2>3 DEF Ended
<1> QED BY <1>1, <1>5, <1>6, <1>7 DEF r, FlagsKept

\* The consumer takes an event, or sees the end of the stream.
LEMMA ConsumerFrame ==
  ASSUME TypeOK, Consume \/ StreamEnds
  PROVE  /\ TypeOK' /\ OfficeKept /\ UNCHANGED <<adapter, engine>> /\ EndsOnly({})
         /\ \/ out # <<>> /\ office'.detached = office.detached
            \/ adapter.ended
<1> DEFINE c == IF office.call = "waiting" THEN "none" ELSE office.call
           e == [office EXCEPT !.detached = TRUE, !.call = c]
           n == [office EXCEPT !.call = "none"]
           s == [office EXCEPT !.settled = TRUE]
<1>1. office \in Office /\ c \in {"none", "sending", "waiting"}
  BY DEF TypeOK, Office
<1> HIDE DEF c
<1>2. e \in Office /\ n \in Office /\ s \in Office
  BY <1>1 DEF Office
<1>3. /\ e.sent = office.sent /\ e.strayed = office.strayed
      /\ n.sent = office.sent /\ n.strayed = office.strayed /\ n.detached = office.detached
      /\ s.sent = office.sent /\ s.strayed = office.strayed /\ s.detached = office.detached
  BY <1>1 DEF Office
<1>4. \/ out # <<>> /\ out' = Tail(out) /\ office' \in {n, s, office} /\ UNCHANGED ends
      \/ adapter.ended /\ office' = e /\ NoEvent
  BY DEF Consume, StreamEnds, c
<1>5. UNCHANGED <<adapter, engine>>
  BY DEF Consume, StreamEnds
<1> HIDE DEF e, n, s
<1>6. office' \in Office /\ OfficeKept
  BY <1>1, <1>2, <1>3, <1>4 DEF OfficeKept
<1>10. out # <<>> => Tail(out) \in Seq(Event)
  BY DEF TypeOK
<1>7. /\ out' \in Seq(Event) /\ ends' = ends
      /\ \/ out # <<>> /\ office'.detached = office.detached
         \/ adapter.ended
  BY <1>3, <1>4, <1>10 DEF NoEvent, TypeOK
<1>8. TypeOK'
  BY <1>5, <1>6, <1>7 DEF TypeOK
<1>9. EndsOnly({})
  BY <1>5, <1>7 DEF EndsOnly, Ended
<1> QED BY <1>5, <1>6, <1>7, <1>8, <1>9

-----------------------------------------------------------------------------
(* Turns.                                                                  *)

\* The adapter starts at most one turn and abandons at most one.
LEMMA Shapes ==
  ASSUME TypeOK, Booked
  PROVE  /\ adapter.turn = Idle <=> adapter.turn.kind = "idle"
         /\ \A i, j \in Attempts : Follows(i) /\ Follows(j) => i = j
         /\ \A i \in Attempts : Follows(i) => adapter.turn.kind = "starting"
         /\ \A i, j \in Attempts : Abandoned(i) /\ Abandoned(j) => i = j
         /\ \A i \in Attempts : Abandoned(i) => ~Abandoned(None)
<1>1. adapter.turn \in TurnType
  BY DEF TypeOK, Adapter, TurnType
<1>2. adapter.turn = [kind |-> adapter.turn.kind, attempt |-> adapter.turn.attempt]
  BY <1>1 DEF TurnType
<1>3. adapter.turn.kind # "starting" => adapter.turn.attempt = None
  BY DEF Booked
<1>4. adapter.turn = Idle <=> adapter.turn.kind = "idle"
  BY <1>2, <1>3 DEF Idle
<1>5. \A i \in Attempts : Follows(i) => adapter.turn.kind = "starting" /\ adapter.turn.attempt = i
  BY DEF Follows
<1>6. \A i \in Attempts \cup {None} : Abandoned(i) => adapter.gone.id = i
  BY DEF Abandoned
<1>7. \A i \in Attempts : i # None
  OBVIOUS
<1> QED BY <1>4, <1>5, <1>6, <1>7

\* The turn that was abandoned, by the fields of the record.
LEMMA GoneIs ==
  ASSUME TypeOK, NEW id \in Attempts \cup {None}
  PROVE  Abandoned(id) <=> adapter.gone.on /\ adapter.gone.id = id
<1>1. adapter.gone \in [on : BOOLEAN, id : Attempts \cup {None}]
  BY DEF TypeOK, Adapter
<1>2. adapter.gone = [on |-> adapter.gone.on, id |-> adapter.gone.id]
  BY <1>1
<1>3. ASSUME adapter.gone.on, adapter.gone.id = id PROVE Abandoned(id)
  <2>1. adapter.gone.on = TRUE
    BY <1>1, <1>3
  <2>2. [on |-> adapter.gone.on, id |-> adapter.gone.id] = [on |-> TRUE, id |-> id]
    BY <1>3, <2>1
  <2> QED BY <1>2, <2>2 DEF Abandoned
<1>4. ASSUME Abandoned(id) PROVE adapter.gone.on /\ adapter.gone.id = id
  BY <1>4 DEF Abandoned
<1> QED BY <1>3, <1>4

\* Which turns are abandoned depends on the adapter alone.
LEMMA GoneSame ==
  ASSUME adapter'.gone = adapter.gone
  PROVE  \A id : Abandoned(id)' <=> Abandoned(id)
BY DEF Abandoned

\* Another turn, or none, is followed.
LEMMA TurnSame ==
  ASSUME adapter'.turn = adapter.turn
  PROVE  \A i \in Attempts : Follows(i)' <=> Follows(i)
BY DEF Follows

\* An idle adapter follows no turn.
LEMMA TurnIdle ==
  ASSUME adapter'.turn = Idle
  PROVE  /\ \A i \in Attempts : ~Follows(i)'
         /\ adapter'.turn.kind = "idle" /\ adapter'.turn.attempt = None
BY DEF Follows, Idle

\* Requests move on.
RequestsMove ==
  \A i \in Attempts :
    engine'.request[i] # engine.request[i] =>
      /\ engine.request[i] \in {"asked", "ok", "bad"}
      /\ engine'.request[i] \in {"bad", "handled"}
      /\ engine.request[i] = "ok" => engine'.request[i] = "handled"

\* A step that starts no turn keeps the books.
LEMMA BookedKept ==
  ASSUME TypeOK, Booked, TypeOK',
         UNCHANGED <<engine.send, office.sent>>,
         RequestsMove,
         \A i \in Attempts :
           /\ engine'.turn[i] # "none" <=> engine.turn[i] # "none"
           /\ engine'.named[i] => engine.named[i] \/ engine.turn[i] # "none"
           /\ Follows(i)' => Follows(i)
           /\ engine'.request[i] \in {"asked", "ok"} => ~adapter'.ended,
         adapter'.turn # Idle => adapter.turn # Idle,
         adapter'.turn.kind = "starting" <=> adapter'.turn.attempt # None,
         \A k \in 1..MaxSends : k > office.sent => Ended(k)' = Ended(k),
         adapter'.ended <=> adapter'.closed \/ engine'.exited,
         office'.detached => adapter'.ended
  PROVE  Booked'
BY DEF Booked, RequestsMove

\* What a step that stands aside of turns leaves alone.
LEMMA TurnsStay ==
  ASSUME TypeOK, Booked, Turns,
         UNCHANGED <<adapter.turn, adapter.gone, engine.send, engine.retry, office.sent>>,
         RequestsMove,
         \A i \in Attempts :
           /\ Live(i)' <=> Live(i)
           /\ engine'.turn[i] # "none" <=> engine.turn[i] # "none"
           /\ engine.named[i] => engine'.named[i]
           /\ Follows(i) /\ engine'.request[i] = "handled" =>
                engine.request[i] = "handled" \/ (adapter.closed /\ engine.retry[i]),
         \/ adapter'.active = adapter.active
         \/ /\ ~Abandoned(None)
            /\ \A i \in Attempts : adapter'.active = i => Stands(i) /\ engine'.named[i],
         adapter.closed => adapter'.closed, engine.exited => engine'.exited,
         EndsOnly({})
  PROVE  Turns'
<1>1. /\ \A i \in Attempts : Follows(i)' <=> Follows(i)
      /\ \A i \in Attempts : Abandoned(i)' <=> Abandoned(i)
      /\ Abandoned(None)' <=> Abandoned(None)
  BY GoneSame, TurnSame
<1>2. \A i \in Attempts : Stands(i)' <=> Stands(i)
  BY <1>1 DEF Stands
<1>3. \A i \in Attempts : Unanswered(i)' => Unanswered(i)
  BY DEF Booked, Unanswered, RequestsMove
<1>4. Asked'
  <2> SUFFICES ASSUME NEW i \in Attempts
               PROVE  /\ engine'.request[i] = "asked" => Follows(i)'
                      /\ engine'.request[i] = "ok" => (Live(i)' <=> Follows(i)')
                      /\ Follows(i)' =>
                           /\ engine'.send[i] = office'.sent
                           /\ engine'.request[i] = "handled" => adapter'.closed /\ engine'.retry[i]
                           /\ engine'.turn[i] # "none" => engine'.request[i] = "ok"
    BY DEF Asked
  <2>1. /\ engine.request[i] = "asked" => Follows(i)
        /\ engine.request[i] = "ok" => (Live(i) <=> Follows(i))
        /\ Follows(i) =>
             /\ engine.send[i] = office.sent
             /\ engine.request[i] = "handled" => adapter.closed /\ engine.retry[i]
             /\ engine.turn[i] # "none" => engine.request[i] = "ok"
    BY DEF Turns, Asked
  <2>2. engine.request[i] = "ok" => ~adapter.closed
    BY DEF Booked
  <2> QED BY <1>1, <2>1, <2>2 DEF RequestsMove
<1>5. OneStands'
  BY <1>2 DEF Turns, OneStands
<1>6. Standing'
  BY <1>1, <1>2 DEF Turns, Standing
<1>7. Running'
  BY <1>2 DEF Turns, Running
<1>8. Unnamed'
  BY <1>1 DEF Turns, Unnamed, RequestsMove
<1>9. Named'
  BY <1>1, <1>2 DEF Turns, Named, RequestsMove
<1>10. GoneCurrent'
  BY <1>1 DEF Turns, GoneCurrent
<1>11. Owed'
  <2>1. adapter.turn # Idle => Ended(office.sent)' = Ended(office.sent)
    BY SentTyped DEF EndsOnly
  <2> QED BY <2>1 DEF Turns, Owed
<1>12. Phantoms'
  <2>1. \A i \in Attempts :
          Unanswered(i) => Ended(engine.send[i])' = Ended(engine.send[i])
    BY SentTyped DEF EndsOnly, Unanswered
  <2> QED BY <1>1, <1>2, <1>3, <2>1 DEF Turns, Phantoms, RequestsMove
<1> QED BY <1>4, <1>5, <1>6, <1>7, <1>8, <1>9, <1>10, <1>11, <1>12 DEF Turns

\* The adapter's turn ends, and no turn of the engine is touched.
LEMMA TurnsEnd ==
  ASSUME TypeOK, Booked, Turns,
         adapter'.turn = Idle, adapter'.active \in {adapter.active, None},
         UNCHANGED <<adapter.gone, engine.send, engine.retry, engine.named, engine.turn, office.sent>>,
         RequestsMove,
         \A i \in Attempts :
           /\ engine'.request[i] # "asked"
           /\ engine'.request[i] = "ok" => ~Live(i)
           /\ Stands(i) => engine'.exited \/ Abandoned(None)
           /\ Unanswered(i) => Ended(engine.send[i])' = Ended(engine.send[i])
  PROVE  Turns'
<1>1. /\ \A i \in Attempts : ~Follows(i)'
      /\ \A i \in Attempts : Abandoned(i)' <=> Abandoned(i)
      /\ Abandoned(None)' <=> Abandoned(None)
      /\ adapter'.turn.kind = "idle"
  BY GoneSame, TurnIdle
<1>2. \A i \in Attempts : Live(i)' <=> Live(i)
  BY DEF Live
<1>3. \A i \in Attempts : Stands(i)' <=> Stands(i)
  BY <1>1, <1>2 DEF Stands
<1>4. \A i \in Attempts : Unanswered(i)' => Unanswered(i)
  BY DEF Booked, Unanswered, RequestsMove
<1>5. Asked'
  BY <1>1, <1>2 DEF Asked
<1>6. OneStands'
  BY <1>3 DEF Turns, OneStands
<1>7. Standing'
  BY <1>1, <1>3 DEF Turns, Standing
<1>8. Running'
  BY <1>1 DEF Running
<1>9. Unnamed'
  BY <1>1, <1>2 DEF Turns, Unnamed, RequestsMove
<1>10. Named'
  BY <1>1, <1>3 DEF Turns, Named, RequestsMove
<1>11. GoneCurrent'
  BY <1>1, <1>2 DEF Turns, GoneCurrent
<1>12. Owed'
  BY DEF Owed, Idle
<1>13. Phantoms'
  <2> SUFFICES ASSUME NEW i \in Attempts, Unanswered(i)'
               PROVE  /\ Ended(engine.send[i])' = 0
                      /\ \A j \in Attempts :
                           engine'.request[j] # "none" /\ engine'.send[j] = engine'.send[i] => j = i
                      /\ engine'.send[i] = office'.sent => \A j \in Attempts : ~Stands(j)'
    BY DEF Phantoms
  <2>1. /\ Ended(engine.send[i]) = 0
        /\ \A j \in Attempts :
             engine.request[j] # "none" /\ engine.send[j] = engine.send[i] => j = i
        /\ engine.send[i] = office.sent => \A j \in Attempts : ~Stands(j)
    BY <1>4 DEF Turns, Phantoms
  <2> QED BY <1>3, <1>4, <2>1 DEF RequestsMove
<1> QED BY <1>5, <1>6, <1>7, <1>8, <1>9, <1>10, <1>11, <1>12, <1>13 DEF Turns

\* A step ends the last message only, once.
EndsFit ==
  \A k \in 1..MaxSends :
    EndsAgain(k) => (k = office.sent /\ Ended(k) = 0) \/ engine.exited

\* A step lets a message wait for a retry only when none of its turns runs.
RunsFit ==
  (adapter'.turn.kind = "backoff" /\ adapter.turn.kind # "backoff") =>
    \A i \in Attempts : Live(i)' => engine.send[i] # office.sent

\* A step keeps the turns, and fits them.
KeepsTurns == Turns => (office'.strayed \/ Turns') /\ EndsFit /\ RunsFit

\* Ends are counted.
LEMMA EndedTyped ==
  ASSUME TypeOK
  PROVE  \A k \in 1..MaxSends : Ended(k) \in Nat
BY DEF TypeOK, Ended

\* A step that ends no message fits.
LEMMA NoEnd ==
  ASSUME TypeOK, EndsOnly({})
  PROVE  EndsFit
BY EndedTyped DEF EndsOnly, EndsFit, EndsAgain

\* So does one that ends the last message while the adapter owes its end.
LEMMA LastEnds ==
  ASSUME TypeOK, Turns, adapter.turn # Idle, EndsOnly({office.sent})
  PROVE  EndsFit
BY EndedTyped DEF EndsOnly, EndsFit, EndsAgain, Turns, Owed

\* Ends of other messages are as before.
LEMMA OtherEnds ==
  ASSUME TypeOK, Booked, NEW k, EndsOnly({k}),
         NEW i \in Attempts, engine.request[i] # "none", engine.send[i] # k,
         engine'.send = engine.send
  PROVE  Ended(engine.send[i])' = Ended(engine.send[i])
BY SentTyped DEF EndsOnly

\* Items and approvals keep the turns.
LEMMA AsideSound ==
  ASSUME TypeOK, Booked,
         \/ \E i \in Attempts : ItemShown(i) \/ ApprovalRequested(i)
         \/ ApprovalEnds \/ UNCHANGED vars
  PROVE  TypeOK' /\ Booked' /\ KeepsTurns
<1>1. TypeOK' /\ Aside /\ EndsOnly({})
  BY AsideFrame
<1>2. Booked'
  BY <1>1, BookedKept, TurnSame DEF Booked, Aside, EndsOnly, RequestsMove
<1>3. \A i \in Attempts : Live(i)' <=> Live(i)
  BY <1>1 DEF Aside, Live
<1>4. Turns => Turns'
  BY <1>1, <1>3, TurnsStay DEF Aside, RequestsMove
<1> QED BY <1>1, <1>2, <1>4, NoEnd DEF KeepsTurns, RunsFit, Aside

\* An error notification.
LEMMA ErrorsSound ==
  ASSUME TypeOK, Booked, NEW i \in Attempts, NEW what \in ErrorKinds, Errors(i, what)
  PROVE  TypeOK' /\ Booked' /\ KeepsTurns
<1>1. /\ TypeOK' /\ EngineKept /\ EndsOnly({}) /\ engine.turn[i] = "live"
      /\ engine'.request = engine.request /\ engine'.named = engine.named
      /\ engine'.turn = [engine.turn EXCEPT ![i] = "erred"]
      /\ UNCHANGED <<adapter.turn, adapter.active, adapter.gone, adapter.closed>>
      /\ UNCHANGED <<adapter.ended, office>>
  BY ErrorsFrame
<1>2. engine.turn \in [Attempts -> {"none", "live", "erred", "over"}]
  BY DEF TypeOK, Engine
<1>3. \A j \in Attempts : /\ Live(j)' <=> Live(j)
                          /\ engine'.turn[j] # "none" <=> engine.turn[j] # "none"
  BY <1>1, <1>2 DEF Live
<1>4. Booked'
  BY <1>1, <1>3, BookedKept, TurnSame DEF Booked, EngineKept, EndsOnly, RequestsMove
<1>5. Turns => Turns'
  BY <1>1, <1>3, TurnsStay DEF EngineKept, RequestsMove
<1> QED BY <1>1, <1>4, <1>5, NoEnd DEF KeepsTurns, RunsFit

\* A read of the rate limits that ends.
LEMMA LimitReadSound ==
  ASSUME TypeOK, Booked, NEW k \in 1..MaxSends, LimitReadEnds(k)
  PROVE  TypeOK' /\ Booked' /\ KeepsTurns
<1>1. /\ TypeOK' /\ UNCHANGED <<engine, office>> /\ EndsOnly({})
      /\ UNCHANGED <<adapter.turn, adapter.active, adapter.gone, adapter.closed>>
      /\ adapter'.ended = adapter.ended
  BY LimitReadFrame
<1>2. \A j \in Attempts : Live(j)' <=> Live(j)
  BY <1>1 DEF Live
<1>3. Booked'
  BY <1>1, BookedKept, TurnSame DEF Booked, EndsOnly, RequestsMove
<1>4. Turns => Turns'
  BY <1>1, <1>2, TurnsStay DEF RequestsMove
<1> QED BY <1>1, <1>3, <1>4, NoEnd DEF KeepsTurns, RunsFit

\* A step of the consumer.
LEMMA ConsumerSound ==
  ASSUME TypeOK, Booked, Consume \/ StreamEnds
  PROVE  TypeOK' /\ Booked' /\ KeepsTurns
<1>1. /\ TypeOK' /\ OfficeKept /\ UNCHANGED <<adapter, engine>> /\ EndsOnly({})
      /\ office'.detached = office.detached \/ adapter.ended
  BY ConsumerFrame
<1>2. \A j \in Attempts : Live(j)' <=> Live(j)
  BY <1>1 DEF Live
<1>3. Booked'
  BY <1>1, BookedKept, TurnSame DEF Booked, EndsOnly, RequestsMove, OfficeKept
<1>4. Turns => Turns'
  BY <1>1, <1>2, TurnsStay DEF RequestsMove, OfficeKept
<1> QED BY <1>1, <1>3, <1>4, NoEnd DEF KeepsTurns, RunsFit

\* A send that throws.
LEMMA SendThrowsSound ==
  ASSUME TypeOK, Booked, NEW i \in Attempts, SendThrows(i)
  PROVE  TypeOK' /\ Booked' /\ KeepsTurns
<1>1. /\ TypeOK' /\ EngineKept /\ OfficeKept /\ EndsOnly({})
      /\ engine.request[i] = "bad" /\ ~engine.retry[i]
      /\ engine'.named = engine.named /\ engine'.turn = engine.turn
      /\ engine'.request = [engine.request EXCEPT ![i] = "handled"]
      /\ UNCHANGED <<adapter.active, adapter.gone, adapter.closed, adapter.ended>>
      /\ office'.detached = office.detached
      /\ adapter'.turn = IF Follows(i) THEN Idle ELSE adapter.turn
  BY SendThrowsFrame
<1>2. \A j \in Attempts : engine'.request[j] = IF j = i THEN "handled" ELSE engine.request[j]
  BY <1>1 DEF TypeOK, Engine
<1>3. \A j \in Attempts : Live(j)' <=> Live(j)
  BY <1>1 DEF Live
<1>4. RequestsMove
  BY <1>1, <1>2 DEF RequestsMove
<1>5. /\ \A j \in Attempts : Follows(j)' => Follows(j)
      /\ adapter'.turn # Idle => adapter.turn # Idle
      /\ adapter'.turn.kind \in {"idle", adapter.turn.kind}
      /\ adapter'.turn.kind = "starting" <=> adapter'.turn.attempt # None
  BY <1>1, TurnSame, TurnIdle DEF Booked
<1>6. Booked'
  BY <1>1, <1>2, <1>4, <1>5, BookedKept DEF Booked, EndsOnly, EngineKept, OfficeKept
<1>7. ASSUME Turns, ~Follows(i) PROVE Turns'
  BY <1>1, <1>2, <1>3, <1>4, <1>7, TurnsStay DEF EngineKept, OfficeKept
<1>8. ASSUME Turns, Follows(i) PROVE Turns'
  <2>1. \A j \in Attempts :
          /\ engine.request[j] # "asked"
          /\ engine.request[j] = "ok" => ~Live(j)
    BY <1>1, <1>8, Shapes DEF Turns, Asked
  <2>2. \A j \in Attempts : Stands(j) => engine.exited \/ Abandoned(None)
    BY <1>1, <1>8, Shapes DEF Turns, Standing, Booked, Stands, Live
  <2>3. \A j \in Attempts : Unanswered(j) => Ended(engine.send[j])' = Ended(engine.send[j])
    BY <1>1, SentTyped DEF EndsOnly, Unanswered, EngineKept
  <2> QED BY <1>1, <1>2, <1>4, <1>8, <2>1, <2>2, <2>3, TurnsEnd DEF EngineKept, OfficeKept
<1> QED BY <1>1, <1>5, <1>6, <1>7, <1>8, NoEnd DEF KeepsTurns, RunsFit

\* A retry that fails.
LEMMA RetryFailsSound ==
  ASSUME TypeOK, Booked, NEW i \in Attempts, RetryFails(i)
  PROVE  TypeOK' /\ Booked' /\ KeepsTurns
<1>1. /\ TypeOK' /\ EngineKept /\ OfficeKept
      /\ engine.request[i] = "bad" /\ engine.retry[i]
      /\ engine'.named = engine.named /\ engine'.turn = engine.turn
      /\ engine'.request = [engine.request EXCEPT ![i] = "handled"]
      /\ UNCHANGED <<adapter.active, adapter.gone, adapter.closed, adapter.ended>>
      /\ \/ /\ adapter'.turn = adapter.turn /\ EndsOnly({})
            /\ adapter.closed \/ ~Follows(i)
         \/ /\ adapter'.turn = Idle /\ Follows(i)
            /\ EndsOnly({engine.send[i]})
      /\ office'.detached = office.detached
  BY RetryFailsFrame
<1>2. \A j \in Attempts : engine'.request[j] = IF j = i THEN "handled" ELSE engine.request[j]
  BY <1>1 DEF TypeOK, Engine
<1>3. \A j \in Attempts : Live(j)' <=> Live(j)
  BY <1>1 DEF Live
<1>4. RequestsMove
  BY <1>1, <1>2 DEF RequestsMove
<1>5. /\ \A j \in Attempts : Follows(j)' => Follows(j)
      /\ adapter'.turn # Idle => adapter.turn # Idle
      /\ adapter'.turn.kind \in {"idle", adapter.turn.kind}
      /\ adapter'.turn.kind = "starting" <=> adapter'.turn.attempt # None
  BY <1>1, TurnSame, TurnIdle DEF Booked
<1>6. \A k \in 1..MaxSends : k > office.sent => Ended(k)' = Ended(k)
  <2>1. engine.send[i] <= office.sent /\ office.sent \in Nat
    BY <1>1 DEF Booked, TypeOK, Office
  <2> QED BY <1>1, <2>1 DEF EndsOnly
<1>7. Booked'
  BY <1>1, <1>2, <1>4, <1>5, <1>6, BookedKept DEF Booked, EngineKept, OfficeKept
<1>8. CASE adapter'.turn = adapter.turn /\ EndsOnly({}) /\ (adapter.closed \/ ~Follows(i))
  <2>1. Turns => Turns'
    BY <1>1, <1>2, <1>3, <1>4, <1>8, TurnsStay DEF EngineKept, OfficeKept
  <2> QED BY <1>1, <1>7, <1>8, <2>1, NoEnd DEF KeepsTurns, RunsFit
<1>9. CASE adapter'.turn = Idle /\ Follows(i) /\ EndsOnly({engine.send[i]})
  <2> SUFFICES ASSUME Turns PROVE Turns' /\ EndsFit
    BY <1>1, <1>5, <1>7 DEF KeepsTurns, RunsFit
  <2>1. \A j \in Attempts :
          /\ engine.request[j] # "asked"
          /\ engine.request[j] = "ok" => ~Live(j)
    BY <1>1, <1>9, Shapes DEF Turns, Asked
  <2>2. \A j \in Attempts : Stands(j) => engine.exited \/ Abandoned(None)
    BY <1>1, <1>9, Shapes DEF Turns, Standing, Booked, Stands, Live
  <2>3. ASSUME NEW j \in Attempts, Unanswered(j)
        PROVE  Ended(engine.send[j])' = Ended(engine.send[j])
    <3>1. engine.send[j] # engine.send[i] /\ engine.request[j] # "none"
      BY <1>1, <2>3 DEF Turns, Phantoms, Unanswered
    <3>2. EndsOnly({engine.send[i]}) /\ engine'.send = engine.send
      BY <1>1, <1>9 DEF EngineKept
    <3> QED BY <3>1, <3>2, OtherEnds
  <2>4. Turns'
    BY <1>1, <1>2, <1>4, <1>9, <2>1, <2>2, <2>3, TurnsEnd DEF EngineKept, OfficeKept
  <2>5. engine.send[i] = office.sent /\ adapter.turn # Idle
    BY <1>9, Shapes DEF Turns, Asked
  <2> QED BY <1>9, <2>4, <2>5, LastEnds
<1> QED BY <1>1, <1>8, <1>9

\* A stop while a message waits for its retry.
LEMMA StopInBackoffSound ==
  ASSUME TypeOK, Booked, StopInBackoff
  PROVE  TypeOK' /\ Booked' /\ KeepsTurns
<1>1. /\ TypeOK' /\ UNCHANGED <<engine, office>>
      /\ adapter.turn.kind = "backoff" /\ EndsOnly({office.sent})
      /\ UNCHANGED <<adapter.gone, adapter.closed, adapter.ended>>
      /\ adapter'.turn = Idle /\ adapter'.active = None
      /\ \A i \in Attempts : engine.request[i] \notin {"ok", "bad"}
  BY StopInBackoffFrame
<1>2. /\ \A j \in Attempts : ~Follows(j)' /\ ~Follows(j)
      /\ adapter.turn # Idle
      /\ adapter'.turn.kind = "idle" /\ adapter'.turn.attempt = None
  BY <1>1, TurnIdle, Shapes
<1>3. \A k \in 1..MaxSends : k > office.sent => Ended(k)' = Ended(k)
  BY <1>1 DEF EndsOnly, TypeOK, Office
<1>4. Booked'
  BY <1>1, <1>2, <1>3, BookedKept DEF Booked, RequestsMove
<1>5. ASSUME Turns PROVE Turns'
  <2>1. \A j \in Attempts : engine.request[j] # "asked"
    BY <1>2, <1>5 DEF Turns, Asked
  <2>2. \A j \in Attempts : Stands(j) => engine.exited \/ Abandoned(None)
    BY <1>1, <1>2, <1>5 DEF Turns, Standing
  <2>3. ASSUME NEW j \in Attempts, Unanswered(j)
        PROVE  Ended(engine.send[j])' = Ended(engine.send[j])
    <3>1. engine.send[j] # office.sent /\ engine.request[j] # "none"
      BY <1>2, <1>5, <2>3 DEF Turns, Phantoms, Unanswered
    <3> QED BY <1>1, <3>1, OtherEnds
  <2> QED BY <1>1, <1>5, <2>1, <2>2, <2>3, TurnsEnd DEF RequestsMove
<1> QED BY <1>1, <1>2, <1>4, <1>5, LastEnds DEF KeepsTurns, RunsFit

\* What becomes of the requests when the client closes.
LEMMA RequestsFail ==
  ASSUME TypeOK, engine'.request = FailedRequests,
         \A i \in Attempts : engine.request[i] # "ok"
  PROVE  /\ RequestsMove
         /\ \A i \in Attempts :
              /\ engine'.request[i] \notin {"asked", "ok"}
              /\ engine'.request[i] = "handled" <=> engine.request[i] = "handled"
BY DEF FailedRequests, RequestsMove, TypeOK, Engine

\* The exit of the subprocess.
LEMMA ExitSound ==
  ASSUME TypeOK, Booked, SubprocessExits
  PROVE  TypeOK' /\ Booked' /\ KeepsTurns
<1>1. /\ TypeOK' /\ UNCHANGED office /\ ~engine.exited /\ engine'.exited
      /\ UNCHANGED <<engine.send, engine.retry, engine.named, engine.turn>>
      /\ engine'.request = FailedRequests
      /\ \A i \in Attempts : engine.request[i] # "ok"
      /\ UNCHANGED <<adapter.gone, adapter.closed>>
      /\ \/ /\ adapter.closed /\ UNCHANGED adapter /\ EndsOnly({})
         \/ /\ adapter'.ended /\ adapter'.turn = Idle
            /\ adapter'.active \in {adapter.active, None}
            /\ IF OwesTurnEnd(adapter) THEN EndsOnly({office.sent})
               ELSE EndsOnly({})
  BY ExitFrame
<1>2. /\ RequestsMove
      /\ \A i \in Attempts :
           /\ engine'.request[i] \notin {"asked", "ok"}
           /\ engine'.request[i] = "handled" <=> engine.request[i] = "handled"
  BY <1>1, RequestsFail
<1>3. /\ \A j \in Attempts : Follows(j)' => Follows(j)
      /\ adapter'.turn # Idle => adapter.turn # Idle
      /\ adapter'.turn.kind \in {"idle", adapter.turn.kind}
      /\ adapter'.turn.kind = "starting" <=> adapter'.turn.attempt # None
      /\ adapter'.ended
  BY <1>1, TurnSame, TurnIdle DEF Booked
<1>4. \A k \in 1..MaxSends : k > office.sent => Ended(k)' = Ended(k)
  BY <1>1 DEF EndsOnly, TypeOK, Office
<1>5. Booked'
  BY <1>1, <1>2, <1>3, <1>4, BookedKept DEF Booked
<1>6. \A j \in Attempts : Live(j)' <=> Live(j)
  BY <1>1 DEF Live
<1>7. CASE adapter.closed /\ UNCHANGED adapter /\ EndsOnly({})
  <2>1. Turns => Turns'
    BY <1>1, <1>2, <1>6, <1>7, TurnsStay
  <2> QED BY <1>1, <1>5, <1>7, <2>1, NoEnd DEF KeepsTurns, RunsFit
<1>8. CASE /\ adapter'.turn = Idle /\ adapter'.active \in {adapter.active, None}
           /\ IF OwesTurnEnd(adapter) THEN EndsOnly({office.sent})
              ELSE EndsOnly({})
  <2> SUFFICES ASSUME Turns PROVE Turns' /\ EndsFit
    BY <1>1, <1>3, <1>5 DEF KeepsTurns, RunsFit
  <2>1. OwesTurnEnd(adapter) => adapter.turn # Idle
    BY Shapes DEF OwesTurnEnd
  <2>2. EndsFit
    BY <1>8, <2>1, NoEnd, LastEnds
  <2>3. ASSUME NEW j \in Attempts, Unanswered(j)
        PROVE  Ended(engine.send[j])' = Ended(engine.send[j])
    <3>1. engine.request[j] # "none"
      BY <2>3 DEF Unanswered
    <3>2. CASE ~OwesTurnEnd(adapter)
      BY <1>1, <1>8, <3>1, <3>2, SentTyped DEF EndsOnly
    <3>3. CASE OwesTurnEnd(adapter)
      <4>1. ~(adapter.turn = Idle \/ Follows(j))
        BY <2>1, <2>3, <3>3, Shapes DEF OwesTurnEnd, Unanswered, Follows
      <4>2. engine.send[j] # office.sent
        BY <2>3, <4>1 DEF Turns, Phantoms
      <4> QED BY <1>1, <1>8, <3>1, <3>3, <4>2, OtherEnds
    <3> QED BY <3>2, <3>3
  <2>4. Turns'
    BY <1>1, <1>2, <1>8, <2>3, TurnsEnd
  <2> QED BY <2>2, <2>4
<1> QED BY <1>1, <1>7, <1>8

\* The close of the session.
LEMMA CloseSound ==
  ASSUME TypeOK, Booked, Close
  PROVE  TypeOK' /\ Booked' /\ KeepsTurns
<1>1. /\ TypeOK' /\ OfficeKept /\ ~adapter.closed /\ adapter'.closed /\ adapter'.ended
      /\ UNCHANGED <<engine.send, engine.retry, engine.named, engine.turn, engine.exited>>
      /\ engine'.request = FailedRequests
      /\ \A i \in Attempts : engine.request[i] # "ok"
      /\ UNCHANGED adapter.gone
      /\ \/ /\ adapter.turn.kind # "backoff" /\ EndsOnly({})
            /\ UNCHANGED <<adapter.turn, adapter.active>>
         \/ /\ adapter.turn.kind = "backoff" /\ EndsOnly({office.sent})
            /\ adapter'.turn = Idle /\ adapter'.active = None
  BY CloseFrame
<1>2. /\ RequestsMove
      /\ \A i \in Attempts :
           /\ engine'.request[i] \notin {"asked", "ok"}
           /\ engine'.request[i] = "handled" <=> engine.request[i] = "handled"
  BY <1>1, RequestsFail
<1>3. /\ \A j \in Attempts : Follows(j)' => Follows(j)
      /\ adapter'.turn # Idle => adapter.turn # Idle
      /\ adapter'.turn.kind \in {"idle", adapter.turn.kind}
      /\ adapter'.turn.kind = "starting" <=> adapter'.turn.attempt # None
  BY <1>1, TurnSame, TurnIdle DEF Booked
<1>4. \A k \in 1..MaxSends : k > office.sent => Ended(k)' = Ended(k)
  <2>1. EndsOnly({}) \/ EndsOnly({office.sent})
    BY <1>1
  <2> QED BY <2>1 DEF EndsOnly, TypeOK, Office
<1>5. Booked'
  BY <1>1, <1>2, <1>3, <1>4, BookedKept DEF Booked, OfficeKept
<1>6. \A j \in Attempts : Live(j)' <=> Live(j)
  BY <1>1 DEF Live
<1>7. CASE UNCHANGED <<adapter.turn, adapter.active>> /\ EndsOnly({})
  <2>1. Turns => Turns'
    BY <1>1, <1>2, <1>6, <1>7, TurnsStay DEF OfficeKept
  <2> QED BY <1>1, <1>5, <1>7, <2>1, NoEnd DEF KeepsTurns, RunsFit
<1>8. CASE /\ adapter.turn.kind = "backoff" /\ EndsOnly({office.sent})
           /\ adapter'.turn = Idle /\ adapter'.active = None
  <2> SUFFICES ASSUME Turns PROVE Turns' /\ EndsFit
    BY <1>1, <1>3, <1>5 DEF KeepsTurns, RunsFit
  <2>1. adapter.turn # Idle /\ \A j \in Attempts : ~Follows(j)
    BY <1>8, Shapes
  <2>2. \A j \in Attempts : Stands(j) => engine'.exited \/ Abandoned(None)
    BY <1>1, <1>8, <2>1 DEF Turns, Standing
  <2>3. ASSUME NEW j \in Attempts, Unanswered(j)
        PROVE  Ended(engine.send[j])' = Ended(engine.send[j])
    <3>1. engine.send[j] # office.sent /\ engine.request[j] # "none"
      BY <2>1, <2>3 DEF Turns, Phantoms, Unanswered
    <3> QED BY <1>1, <1>8, <3>1, OtherEnds
  <2>4. Turns'
    BY <1>1, <1>2, <1>8, <2>2, <2>3, TurnsEnd DEF OfficeKept
  <2> QED BY <1>8, <2>1, <2>4, LastEnds
<1> QED BY <1>1, <1>7, <1>8

\* An attempt that was not requested has no message, turn or name.
LEMMA FreeAttempt ==
  ASSUME TypeOK, Booked, NEW i \in Attempts, engine.request[i] = "none"
  PROVE  /\ engine.turn[i] = "none" /\ ~engine.named[i]
         /\ ~Live(i) /\ ~Stands(i) /\ ~Follows(i)
BY DEF Booked, Live, Stands

\* A request is made for attempt i.
LEMMA RequestsFrame ==
  ASSUME TypeOK, Booked, NEW i \in Attempts, NEW k \in 0..MaxSends, NEW retry \in BOOLEAN,
         Requests(i, k, retry), engine.request[i] = "none",
         adapter'.turn = [kind |-> "starting", attempt |-> i],
         adapter'.gone = adapter.gone
  PROVE  /\ UNCHANGED <<engine.turn, engine.named, engine.exited>>
         /\ engine'.request[i] = IF adapter.ended THEN "bad" ELSE "asked"
         /\ engine'.send[i] = k /\ engine'.retry[i] = retry
         /\ \A j \in Attempts :
              /\ j # i => /\ engine'.request[j] = engine.request[j]
                          /\ engine'.send[j] = engine.send[j]
                          /\ engine'.retry[j] = engine.retry[j]
              /\ Follows(j)' <=> j = i
              /\ Live(j)' <=> Live(j)
              /\ Abandoned(j)' <=> Abandoned(j)
              /\ Stands(j)' <=> Stands(j)
         /\ Abandoned(None)' <=> Abandoned(None)
         /\ adapter'.turn.kind = "starting" /\ adapter'.turn.attempt = i
         /\ adapter'.turn # Idle
<1>1. /\ engine'.send = [engine.send EXCEPT ![i] = k]
      /\ engine'.retry = [engine.retry EXCEPT ![i] = retry]
      /\ engine'.request =
           [engine.request EXCEPT ![i] = IF engine.exited \/ adapter.closed
                                           THEN "bad" ELSE "asked"]
      /\ engine'.turn = engine.turn /\ engine'.named = engine.named
      /\ engine'.exited = engine.exited
  BY RequestsTyped
<1>2. /\ engine.send \in [Attempts -> 0..MaxSends] /\ engine.retry \in [Attempts -> BOOLEAN]
      /\ engine.request \in [Attempts -> {"none", "asked", "ok", "bad", "handled"}]
  BY DEF TypeOK, Engine
<1>3. adapter.ended <=> adapter.closed \/ engine.exited
  BY DEF Booked
<1>4. \A j \in Attempts : Follows(j)' <=> j = i
  BY DEF Follows
<1>5. \A j \in Attempts : Live(j)' <=> Live(j)
  BY <1>1 DEF Live
<1>6. \A j \in Attempts : Stands(j)' <=> Stands(j)
  BY <1>5, GoneSame DEF Stands
<1>7. /\ adapter'.turn.kind = "starting" /\ adapter'.turn.attempt = i
      /\ adapter'.turn # Idle
  BY DEF Idle
<1>8. /\ engine'.request[i] = IF adapter.ended THEN "bad" ELSE "asked"
      /\ engine'.send[i] = k /\ engine'.retry[i] = retry
  BY <1>1, <1>2, <1>3
<1>9. \A j \in Attempts :
        j # i => /\ engine'.request[j] = engine.request[j]
                 /\ engine'.send[j] = engine.send[j]
                 /\ engine'.retry[j] = engine.retry[j]
  BY <1>1, <1>2
<1> QED BY <1>1, <1>4, <1>5, <1>6, <1>7, <1>8, <1>9, GoneSame

\* A send over a turn that still runs is recorded as history; over none it
\* starts the turn of a new message, if no other one is starting.
LEMMA SendSound ==
  ASSUME TypeOK, Booked, Send
  PROVE  TypeOK' /\ Booked' /\ (Turns /\ Waits => (office'.strayed \/ Turns') /\ EndsFit /\ RunsFit)
<1>1. /\ TypeOK' /\ EndsOnly({}) /\ ~office.detached /\ ~adapter.ended
      /\ out = <<>> /\ office.call = "none"
      /\ UNCHANGED <<adapter.reading, adapter.ended, office.detached>>
      /\ office'.sent = office.sent + 1
      /\ office'.strayed = (office.strayed \/ Stray # {})
      /\ UNCHANGED <<adapter.active, adapter.gone, adapter.closed>>
      /\ \A j \in Attempts : engine.request[j] \notin {"ok", "bad"}
  BY SendFrame
<1>2. PICK i \in Attempts :
        /\ engine.request[i] = "none"
        /\ adapter'.turn = [kind |-> "starting", attempt |-> i]
        /\ Requests(i, office.sent + 1, FALSE)
  BY SendFrame
<1>3. PICK k \in 1..MaxSends : k = office.sent + 1 /\ office'.sent = k
  BY <1>1 DEF TypeOK, Office
<1>4. /\ UNCHANGED <<engine.turn, engine.named, engine.exited>>
      /\ engine'.request[i] = "asked" /\ engine'.send[i] = k /\ engine'.retry[i] = FALSE
      /\ \A j \in Attempts :
           /\ j # i => /\ engine'.request[j] = engine.request[j]
                       /\ engine'.send[j] = engine.send[j]
                       /\ engine'.retry[j] = engine.retry[j]
           /\ Follows(j)' <=> j = i
           /\ Live(j)' <=> Live(j)
           /\ Abandoned(j)' <=> Abandoned(j)
           /\ Stands(j)' <=> Stands(j)
      /\ Abandoned(None)' <=> Abandoned(None)
      /\ adapter'.turn.kind = "starting" /\ adapter'.turn.attempt = i
      /\ adapter'.turn # Idle
  <2>1. Requests(i, k, FALSE) /\ k \in 0..MaxSends
    BY <1>2, <1>3 DEF Requests
  <2>2. /\ UNCHANGED <<engine.turn, engine.named, engine.exited>>
        /\ engine'.request[i] = IF adapter.ended THEN "bad" ELSE "asked"
        /\ engine'.send[i] = k /\ engine'.retry[i] = FALSE
        /\ \A j \in Attempts :
             /\ j # i => /\ engine'.request[j] = engine.request[j]
                         /\ engine'.send[j] = engine.send[j]
                         /\ engine'.retry[j] = engine.retry[j]
             /\ Follows(j)' <=> j = i
             /\ Live(j)' <=> Live(j)
             /\ Abandoned(j)' <=> Abandoned(j)
             /\ Stands(j)' <=> Stands(j)
        /\ Abandoned(None)' <=> Abandoned(None)
        /\ adapter'.turn.kind = "starting" /\ adapter'.turn.attempt = i
        /\ adapter'.turn # Idle
    <3>1. FALSE \in BOOLEAN /\ adapter'.gone = adapter.gone
      BY <1>1
    <3> QED BY <1>2, <2>1, <3>1, RequestsFrame
  <2> QED BY <1>1, <2>2
<1>5. /\ engine.turn[i] = "none" /\ ~engine.named[i]
      /\ ~Live(i) /\ ~Stands(i) /\ ~Follows(i)
  BY <1>2, FreeAttempt
<1>6. \A j \in Attempts : engine.request[j] # "none" => engine.send[j] \in 1..office.sent
  BY DEF Booked
<1>7. office.sent \in Nat /\ \A j \in Attempts : engine.send[j] \in Nat
  BY DEF TypeOK, Office, Engine
<1>8. Booked'
  <2>1. \A j \in 1..MaxSends : j > office'.sent => Ended(j)' = 0
    BY <1>1, <1>7 DEF Booked, EndsOnly
  <2>2. ASSUME NEW j \in Attempts, engine'.request[j] # "none"
        PROVE  engine'.send[j] \in 1..office'.sent
    <3>1. CASE j = i
      BY <1>3, <1>4, <3>1
    <3>2. CASE j # i
      <4>1. engine'.request[j] = engine.request[j] /\ engine'.send[j] = engine.send[j]
        BY <1>4, <3>2
      <4>2. engine.send[j] \in 1..office.sent
        BY <1>6, <2>2, <4>1
      <4> QED BY <1>3, <1>7, <4>1, <4>2
    <3> QED BY <3>1, <3>2
  <2>3. \A j \in Attempts :
          /\ engine'.turn[j] # "none" => engine'.request[j] \in {"ok", "handled"}
          /\ engine'.request[j] = "ok" => engine'.turn[j] # "none"
          /\ engine'.named[j] => engine'.turn[j] # "none"
          /\ Follows(j)' => engine'.request[j] # "none"
          /\ engine'.request[j] \in {"asked", "ok"} => ~adapter'.ended
    BY <1>1, <1>4, <1>5 DEF Booked
  <2> QED BY <1>1, <1>3, <1>4, <2>1, <2>2, <2>3 DEF Booked
<1>9. ASSUME Turns, Waits, ~office'.strayed PROVE Turns'
  <2>1. \A j \in Attempts : ~Stands(j)
    BY <1>1, <1>9 DEF Stray, Stands, Abandoned
  <2>2. ~Abandoned(None)
    BY <1>9, <2>1, Shapes DEF Turns, Unnamed, Stands
  <2>3. \A j \in Attempts : engine.request[j] # "asked"
    <3>1. ~Fresh
      BY <1>1, <1>9 DEF Waits, Awaits, Unsettled
    <3> QED BY <1>1, <1>9, <3>1 DEF Fresh, Turns, Asked
  <2>4. Asked'
    BY ZenonT(40), <1>1, <1>3, <1>4, <1>5, <2>3 DEF Asked
  <2>5. OneStands' /\ Standing' /\ Running' /\ Unnamed'
    BY <1>4, <2>1, <2>2 DEF OneStands, Standing, Running, Unnamed
  <2>6. Named'
    BY <1>1, <1>2, <1>4, <1>9, <2>1 DEF Turns, Named
  <2>7. GoneCurrent'
    <3>1. \A j \in Attempts : Live(j)' => engine'.send[j] # office'.sent
      BY <1>3, <1>4, <1>5, <1>6, <1>7 DEF Booked, Live
    <3> QED BY <3>1 DEF GoneCurrent
  <2>8. Owed'
    BY <1>1, <1>3, <1>7 DEF Owed, EndsOnly, Booked
  <2>9. ASSUME NEW j \in Attempts, Unanswered(j)'
        PROVE  /\ Ended(engine.send[j])' = 0
               /\ \A l \in Attempts :
                    engine'.request[l] # "none" /\ engine'.send[l] = engine'.send[j] => l = j
               /\ engine'.send[j] = office'.sent =>
                    /\ adapter'.turn = Idle \/ Follows(j)'
                    /\ \A l \in Attempts : ~Stands(l)'
    <3>1. CASE j = i
      <4>1. Ended(k) = 0
        BY <1>3, <1>7 DEF Booked
      <4> QED BY <1>1, <1>3, <1>4, <1>6, <1>7, <2>1, <3>1, <4>1 DEF EndsOnly
    <3>2. CASE j # i
      <4>1. Unanswered(j) /\ engine.request[j] # "none"
        BY <1>4, <2>9, <3>2 DEF Unanswered
      <4>2. engine.send[j] # k /\ engine.send[j] \in 1..MaxSends
        <5>1. engine.send[j] \in 1..office.sent
          BY <1>6, <4>1
        <5> QED BY <1>3, <1>7, <5>1
      <4>3. Ended(engine.send[j]) = 0
        BY <1>9, <4>1 DEF Turns, Phantoms
      <4>4. \A l \in Attempts :
              engine.request[l] # "none" /\ engine.send[l] = engine.send[j] => l = j
        BY <1>9, <4>1 DEF Turns, Phantoms
      <4> QED BY <1>1, <1>3, <1>4, <3>2, <4>2, <4>3, <4>4 DEF EndsOnly
    <3> QED BY <3>1, <3>2
  <2>10. Phantoms'
    BY <2>9 DEF Phantoms
  <2> QED BY <2>4, <2>5, <2>6, <2>7, <2>8, <2>10 DEF Turns
<1> QED BY <1>1, <1>4, <1>8, <1>9, NoEnd DEF RunsFit

\* The engine's answer: a turn begins, or the request was refused.
LEMMA EngineAnswersSound ==
  ASSUME TypeOK, Booked, NEW i \in Attempts, NEW ok \in BOOLEAN, EngineAnswers(i, ok)
  PROVE  TypeOK' /\ Booked' /\ (Turns /\ Waits => Turns' /\ EndsFit /\ RunsFit)
<1>1. /\ TypeOK' /\ EngineKept /\ UNCHANGED <<adapter, office, out>> /\ EndsOnly({})
      /\ \A j \in Attempts : engine.request[j] \notin {"ok", "bad"}
      /\ engine.request[i] = "asked" /\ ~engine.exited
      /\ engine'.named = engine.named
      /\ engine'.request = [engine.request EXCEPT ![i] = IF ok THEN "ok" ELSE "bad"]
      /\ engine'.turn = IF ok THEN [engine.turn EXCEPT ![i] = "live"] ELSE engine.turn
  BY EngineAnswersFrame
<1>2. /\ engine.request \in [Attempts -> {"none", "asked", "ok", "bad", "handled"}]
      /\ engine.turn \in [Attempts -> {"none", "live", "erred", "over"}]
  BY DEF TypeOK, Engine
<1>3. /\ \A j \in Attempts : j # i => /\ engine'.request[j] = engine.request[j]
                                      /\ engine'.turn[j] = engine.turn[j]
      /\ engine'.request[i] = IF ok THEN "ok" ELSE "bad"
      /\ engine'.turn[i] = IF ok THEN "live" ELSE "none"
  BY <1>1, <1>2 DEF Booked
<1>4. engine.turn[i] = "none" /\ ~engine.named[i] /\ ~adapter.ended
  BY <1>1 DEF Booked
<1>5. /\ \A j \in Attempts : Follows(j)' <=> Follows(j)
      /\ \A j \in Attempts : Abandoned(j)' <=> Abandoned(j)
      /\ Abandoned(None)' <=> Abandoned(None)
  BY <1>1, GoneSame, TurnSame
<1>6. \A j \in Attempts : Live(j)' <=> Live(j) \/ (ok /\ j = i)
  BY <1>3, <1>4 DEF Live
<1>7. Booked'
  <2>1. \A j \in Attempts :
          /\ engine'.request[j] # "none" => engine'.send[j] \in 1..office'.sent
          /\ engine'.turn[j] # "none" => engine'.request[j] \in {"ok", "handled"}
          /\ engine'.request[j] = "ok" => engine'.turn[j] # "none"
          /\ engine'.named[j] => engine'.turn[j] # "none"
          /\ Follows(j)' => engine'.request[j] # "none"
          /\ engine'.request[j] \in {"asked", "ok"} => ~adapter'.ended
    BY ZenonT(40), <1>1, <1>3, <1>4, <1>5 DEF Booked, EngineKept
  <2>2. \A k \in 1..MaxSends : k > office'.sent => Ended(k)' = 0
    BY <1>1 DEF Booked, EndsOnly
  <2> QED BY <1>1, <2>1, <2>2 DEF Booked, EngineKept
<1>8. ASSUME Turns, Waits PROVE Turns'
  <2>1. Follows(i) /\ adapter.turn # Idle /\ adapter.turn.kind = "starting"
    BY <1>1, <1>8, Shapes DEF Turns, Asked
  <2>2. \A j \in Attempts : ~Stands(j)
    BY <1>4, <1>8, <2>1 DEF Waits, Errs, Fresh
  <2>3. ~Abandoned(None) /\ ~Abandoned(i)
    BY <1>4, <1>8, <2>1 DEF Turns, Unnamed, Named
  <2>4. \A j \in Attempts : Stands(j)' <=> (ok /\ j = i)
    BY <1>5, <1>6, <2>2, <2>3 DEF Stands
  <2>5. engine.send[i] = office.sent
    BY <1>8, <2>1 DEF Turns, Asked
  <2>6. Asked'
    <3> SUFFICES ASSUME NEW j \in Attempts
                 PROVE  /\ engine'.request[j] = "asked" => Follows(j)'
                        /\ engine'.request[j] = "ok" => (Live(j)' <=> Follows(j)')
                        /\ Follows(j)' =>
                             /\ engine'.send[j] = office'.sent
                             /\ engine'.request[j] = "handled" => adapter'.closed /\ engine'.retry[j]
                             /\ engine'.turn[j] # "none" => engine'.request[j] = "ok"
      BY DEF Asked
    <3>1. CASE j = i
      BY <1>1, <1>3, <1>5, <1>6, <2>1, <2>5, <3>1 DEF EngineKept
    <3>2. CASE j # i
      BY <1>1, <1>3, <1>5, <1>6, <1>8, <3>2 DEF EngineKept, Turns, Asked
    <3> QED BY <3>1, <3>2
  <2>7. OneStands' /\ Standing' /\ Running' /\ Unnamed'
    BY <1>1, <1>5, <2>1, <2>3, <2>4, <2>5
       DEF OneStands, Standing, Running, Unnamed, EngineKept
  <2>8. Named'
    BY <1>1, <1>3, <1>5, <1>8, <2>2, <2>3 DEF Turns, Named
  <2>9. GoneCurrent'
    BY <1>1, <1>5, <1>6, <1>8, <2>1, <2>3 DEF Turns, GoneCurrent, EngineKept
  <2>10. Owed'
    <3>1. office.sent \in 1..MaxSends
      BY <2>1, SentTyped
    <3> QED BY <1>1, <1>8, <3>1 DEF Turns, Owed, EndsOnly, EngineKept
  <2>11. ASSUME NEW j \in Attempts, Unanswered(j)'
         PROVE  /\ Ended(engine.send[j])' = 0
                /\ \A l \in Attempts :
                     engine'.request[l] # "none" /\ engine'.send[l] = engine'.send[j] => l = j
                /\ engine'.send[j] = office'.sent =>
                     /\ adapter'.turn = Idle \/ Follows(j)'
                     /\ \A l \in Attempts : ~Stands(l)'
    <3>1. Unanswered(j) /\ (ok => j # i)
      BY <1>1, <1>3, <2>11 DEF Unanswered, EngineKept
    <3>2. /\ Ended(engine.send[j]) = 0
          /\ \A l \in Attempts :
               engine.request[l] # "none" /\ engine.send[l] = engine.send[j] => l = j
          /\ engine.send[j] = office.sent => adapter.turn = Idle \/ Follows(j)
      BY <1>8, <3>1 DEF Turns, Phantoms
    <3>3. engine.send[j] \in 1..MaxSends
      BY <3>1, SentTyped DEF Unanswered
    <3>4. Ended(engine.send[j])' = 0
      BY <1>1, <3>2, <3>3 DEF EndsOnly, EngineKept
    <3>5. \A l \in Attempts : engine'.request[l] # "none" => engine.request[l] # "none"
      BY <1>1, <1>3
    <3>6. engine.send[j] = office.sent => j = i
      BY <1>1, <2>5, <3>2
    <3> QED BY <1>1, <1>5, <2>4, <3>1, <3>2, <3>4, <3>5, <3>6 DEF EngineKept
  <2>12. Phantoms'
    BY <2>11 DEF Phantoms
  <2> QED BY <2>6, <2>7, <2>8, <2>9, <2>10, <2>12 DEF Turns
<1> QED BY <1>1, <1>7, <1>8, NoEnd DEF RunsFit

\* The answer is handled: the turn that was starting runs.
LEMMA AcceptedSound ==
  ASSUME TypeOK, Booked, NEW i \in Attempts, SendReturns(i) \/ RetryReturns(i)
  PROVE  TypeOK' /\ Booked' /\ KeepsTurns
<1>1. /\ TypeOK' /\ EngineKept /\ OfficeKept /\ EndsOnly({})
      /\ engine.request[i] = "ok"
      /\ engine'.named = engine.named /\ engine'.turn = engine.turn
      /\ engine'.request = [engine.request EXCEPT ![i] = "handled"]
      /\ UNCHANGED <<adapter.active, adapter.closed, adapter.ended>>
      /\ office'.detached = office.detached
      /\ \/ UNCHANGED <<adapter.turn, adapter.gone>> /\ adapter.closed
         \/ /\ adapter'.turn = IF Follows(i) THEN [kind |-> "running", attempt |-> None]
                                ELSE adapter.turn
            /\ adapter'.gone = IF adapter.gone.on /\ adapter.gone.id = None
                                 THEN NotGone ELSE adapter.gone
  BY AcceptedFrame
<1>2. ~adapter.closed /\ engine.turn[i] # "none"
  BY <1>1 DEF Booked
<1>3. \A j \in Attempts : engine'.request[j] = IF j = i THEN "handled" ELSE engine.request[j]
  BY <1>1 DEF TypeOK, Engine
<1>4. \A j \in Attempts : Live(j)' <=> Live(j)
  BY <1>1 DEF Live
<1>5. CASE Follows(i)
  <2>1. /\ \A j \in Attempts : ~Follows(j)'
        /\ adapter'.turn.kind = "running" /\ adapter'.turn.attempt = None
    BY <1>1, <1>2, <1>5 DEF Follows
  <2>2. adapter.turn # Idle
    BY <1>5, Shapes
  <2>3. Booked'
    <3>1. office.sent > 0
      BY <2>2 DEF Booked
    <3> QED BY <1>1, <1>3, <2>1, <3>1 DEF Booked, EndsOnly, EngineKept, OfficeKept
  <2>4. ASSUME Turns PROVE Turns'
    <3>1. ~Abandoned(None)
      BY <2>2, <2>4 DEF Turns, Unnamed
    <3>2. adapter'.gone = adapter.gone
      BY <1>1, <3>1, GoneIs
    <3>3. /\ \A j \in Attempts : Abandoned(j)' <=> Abandoned(j)
          /\ ~Abandoned(None)'
      BY <3>1, <3>2, GoneSame
    <3>4. \A j \in Attempts : Stands(j)' <=> Stands(j)
      BY <1>4, <3>3 DEF Stands
    <3>5. Stands(i)
      BY <1>1, <1>5, <2>4 DEF Turns, Asked, Named, Stands
    <3>6. \A j \in Attempts : Stands(j) <=> j = i
      BY <2>4, <3>5 DEF Turns, OneStands
    <3>7. Asked'
      <4>1. \A j \in Attempts :
              /\ engine'.request[j] # "asked"
              /\ engine'.request[j] = "ok" => ~Live(j)
        BY <1>3, <1>5, <2>4, Shapes DEF Turns, Asked
      <4> QED BY <1>4, <2>1, <4>1 DEF Asked
    <3>8. OneStands' /\ Running' /\ Unnamed'
      BY <3>3, <3>4, <3>6 DEF OneStands, Running, Unnamed
    <3>9. Standing'
      BY <1>1, <2>1, <2>4, <3>4 DEF Turns, Standing, EngineKept, OfficeKept
    <3>10. Named'
      BY <1>1, <1>3, <2>4, <3>3, <3>4 DEF Turns, Named
    <3>11. GoneCurrent'
      BY <1>1, <1>4, <2>2, <2>4, <3>3 DEF Turns, GoneCurrent, EngineKept, OfficeKept
    <3>12. Owed'
      <4>1. office.sent \in 1..MaxSends
        BY <2>2, SentTyped
      <4> QED BY <1>1, <2>2, <2>4, <4>1 DEF Turns, Owed, EndsOnly, EngineKept, OfficeKept
    <3>13. ASSUME NEW j \in Attempts, Unanswered(j)'
           PROVE  /\ Ended(engine.send[j])' = 0
                  /\ \A l \in Attempts :
                       engine'.request[l] # "none" /\ engine'.send[l] = engine'.send[j] => l = j
                  /\ engine'.send[j] # office'.sent
      <4>1. Unanswered(j) /\ j # i
        BY <1>1, <1>2, <1>3, <3>13 DEF Unanswered, EngineKept
      <4>2. /\ Ended(engine.send[j]) = 0
            /\ \A l \in Attempts :
                 engine.request[l] # "none" /\ engine.send[l] = engine.send[j] => l = j
            /\ engine.send[j] # office.sent
        BY <2>4, <3>5, <4>1 DEF Turns, Phantoms
      <4>3. engine.send[j] \in 1..MaxSends
        BY <4>1, SentTyped DEF Unanswered
      <4>4. Ended(engine.send[j])' = 0
        BY <1>1, <4>2, <4>3 DEF EndsOnly, EngineKept
      <4> QED BY <1>1, <1>3, <4>2, <4>4 DEF EngineKept, OfficeKept
    <3>14. Phantoms'
      BY <3>13 DEF Phantoms
    <3> QED BY <3>7, <3>8, <3>9, <3>10, <3>11, <3>12, <3>14 DEF Turns
  <2> QED BY <1>1, <2>1, <2>3, <2>4, NoEnd DEF KeepsTurns, RunsFit
<1>6. CASE ~Follows(i)
  <2>1. adapter'.turn = adapter.turn
    BY <1>1, <1>2, <1>6
  <2>2. Booked'
    BY <1>1, <1>3, <2>1, TurnSame DEF Booked, EndsOnly, EngineKept, OfficeKept
  <2>3. ASSUME Turns PROVE Turns'
    <3>1. ~Live(i) /\ ~Abandoned(None)
      BY <1>1, <1>6, <2>3 DEF Turns, Asked, Unnamed
    <3>2. adapter'.gone = adapter.gone
      BY <1>1, <3>1, GoneIs
    <3>3. RequestsMove
      BY <1>1, <1>3 DEF RequestsMove
    <3> QED BY <1>1, <1>3, <1>4, <1>6, <2>1, <2>3, <3>2, <3>3, TurnsStay
            DEF EngineKept, OfficeKept
  <2> QED BY <1>1, <2>1, <2>2, <2>3, NoEnd DEF KeepsTurns, RunsFit
<1> QED BY <1>5, <1>6

\* The engine names its turn; one that was abandoned without a name gets it.
LEMMA TurnStartedSound ==
  ASSUME TypeOK, Booked, NEW i \in Attempts, TurnStarted(i)
  PROVE  TypeOK' /\ Booked' /\ KeepsTurns
<1>1. /\ TypeOK' /\ EngineKept /\ OfficeKept /\ EndsOnly({})
      /\ Live(i) /\ ~engine.named[i]
      /\ engine'.request = engine.request /\ engine'.turn = engine.turn
      /\ engine'.named = [engine.named EXCEPT ![i] = TRUE]
      /\ UNCHANGED <<adapter.turn, adapter.closed, adapter.ended, office>>
      /\ IF Abandoned(None) /\ adapter.turn = Idle
           THEN /\ adapter'.gone = [on |-> TRUE, id |-> i]
                /\ adapter'.active = adapter.active
         ELSE adapter'.gone = adapter.gone /\ adapter'.active = i
  BY TurnStartedFrame DEF Abandoned
<1>2. \A j \in Attempts : engine'.named[j] <=> engine.named[j] \/ j = i
  BY <1>1 DEF TypeOK, Engine
<1>3. \A j \in Attempts : Live(j)' <=> Live(j)
  BY <1>1 DEF Live
<1>4. \A j \in Attempts : Follows(j)' <=> Follows(j)
  BY <1>1, TurnSame
<1>5. RequestsMove
  BY <1>1 DEF RequestsMove
<1>6. Booked'
  BY <1>1, <1>2, <1>4, <1>5, BookedKept DEF Booked, EndsOnly, EngineKept, Live
<1>7. ASSUME Turns PROVE Turns'
  <2>1. CASE Abandoned(None) /\ adapter.turn = Idle
    <3>1. /\ \A j \in Attempts : Abandoned(j)' <=> j = i
          /\ ~Abandoned(None)' /\ \A j \in Attempts : ~Abandoned(j)
      <4>1. adapter'.gone = [on |-> TRUE, id |-> i]
        BY <1>1, <2>1
      <4>2. \A j \in Attempts \cup {None} : Abandoned(j)' => j = i
        BY <4>1 DEF Abandoned
      <4>3. Abandoned(i)'
        BY <4>1 DEF Abandoned
      <4> QED BY <2>1, <4>2, <4>3, Shapes
    <3>2. \A j \in Attempts : Live(j) => j = i
      BY <1>1, <1>7, <3>1 DEF Turns, OneStands, Stands
    <3>3. /\ adapter.active = None /\ adapter.turn.kind = "idle"
          /\ engine.request[i] = "handled"
          /\ \A j \in Attempts : engine.request[j] # "ok"
      BY <1>1, <1>7, <2>1, Shapes DEF Turns, Unnamed, Booked, Live
    <3>4. \A j \in Attempts : ~Stands(j)'
      BY <1>3, <3>1, <3>2 DEF Stands
    <3>5. Asked'
      BY ZenonT(40), <1>1, <1>3, <1>4, <1>7 DEF Turns, Asked, EngineKept
    <3>6. OneStands' /\ Standing' /\ Running' /\ Unnamed'
      BY <1>1, <3>1, <3>3, <3>4 DEF OneStands, Standing, Running, Unnamed
    <3>7. Named'
      BY <1>1, <1>2, <2>1, <3>1, <3>3 DEF Named
    <3>8. GoneCurrent'
      BY <1>1, <1>3, <2>1, <3>1, <3>2 DEF GoneCurrent
    <3>9. Owed'
      BY <1>1, <2>1 DEF Owed
    <3>10. ASSUME NEW j \in Attempts, Unanswered(j)'
           PROVE  /\ Ended(engine.send[j])' = 0
                  /\ \A l \in Attempts :
                       engine'.request[l] # "none" /\ engine'.send[l] = engine'.send[j] => l = j
      <4>1. Unanswered(j)
        BY <1>1, <3>10 DEF Unanswered, EngineKept
      <4>2. /\ Ended(engine.send[j]) = 0
            /\ \A l \in Attempts :
                 engine.request[l] # "none" /\ engine.send[l] = engine.send[j] => l = j
        BY <1>7, <4>1 DEF Turns, Phantoms
      <4>3. engine.send[j] \in 1..MaxSends
        BY <4>1, SentTyped DEF Unanswered
      <4> QED BY <1>1, <4>2, <4>3 DEF EndsOnly, EngineKept
    <3>11. Phantoms'
      BY <1>1, <2>1, <3>4, <3>10 DEF Phantoms
    <3> QED BY <3>5, <3>6, <3>7, <3>8, <3>9, <3>11 DEF Turns
  <2>2. CASE ~(Abandoned(None) /\ adapter.turn = Idle)
    <3>1. ~Abandoned(None)
      BY <1>7, <2>2 DEF Turns, Unnamed
    <3>2. Stands(i)
      BY <1>1, <1>7 DEF Turns, Named, Stands
    <3>3. \A j \in Attempts : adapter'.active = j => Stands(j) /\ engine'.named[j]
      BY <1>1, <1>2, <2>2, <3>2
    <3>4. \A j \in Attempts : engine.named[j] => engine'.named[j]
      BY <1>2
    <3> QED BY <1>1, <1>3, <1>5, <1>7, <2>2, <3>1, <3>3, <3>4, TurnsStay DEF EngineKept
  <2> QED BY <2>1, <2>2
<1> QED BY <1>1, <1>6, <1>7, NoEnd DEF KeepsTurns, RunsFit

\* A retry starts the turn of the message that waited.
LEMMA RetryTimerSound ==
  ASSUME TypeOK, Booked, RetryTimerFires
  PROVE  TypeOK' /\ Booked' /\ KeepsTurns
<1>1. /\ TypeOK' /\ EndsOnly({}) /\ OfficeKept
      /\ adapter.turn.kind = "backoff"
      /\ UNCHANGED <<adapter.active, adapter.gone, adapter.closed, adapter.ended, office>>
      /\ \A i \in Attempts : engine.request[i] \notin {"ok", "bad"}
  BY RetryTimerFrame
<1>2. PICK i \in Attempts :
        /\ engine.request[i] = "none"
        /\ adapter'.turn = [kind |-> "starting", attempt |-> i]
        /\ Requests(i, office.sent, TRUE)
  BY RetryTimerFrame
<1>3. adapter.turn # Idle /\ \A j \in Attempts : ~Follows(j)
  BY <1>1, Shapes
<1>4. PICK k \in 1..MaxSends : k = office.sent
  BY <1>3, SentTyped
<1>5. /\ UNCHANGED <<engine.turn, engine.named, engine.exited>>
      /\ engine'.request[i] = IF adapter.ended THEN "bad" ELSE "asked"
      /\ engine'.send[i] = k /\ engine'.retry[i] = TRUE
      /\ \A j \in Attempts :
           /\ j # i => /\ engine'.request[j] = engine.request[j]
                       /\ engine'.send[j] = engine.send[j]
                       /\ engine'.retry[j] = engine.retry[j]
           /\ Follows(j)' <=> j = i
           /\ Live(j)' <=> Live(j)
           /\ Abandoned(j)' <=> Abandoned(j)
           /\ Stands(j)' <=> Stands(j)
      /\ Abandoned(None)' <=> Abandoned(None)
      /\ adapter'.turn.kind = "starting" /\ adapter'.turn.attempt = i
      /\ adapter'.turn # Idle
  <2>1. Requests(i, k, TRUE) /\ k \in 0..MaxSends
    BY <1>2, <1>4 DEF Requests
  <2>2. TRUE \in BOOLEAN /\ adapter'.gone = adapter.gone
    BY <1>1
  <2> QED BY <1>2, <2>1, <2>2, RequestsFrame
<1>6. /\ engine.turn[i] = "none" /\ ~engine.named[i]
      /\ ~Live(i) /\ ~Stands(i)
  BY <1>2, FreeAttempt
<1>7. Booked'
  <2>1. \A j \in 1..MaxSends : j > office'.sent => Ended(j)' = 0
    BY <1>1 DEF Booked, EndsOnly
  <2>2. \A j \in Attempts : engine'.request[j] # "none" => engine'.send[j] \in 1..office'.sent
    BY <1>1, <1>4, <1>5 DEF Booked
  <2>3. ASSUME NEW j \in Attempts
        PROVE  /\ engine'.turn[j] # "none" => engine'.request[j] \in {"ok", "handled"}
               /\ engine'.request[j] = "ok" => engine'.turn[j] # "none"
               /\ engine'.named[j] => engine'.turn[j] # "none"
               /\ Follows(j)' => engine'.request[j] # "none"
               /\ engine'.request[j] \in {"asked", "ok"} => ~adapter'.ended
    <3>1. CASE j = i
      BY <1>1, <1>5, <1>6, <3>1
    <3>2. CASE j # i
      <4>1. engine'.request[j] = engine.request[j] /\ ~Follows(j)'
        BY <1>5, <3>2
      <4>2. /\ engine'.turn = engine.turn /\ engine'.named = engine.named
            /\ adapter'.ended = adapter.ended
        BY <1>1, <1>5
      <4>3. /\ engine.turn[j] # "none" => engine.request[j] \in {"ok", "handled"}
            /\ engine.request[j] = "ok" => engine.turn[j] # "none"
            /\ engine.named[j] => engine.turn[j] # "none"
            /\ engine.request[j] \in {"asked", "ok"} => ~adapter.ended
        BY DEF Booked
      <4> QED BY <4>1, <4>2, <4>3
    <3> QED BY <3>1, <3>2
  <2> QED BY <1>1, <1>3, <1>5, <2>1, <2>2, <2>3 DEF Booked
<1>8. ASSUME Turns PROVE Turns'
  <2>1. ~Abandoned(None)
    BY <1>3, <1>8 DEF Turns, Unnamed
  <2>2. \A j \in Attempts : engine.request[j] # "asked"
    BY <1>3, <1>8 DEF Turns, Asked
  <2>3. Asked'
    <3> SUFFICES ASSUME NEW j \in Attempts
                 PROVE  /\ engine'.request[j] = "asked" => j = i
                        /\ engine'.request[j] # "ok"
                        /\ j = i => /\ engine'.send[j] = office'.sent
                                    /\ engine'.request[j] \in {"asked", "bad"}
                                    /\ engine'.turn[j] = "none"
      BY <1>5 DEF Asked
    <3>1. CASE j = i
      BY <1>1, <1>4, <1>5, <1>6, <3>1
    <3>2. CASE j # i
      <4>1. engine'.request[j] = engine.request[j]
        BY <1>5, <3>2
      <4>2. engine.request[j] \notin {"asked", "ok"}
        BY <1>1, <2>2
      <4> QED BY <3>2, <4>1, <4>2
    <3> QED BY <3>1, <3>2
  <2>4. OneStands' /\ Running' /\ Unnamed'
    BY <1>5, <1>8, <2>1 DEF Turns, OneStands, Running, Unnamed
  <2>5. Standing'
    BY <1>1, <1>3, <1>5, <1>6, <1>8, <2>1 DEF Turns, Standing
  <2>6. Named'
    BY <1>1, <1>2, <1>5, <1>8 DEF Turns, Named
  <2>7. GoneCurrent'
    <3>1. ASSUME NEW j \in Attempts, Live(j)', Abandoned(j)'
          PROVE  engine'.send[j] # office'.sent
      <4>1. Live(j) /\ Abandoned(j)
        BY <1>5, <3>1
      <4>2. engine.send[j] # office.sent
        BY <1>3, <1>8, <4>1 DEF Turns, GoneCurrent
      <4>3. engine'.send[j] = engine.send[j]
        BY <1>5, <1>6, <4>1
      <4> QED BY <1>1, <4>2, <4>3
    <3> QED BY <3>1 DEF GoneCurrent
  <2>8. Owed'
    BY <1>1, <1>3, <1>4, <1>5, <1>8 DEF Turns, Owed, EndsOnly
  <2>9. ASSUME NEW j \in Attempts, Unanswered(j)'
        PROVE  /\ Ended(engine.send[j])' = 0
               /\ \A l \in Attempts :
                    engine'.request[l] # "none" /\ engine'.send[l] = engine'.send[j] => l = j
               /\ engine'.send[j] # office'.sent
    <3>1. Unanswered(j) /\ j # i
      BY <1>5, <2>9 DEF Unanswered
    <3>2. /\ Ended(engine.send[j]) = 0
          /\ \A l \in Attempts :
               engine.request[l] # "none" /\ engine.send[l] = engine.send[j] => l = j
          /\ engine.send[j] # office.sent
      BY <1>3, <1>8, <3>1 DEF Turns, Phantoms
    <3>3. engine.send[j] \in 1..MaxSends
      BY <3>1, SentTyped DEF Unanswered
    <3>4. Ended(engine.send[j])' = 0
      BY <1>1, <1>5, <3>1, <3>2, <3>3 DEF EndsOnly
    <3>5. engine'.send[j] = engine.send[j] /\ office'.sent = office.sent
      BY <1>1, <1>5, <3>1
    <3>6. ASSUME NEW l \in Attempts,
                 engine'.request[l] # "none" /\ engine'.send[l] = engine'.send[j]
          PROVE  l = j
      <4>1. CASE l = i
        <5>1. engine'.send[l] = office.sent
          BY <1>4, <1>5, <4>1
        <5> QED BY <3>2, <3>5, <3>6, <5>1
      <4>2. CASE l # i
        <5>1. engine'.request[l] = engine.request[l] /\ engine'.send[l] = engine.send[l]
          BY <1>5, <4>2
        <5> QED BY <3>2, <3>5, <3>6, <5>1
      <4> QED BY <4>1, <4>2
    <3> QED BY <3>2, <3>4, <3>5, <3>6
  <2>10. Phantoms'
    BY <2>9 DEF Phantoms
  <2> QED BY <2>3, <2>4, <2>5, <2>6, <2>7, <2>8, <2>10 DEF Turns
<1> QED BY <1>1, <1>5, <1>7, <1>8, NoEnd DEF KeepsTurns, RunsFit

\* The watchdog ends the turn that stands, which is the only one, or it
\* abandons a second one and strays.
LEMMA WatchdogSound ==
  ASSUME TypeOK, Booked, NEW held \in BOOLEAN, WatchdogFires(held)
  PROVE  TypeOK' /\ Booked' /\ KeepsTurns
<1>1. /\ TypeOK' /\ UNCHANGED engine /\ office'.sent = office.sent
      /\ UNCHANGED <<adapter.closed, adapter.ended, office.detached>>
      /\ \A i \in Attempts : engine.request[i] \notin {"ok", "bad"}
      /\ \/ /\ UNCHANGED <<adapter.turn, adapter.active, adapter.gone>>
            /\ office'.strayed = office.strayed /\ EndsOnly({})
         \/ /\ adapter.turn.kind = "running" /\ adapter'.turn = Idle
            /\ adapter'.active = None
            /\ adapter'.gone = [on |-> TRUE, id |-> adapter.active]
            /\ EndsOnly({office.sent})
            /\ office'.strayed = (office.strayed \/ (adapter.gone.id \in Attempts
                                    /\ Live(adapter.gone.id)))
  BY WatchdogFrame
<1>2. \A j \in Attempts : Live(j)' <=> Live(j)
  BY <1>1 DEF Live
<1>3. RequestsMove
  BY <1>1 DEF RequestsMove
<1>4. CASE /\ UNCHANGED <<adapter.turn, adapter.active, adapter.gone>>
           /\ EndsOnly({})
  <2>1. Booked'
    BY <1>1, <1>3, <1>4, BookedKept, TurnSame DEF Booked, EndsOnly
  <2>2. Turns => Turns'
    BY <1>1, <1>2, <1>3, <1>4, TurnsStay
  <2> QED BY <1>1, <1>4, <2>1, <2>2, NoEnd DEF KeepsTurns, RunsFit
<1>5. CASE /\ adapter.turn.kind = "running" /\ adapter'.turn = Idle
           /\ adapter'.active = None
           /\ adapter'.gone = [on |-> TRUE, id |-> adapter.active]
           /\ EndsOnly({office.sent})
           /\ office'.strayed = (office.strayed \/ (adapter.gone.id \in Attempts
                                   /\ Live(adapter.gone.id)))
  <2>1. /\ adapter.turn # Idle /\ \A j \in Attempts : ~Follows(j) /\ ~Follows(j)'
        /\ adapter'.turn.kind = "idle" /\ adapter'.turn.attempt = None
    BY <1>5, Shapes, TurnIdle
  <2>2. PICK k \in 1..MaxSends : k = office.sent
    BY <2>1, SentTyped
  <2>3. \A l \in 1..MaxSends : l > office.sent => Ended(l)' = Ended(l)
    BY <1>5 DEF EndsOnly
  <2>4. Booked'
    BY <1>1, <1>3, <1>5, <2>1, <2>3, BookedKept DEF Booked
  <2>5. ASSUME Turns, ~office'.strayed PROVE Turns'
    <3>1. PICK s \in Attempts : Stands(s)
      BY <1>5, <2>5 DEF Turns, Running
    <3>2. ~Abandoned(None) /\ engine.send[s] = k
      BY <2>1, <2>2, <2>5, <3>1 DEF Turns, Unnamed, Standing
    <3>3. \A j \in Attempts : Live(j) <=> j = s
      <4>1. \A j \in Attempts : Live(j) => ~Abandoned(j)
        <5>1. \A j \in Attempts : Abandoned(j) => adapter.gone.id = j
          BY DEF Abandoned
        <5> QED BY <1>5, <2>5, <5>1
      <4> QED BY <2>5, <3>1, <4>1 DEF Turns, OneStands, Stands
    <3>4. adapter.active \in {s, None}
      <4>1. adapter.active \in Attempts \cup {None}
        BY DEF TypeOK, Adapter
      <4> QED BY <2>5, <3>3, <4>1 DEF Turns, Named, Stands
    <3>5. \A j \in Attempts \cup {None} : Abandoned(j)' <=> adapter.active = j
      <4>1. ASSUME NEW j \in Attempts \cup {None}, Abandoned(j)' PROVE adapter.active = j
        BY <1>5, <4>1 DEF Abandoned
      <4>2. ASSUME NEW j \in Attempts \cup {None}, adapter.active = j PROVE Abandoned(j)'
        BY <1>5, <4>2 DEF Abandoned
      <4> QED BY <4>1, <4>2
    <3>6. \A j \in Attempts : engine.request[j] \notin {"asked", "ok"}
      BY <1>1, <2>1, <2>5 DEF Turns, Asked
    <3>7. \A j \in Attempts : Stands(j)' <=> (j = s /\ adapter.active = None)
      BY <1>2, <3>3, <3>4, <3>5 DEF Stands
    <3>8. Asked'
      BY <1>1, <2>1, <3>6 DEF Asked
    <3>9. OneStands' /\ Running'
      BY <2>1, <3>7 DEF OneStands, Running
    <3>10. Standing'
      BY <1>1, <2>2, <3>2, <3>5, <3>7 DEF Standing
    <3>11. Unnamed'
      BY <1>1, <1>2, <1>5, <3>3, <3>6 DEF Unnamed
    <3>12. Named'
      <4>1. engine.request[s] = "handled"
        BY <3>3, <3>6 DEF Booked, Live
      <4>2. adapter.active = s => engine.named[s]
        BY <2>5 DEF Turns, Named
      <4> QED BY <1>1, <1>5, <3>4, <3>5, <4>1, <4>2 DEF Named
    <3>13. GoneCurrent'
      BY <1>2, <1>5, <3>3 DEF GoneCurrent
    <3>14. Owed'
      BY <1>5 DEF Owed
    <3>15. ASSUME NEW j \in Attempts, Unanswered(j)'
           PROVE  /\ Ended(engine.send[j])' = 0
                  /\ \A l \in Attempts :
                       engine'.request[l] # "none" /\ engine'.send[l] = engine'.send[j] => l = j
                  /\ engine'.send[j] # office'.sent
      <4>1. Unanswered(j)
        BY <1>1, <3>15 DEF Unanswered
      <4>2. /\ Ended(engine.send[j]) = 0
            /\ \A l \in Attempts :
                 engine.request[l] # "none" /\ engine.send[l] = engine.send[j] => l = j
            /\ engine.send[j] # office.sent
        BY <2>5, <3>1, <4>1 DEF Turns, Phantoms
      <4>3. engine.send[j] \in 1..MaxSends
        BY <4>1, SentTyped DEF Unanswered
      <4>4. Ended(engine.send[j])' = 0
        BY <1>1, <1>5, <4>2, <4>3 DEF EndsOnly
      <4> QED BY <1>1, <4>2, <4>4
    <3>16. Phantoms'
      BY <3>15 DEF Phantoms
    <3> QED BY <3>8, <3>9, <3>10, <3>11, <3>12, <3>13, <3>14, <3>16 DEF Turns
  <2>6. Turns => EndsFit
    BY <1>5, <2>1, LastEnds
  <2> QED BY <1>1, <2>1, <2>4, <2>5, <2>6 DEF KeepsTurns, RunsFit
<1> QED BY <1>1, <1>4, <1>5

\* The completion that the adapter does not drop is of the turn that stands,
\* which no other turn of the same message outlives.
LEMMA CompletedStands ==
  ASSUME TypeOK, Booked, Turns, NEW i \in Attempts, Live(i), ~Dropped(i)
  PROVE  /\ Stands(i) /\ ~Abandoned(None)
         /\ engine.send[i] = office.sent
         /\ adapter.turn = Idle => engine.exited
         /\ \A j \in Attempts :
              /\ Stands(j) => j = i
              /\ engine.request[j] # "asked"
              /\ engine.request[j] = "ok" /\ Live(j) => j = i
              /\ Live(j) /\ engine.send[j] = office.sent => j = i
              /\ Unanswered(j) => engine.send[j] # office.sent
<1>1. ~Abandoned(i)
  BY GoneIs DEF Dropped
<1>2. ~Abandoned(None)
  <2>1. adapter.turn = Idle => ~OwesTurnEnd(adapter)
    BY Shapes DEF OwesTurnEnd
  <2>2. Abandoned(None) => adapter.gone.on /\ adapter.gone.id = None
    BY GoneIs
  <2> QED BY <2>1, <2>2 DEF Turns, Unnamed, Dropped
<1>3. Stands(i)
  BY <1>1 DEF Stands
<1>4. /\ engine.send[i] = office.sent
      /\ engine.exited \/ adapter.turn.kind = "running" \/ Follows(i)
  BY <1>2, <1>3 DEF Turns, Standing
<1>5. adapter.turn = Idle => engine.exited
  BY <1>4, Shapes
<1>6. \A j \in Attempts : Stands(j) => j = i
  BY <1>3 DEF Turns, OneStands
<1>7. \A j \in Attempts : Follows(j) => j = i \/ engine.exited
  BY <1>4, Shapes
<1>8. \A j \in Attempts : engine.request[j] \in {"asked", "ok"} => ~engine.exited
  BY DEF Booked
<1>9. \A j \in Attempts : engine.request[j] # "asked"
  <2>1. Follows(i) => engine.request[i] # "asked"
    BY DEF Turns, Asked, Live
  <2> QED BY <1>7, <1>8, <2>1 DEF Turns, Asked
<1>10. \A j \in Attempts : engine.request[j] = "ok" /\ Live(j) => j = i
  BY <1>7, <1>8 DEF Turns, Asked
<1>11. \A j \in Attempts : Live(j) /\ engine.send[j] = office.sent => j = i
  BY <1>6 DEF Turns, GoneCurrent, Stands
<1>12. \A j \in Attempts : Unanswered(j) => engine.send[j] # office.sent
  BY <1>3 DEF Turns, Phantoms
<1> QED BY <1>2, <1>3, <1>4, <1>5, <1>6, <1>9, <1>10, <1>11, <1>12

\* A completion that is dropped is of the turn that was abandoned.
LEMMA DroppedGone ==
  ASSUME TypeOK, Booked, Turns, NEW i \in Attempts, Live(i), Dropped(i)
  PROVE  /\ Abandoned(i) \/ Abandoned(None)
         /\ engine.request[i] # "ok"
         /\ \A j \in Attempts :
              /\ Live(j) /\ j # i <=> Stands(j) /\ j # i
              /\ Abandoned(i) => ~Stands(i)
              /\ Abandoned(None) => (Live(j) => j = i)
<1>1. Abandoned(i) \/ Abandoned(None)
  BY GoneIs DEF Dropped
<1>2. CASE Abandoned(i)
  BY <1>2, Shapes DEF Turns, Named, Stands
<1>3. CASE Abandoned(None)
  <2>1. \A j \in Attempts : Stands(j) <=> Live(j)
    BY <1>3, Shapes DEF Stands
  <2> QED BY <1>3, <2>1, Shapes DEF Turns, OneStands, Unnamed
<1> QED BY <1>1, <1>2, <1>3

\* A turn/completed leaves none of the turn's traces behind.
LEMMA TurnCompletedSound ==
  ASSUME TypeOK, Booked, NEW i \in Attempts, NEW failed \in BOOLEAN,
         NEW held \in BOOLEAN, TurnCompleted(i, failed, held)
  PROVE  TypeOK' /\ Booked' /\ KeepsTurns
<1>1. /\ TypeOK' /\ EngineKept /\ OfficeKept /\ Live(i)
      /\ engine'.request = engine.request /\ engine'.named = engine.named
      /\ engine'.turn = [engine.turn EXCEPT ![i] = "over"]
      /\ UNCHANGED <<adapter.closed, adapter.ended, office>>
      /\ \/ /\ Dropped(i) /\ EndsOnly({}) /\ adapter'.gone = NotGone
            /\ UNCHANGED <<adapter.turn, adapter.active>>
         \/ /\ ~Dropped(i) /\ adapter'.gone = adapter.gone /\ adapter'.active = None
            /\ \/ /\ adapter'.turn.kind = "backoff" /\ adapter'.turn.attempt = None
                  /\ EndsOnly({})
               \/ adapter'.turn = Idle /\ EndsOnly({engine.send[i]})
  BY TurnCompletedFrame
<1>2. \A j \in Attempts : engine'.turn[j] = IF j = i THEN "over" ELSE engine.turn[j]
  BY <1>1 DEF TypeOK, Engine
<1>3. \A j \in Attempts : Live(j)' <=> Live(j) /\ j # i
  BY <1>2 DEF Live
<1>4. PICK k \in 1..MaxSends : k = engine.send[i] /\ k <= office.sent /\ EndsOnly({k})
  <2>1. engine.request[i] # "none"
    BY <1>1 DEF Booked, Live
  <2>2. engine.send[i] \in 1..MaxSends /\ engine.send[i] \in 1..office.sent
    BY <2>1, SentTyped DEF Booked
  <2>3. office.sent \in Nat
    BY DEF TypeOK, Office
  <2> QED BY <1>1, <2>2, <2>3 DEF EndsOnly
<1>5. \A j \in Attempts : engine'.turn[j] # "none" <=> engine.turn[j] # "none"
  BY <1>1, <1>2 DEF Live
<1>6. Booked'
  <2>1. /\ \A j \in Attempts : Follows(j)' => Follows(j)
        /\ adapter'.turn.kind = "starting" <=> adapter'.turn.attempt # None
    <3>1. CASE adapter'.turn = adapter.turn
      BY <3>1, TurnSame DEF Booked
    <3>2. CASE adapter'.turn.kind = "backoff" /\ adapter'.turn.attempt = None
      BY <3>2 DEF Follows
    <3>3. CASE adapter'.turn = Idle
      BY <3>3, TurnIdle
    <3> QED BY <1>1, <3>1, <3>2, <3>3
  <2>2. \A l \in 1..MaxSends : l > office'.sent => Ended(l)' = 0
    BY <1>1, <1>4 DEF EndsOnly, Booked, OfficeKept, TypeOK, Office
  <2>3. \A j \in Attempts :
          /\ engine'.request[j] # "none" => engine'.send[j] \in 1..office'.sent
          /\ engine'.turn[j] # "none" => engine'.request[j] \in {"ok", "handled"}
          /\ engine'.request[j] = "ok" => engine'.turn[j] # "none"
          /\ engine'.named[j] => engine'.turn[j] # "none"
          /\ Follows(j)' => engine'.request[j] # "none"
          /\ engine'.request[j] \in {"asked", "ok"} => ~adapter'.ended
    BY <1>1, <1>5, <2>1 DEF Booked, EngineKept, OfficeKept
  <2>4. office'.sent > 0
    BY <1>1, <1>4 DEF OfficeKept, TypeOK, Office
  <2> QED BY <1>1, <2>1, <2>2, <2>3, <2>4 DEF Booked, EngineKept, OfficeKept
<1>7. \A j \in Attempts : Unanswered(j)' => Unanswered(j)
  BY <1>1, <1>5 DEF Unanswered, EngineKept
<1>8. ASSUME NEW j \in Attempts, Unanswered(j), Turns,
             Ended(engine.send[j])' = Ended(engine.send[j])
      PROVE  /\ Ended(engine.send[j])' = 0
             /\ \A l \in Attempts :
                  engine'.request[l] # "none" /\ engine'.send[l] = engine'.send[j] => l = j
  BY ZenonT(40), <1>1, <1>8 DEF Turns, Phantoms, EngineKept
<1>9. CASE /\ Dropped(i) /\ EndsOnly({}) /\ adapter'.gone = NotGone
           /\ UNCHANGED <<adapter.turn, adapter.active>>
  <2> SUFFICES ASSUME Turns PROVE Turns'
    BY <1>1, <1>6, <1>9, NoEnd DEF KeepsTurns, RunsFit
  <2>1. \A j : ~Abandoned(j)'
    BY <1>9 DEF Abandoned, NotGone
  <2>2. /\ Abandoned(i) \/ Abandoned(None)
        /\ engine.request[i] # "ok"
        /\ \A j \in Attempts :
             /\ Live(j) /\ j # i <=> Stands(j) /\ j # i
             /\ Abandoned(i) => ~Stands(i)
             /\ Abandoned(None) => (Live(j) => j = i)
    BY <1>1, <1>9, DroppedGone
  <2>3. \A j \in Attempts : Stands(j)' <=> Stands(j) /\ j # i
    BY <1>3, <2>1, <2>2 DEF Stands
  <2>4. \A j \in Attempts : Follows(j)' <=> Follows(j)
    BY <1>9, TurnSame
  <2>5. Asked'
    <3> SUFFICES ASSUME NEW j \in Attempts
                 PROVE  /\ engine'.request[j] = "asked" => Follows(j)'
                        /\ engine'.request[j] = "ok" => (Live(j)' <=> Follows(j)')
                        /\ Follows(j)' =>
                             /\ engine'.send[j] = office'.sent
                             /\ engine'.request[j] = "handled" => adapter'.closed /\ engine'.retry[j]
                             /\ engine'.turn[j] # "none" => engine'.request[j] = "ok"
      BY DEF Asked
    <3>1. /\ engine.request[j] = "asked" => Follows(j)
          /\ engine.request[j] = "ok" => (Live(j) <=> Follows(j))
          /\ Follows(j) =>
               /\ engine.send[j] = office.sent
               /\ engine.request[j] = "handled" => adapter.closed /\ engine.retry[j]
               /\ engine.turn[j] # "none" => engine.request[j] = "ok"
      BY DEF Turns, Asked
    <3> QED BY <1>1, <1>3, <1>5, <2>2, <2>4, <3>1 DEF EngineKept, OfficeKept
  <2>6. OneStands' /\ Unnamed' /\ GoneCurrent'
    BY <2>1, <2>3 DEF Turns, OneStands, Unnamed, GoneCurrent
  <2>7. CASE Abandoned(None)
    <3>1. \A j \in Attempts : ~Stands(j)'
      BY <2>2, <2>3, <2>7 DEF Stands
    <3>2. adapter.turn = Idle /\ adapter.turn.kind = "idle" /\ adapter.active = None
      BY <2>7, Shapes DEF Turns, Unnamed
    <3>3. Standing' /\ Running' /\ Named' /\ Owed'
      BY <1>9, <2>1, <3>1, <3>2 DEF Standing, Running, Named, Owed
    <3>4. Phantoms'
      <4>1. \A j \in Attempts :
              Unanswered(j) => Ended(engine.send[j])' = Ended(engine.send[j])
        BY <1>1, <1>9, SentTyped DEF EndsOnly, Unanswered, EngineKept
      <4> QED BY <1>1, <1>7, <1>8, <1>9, <3>1, <3>2, <4>1 DEF Phantoms, EngineKept
    <3> QED BY <2>5, <2>6, <3>3, <3>4 DEF Turns
  <2>8. CASE Abandoned(i)
    <3>1. \A j \in Attempts : Stands(j)' <=> Stands(j)
      BY <2>2, <2>3, <2>8
    <3>2. ~Abandoned(None)
      BY <2>8, Shapes
    <3>3. Standing'
      BY <1>1, <1>9, <2>4, <3>1, <3>2 DEF Turns, Standing, EngineKept, OfficeKept
    <3>4. Running' /\ Named'
      BY <1>1, <1>9, <2>1, <3>1 DEF Turns, Running, Named
    <3>5. Owed'
      <4>1. adapter.turn # Idle => Ended(office.sent)' = Ended(office.sent)
        BY <1>1, <1>9, SentTyped DEF EndsOnly, OfficeKept
      <4> QED BY <1>1, <1>9, <4>1 DEF Turns, Owed, EngineKept, OfficeKept
    <3>6. Phantoms'
      <4>1. \A j \in Attempts :
              Unanswered(j) => Ended(engine.send[j])' = Ended(engine.send[j])
        BY <1>1, <1>9, SentTyped DEF EndsOnly, Unanswered, EngineKept
      <4>2. ASSUME NEW j \in Attempts, Unanswered(j), engine.send[j] = office.sent
            PROVE  /\ adapter.turn = Idle \/ Follows(j)
                   /\ \A l \in Attempts : ~Stands(l)
        BY <4>2 DEF Turns, Phantoms
      <4> QED BY <1>1, <1>7, <1>8, <1>9, <2>4, <3>1, <4>1, <4>2 DEF Phantoms, EngineKept, OfficeKept
    <3> QED BY <2>5, <2>6, <3>3, <3>4, <3>5, <3>6 DEF Turns
  <2> QED BY <2>2, <2>7, <2>8
<1>10. CASE /\ ~Dropped(i) /\ adapter'.gone = adapter.gone /\ adapter'.active = None
            /\ \/ /\ adapter'.turn.kind = "backoff" /\ adapter'.turn.attempt = None
                  /\ EndsOnly({})
               \/ adapter'.turn = Idle /\ EndsOnly({engine.send[i]})
  <2> SUFFICES ASSUME Turns PROVE Turns' /\ EndsFit /\ RunsFit
    BY <1>1, <1>6 DEF KeepsTurns
  <2>1. /\ Stands(i) /\ ~Abandoned(None)
        /\ engine.send[i] = office.sent
        /\ adapter.turn = Idle => engine.exited
        /\ \A j \in Attempts :
             /\ Stands(j) => j = i
             /\ engine.request[j] # "asked"
             /\ engine.request[j] = "ok" /\ Live(j) => j = i
             /\ Live(j) /\ engine.send[j] = office.sent => j = i
             /\ Unanswered(j) => engine.send[j] # office.sent
    BY <1>1, <1>10, CompletedStands
  <2>2. \A j \in Attempts \cup {None} : Abandoned(j)' <=> Abandoned(j)
    BY <1>10, GoneSame
  <2>3. /\ \A j \in Attempts : ~Follows(j)'
        /\ adapter'.turn.kind \in {"idle", "backoff"}
    <3>1. CASE adapter'.turn = Idle
      BY <3>1, TurnIdle
    <3>2. CASE adapter'.turn.kind = "backoff"
      BY <3>2 DEF Follows
    <3> QED BY <1>10, <3>1, <3>2
  <2>4. \A j \in Attempts : ~Stands(j)'
    BY <1>3, <2>1, <2>2 DEF Stands
  <2>5. \A j \in Attempts : Live(j)' => engine.send[j] # office.sent
    BY <1>3, <2>1
  <2>6. Asked'
    BY <1>1, <1>3, <2>1, <2>3 DEF Asked
  <2>7. OneStands' /\ Standing' /\ Running' /\ Unnamed'
    BY <2>1, <2>2, <2>3, <2>4 DEF OneStands, Standing, Running, Unnamed
  <2>8. Named'
    BY <1>1, <1>10, <2>2 DEF Turns, Named
  <2>9. GoneCurrent'
    BY <1>1, <2>5 DEF GoneCurrent, EngineKept, OfficeKept
  <2>10. Owed'
    <3>1. CASE adapter'.turn = Idle
      BY <3>1 DEF Owed
    <3>2. CASE EndsOnly({})
      BY <1>1, <1>4, <2>1, <3>2 DEF Turns, Owed, EndsOnly, EngineKept, OfficeKept
    <3> QED BY <1>10, <3>1, <3>2
  <2>11. Phantoms'
    <3>1. ASSUME NEW j \in Attempts, Unanswered(j)
          PROVE  Ended(engine.send[j])' = Ended(engine.send[j])
      <4>1. engine.send[j] \in 1..MaxSends /\ engine.send[j] # k
        BY <1>4, <2>1, <3>1, SentTyped DEF Unanswered
      <4> QED BY <1>1, <1>4, <4>1 DEF EndsOnly, EngineKept
    <3> QED BY <1>1, <1>7, <1>8, <2>1, <3>1 DEF Phantoms, EngineKept, OfficeKept
  <2>12. EndsFit
    <3>1. CASE EndsOnly({})
      BY <3>1, NoEnd
    <3>2. CASE EndsOnly({engine.send[i]}) /\ adapter.turn # Idle
      BY <2>1, <3>2, LastEnds
    <3>3. CASE engine.exited
      BY <3>3 DEF EndsFit
    <3> QED BY <1>10, <2>1, <3>1, <3>2, <3>3
  <2>13. RunsFit
    BY <2>5 DEF RunsFit
  <2> QED BY <2>6, <2>7, <2>8, <2>9, <2>10, <2>11, <2>12, <2>13 DEF Turns
<1> QED BY <1>1, <1>9, <1>10

-----------------------------------------------------------------------------
(* The office waits.                                                       *)

\* While the stream has not ended, the turn that stands is the one the adapter
\* runs or starts, or the one it abandoned without a name, and a request that
\* was refused is of a turn that has not begun.
LEMMA Expects ==
  ASSUME TypeOK, Booked, Turns, Waits, ~adapter.ended
  PROVE  /\ ~adapter.closed /\ ~engine.exited
         /\ \A i \in Attempts : Stands(i) /\ ~Abandoned(None) =>
              /\ adapter.turn.kind = "running" \/ Follows(i)
              /\ adapter.turn # Idle /\ ~Fresh
         /\ \A i \in Attempts : engine.request[i] = "bad" => Follows(i) /\ Fresh
         /\ adapter.turn # Idle => adapter.reading = {}
<1>1. ~adapter.closed /\ ~engine.exited
  BY DEF Booked
<1>2. ASSUME NEW i \in Attempts, Stands(i), ~Abandoned(None)
      PROVE  /\ adapter.turn.kind = "running" \/ Follows(i)
             /\ adapter.turn # Idle /\ ~Fresh
  <2>1. adapter.turn.kind = "running" \/ Follows(i)
    BY <1>1, <1>2 DEF Turns, Standing
  <2>2. adapter.turn # Idle
    BY <2>1, Shapes
  <2> QED BY <1>2, <2>1, <2>2 DEF Waits, Errs
<1>3. ASSUME NEW i \in Attempts, engine.request[i] = "bad" PROVE Follows(i) /\ Fresh
  <2>1. Follows(i)
    BY <1>3 DEF Waits, Refusals
  <2>2. engine.turn[i] = "none"
    BY <1>3, <2>1 DEF Turns, Asked
  <2> QED BY <2>1, <2>2 DEF Fresh
<1>4. adapter.turn # Idle => adapter.reading = {}
  BY DEF Waits, Awaits
<1> QED BY <1>1, <1>2, <1>3, <1>4

\* The same turn is fresh.
LEMMA FreshSame ==
  ASSUME adapter'.turn = adapter.turn,
         \A i \in Attempts : engine'.turn[i] = "none" <=> engine.turn[i] = "none"
  PROVE  Fresh' <=> Fresh
BY DEF Fresh, Follows

\* A step that touches no turn keeps the office waiting, if it does not settle
\* the office's turn.
LEMMA WaitsKept ==
  ASSUME Waits,
         UNCHANGED <<adapter.turn, adapter.gone, adapter.capacity, adapter.limit>>,
         UNCHANGED <<adapter.reading, engine.turn, office.sent>>,
         adapter'.dog => adapter.dog,
         \A i \in Attempts : engine'.request[i] = "bad" => engine.request[i] = "bad",
         Unsettled => out' = <<>> /\ office'.call # "none" /\ ~office'.settled
  PROVE  Waits'
<1>1. /\ \A i \in Attempts : Live(i)' <=> Live(i)
      /\ \A i \in Attempts : Abandoned(i)' <=> Abandoned(i)
      /\ Abandoned(None)' <=> Abandoned(None)
      /\ \A i \in Attempts : Follows(i)' <=> Follows(i)
  BY GoneSame, TurnSame DEF Live
<1>2. \A i \in Attempts : Stands(i)' <=> Stands(i)
  BY <1>1 DEF Stands
<1>3. Fresh' <=> Fresh
  BY FreshSame
<1>4. Errs'
  BY <1>1, <1>2, <1>3 DEF Waits, Errs
<1>5. Unsettled' => Unsettled
  BY <1>1, <1>2, <1>3 DEF Unsettled
<1>6. Awaits'
  BY <1>5 DEF Waits, Awaits
<1>7. Refusals'
  BY <1>1 DEF Waits, Refusals
<1> QED BY <1>4, <1>6, <1>7 DEF Waits

\* A turn that has not begun ends: nothing more is to come.
LEMMA FreshEnds ==
  ASSUME TypeOK, Booked, Turns, Waits, ~adapter.ended,
         Fresh, adapter'.turn = Idle,
         UNCHANGED <<adapter.gone, adapter.reading, engine.turn>>,
         ~(adapter'.capacity /\ adapter'.limit),
         \A i \in Attempts : engine'.request[i] # "bad"
  PROVE  Waits'
<1>1. adapter.turn # Idle
  BY Shapes DEF Fresh, Idle
<1>2. adapter'.reading = {}
  BY <1>1, Expects
<1>3. /\ \A i \in Attempts : Live(i)' <=> Live(i)
      /\ \A i \in Attempts : Abandoned(i)' <=> Abandoned(i)
      /\ Abandoned(None)' <=> Abandoned(None)
  BY GoneSame DEF Live
<1>4. \A i \in Attempts : ~Stands(i)'
  BY <1>3 DEF Stands, Waits, Errs
<1>5. ~Fresh'
  BY TurnIdle DEF Fresh
<1>6. Errs'
  BY <1>3, <1>4, <1>5 DEF Waits, Errs
<1>7. Awaits'
  BY <1>2, <1>4, <1>5 DEF Awaits, Unsettled
<1>8. Refusals'
  BY DEF Refusals
<1> QED BY <1>6, <1>7, <1>8 DEF Waits

\* A send waits for its turn, which has not begun.
LEMMA SendWaits ==
  ASSUME TypeOK, Booked, Turns, Waits, ~adapter.ended, Send, ~office'.strayed
  PROVE  Waits'
<1>1. /\ out' = <<>> /\ office.call = "none" /\ office'.call = "sending" /\ ~office'.settled
      /\ ~adapter'.dog /\ ~adapter'.capacity /\ ~adapter'.limit
      /\ UNCHANGED <<adapter.reading, adapter.gone>>
      /\ office'.strayed = (office.strayed \/ Stray # {})
      /\ \A j \in Attempts : engine.request[j] \notin {"ok", "bad"}
  BY SendFrame
<1>2. PICK i \in Attempts :
        /\ engine.request[i] = "none"
        /\ adapter'.turn = [kind |-> "starting", attempt |-> i]
        /\ Requests(i, office.sent + 1, FALSE)
  BY SendFrame
<1>3. PICK k \in 0..MaxSends : k = office.sent + 1
  BY SendFrame DEF TypeOK, Office
<1>4. /\ engine'.turn = engine.turn
      /\ \A j \in Attempts :
           /\ j # i => engine'.request[j] = engine.request[j]
           /\ Follows(j)' <=> j = i
           /\ Live(j)' <=> Live(j)
           /\ Abandoned(j)' <=> Abandoned(j)
           /\ Stands(j)' <=> Stands(j)
      /\ Abandoned(None)' <=> Abandoned(None)
  <2>1. Requests(i, k, FALSE) /\ FALSE \in BOOLEAN /\ adapter'.gone = adapter.gone
    BY <1>1, <1>2, <1>3 DEF Requests
  <2>2. /\ UNCHANGED <<engine.turn, engine.named, engine.exited>>
        /\ \A j \in Attempts :
             /\ j # i => /\ engine'.request[j] = engine.request[j]
                         /\ engine'.send[j] = engine.send[j]
                         /\ engine'.retry[j] = engine.retry[j]
             /\ Follows(j)' <=> j = i
             /\ Live(j)' <=> Live(j)
             /\ Abandoned(j)' <=> Abandoned(j)
             /\ Stands(j)' <=> Stands(j)
        /\ Abandoned(None)' <=> Abandoned(None)
    BY <1>2, <1>3, <2>1, RequestsFrame
  <2> QED BY <2>2
<1>5. \A j \in Attempts : ~Stands(j)
  BY <1>1 DEF Stray, Stands, Abandoned
<1>6. Errs'
  BY <1>1, <1>4, <1>5 DEF Waits, Errs
<1>7. Awaits'
  BY <1>1 DEF Waits, Awaits, Unsettled
<1>8. Refusals'
  BY <1>1, <1>4 DEF Refusals
<1> QED BY <1>6, <1>7, <1>8 DEF Waits

\* The answer to a request in flight is of a turn that has not begun.
LEMMA EngineAnswersWaits ==
  ASSUME TypeOK, Booked, Turns, Waits, ~adapter.ended,
         NEW i \in Attempts, NEW ok \in BOOLEAN, EngineAnswers(i, ok)
  PROVE  Waits'
<1>1. /\ UNCHANGED <<adapter, office, out>>
      /\ \A j \in Attempts : engine.request[j] \notin {"ok", "bad"}
      /\ engine.request[i] = "asked"
      /\ engine'.request = [engine.request EXCEPT ![i] = IF ok THEN "ok" ELSE "bad"]
      /\ engine'.turn = IF ok THEN [engine.turn EXCEPT ![i] = "live"] ELSE engine.turn
  BY EngineAnswersFrame
<1>2. /\ engine.request \in [Attempts -> {"none", "asked", "ok", "bad", "handled"}]
      /\ engine.turn \in [Attempts -> {"none", "live", "erred", "over"}]
  BY DEF TypeOK, Engine
<1>3. /\ \A j \in Attempts : j # i => /\ engine'.request[j] = engine.request[j]
                                      /\ engine'.turn[j] = engine.turn[j]
      /\ engine'.turn[i] = IF ok THEN "live" ELSE "none"
  BY <1>1, <1>2 DEF Booked
<1>4. engine.turn[i] = "none" /\ ~engine.named[i]
  BY <1>1 DEF Booked
<1>5. /\ \A j \in Attempts : Follows(j)' <=> Follows(j)
      /\ \A j \in Attempts : Abandoned(j)' <=> Abandoned(j)
      /\ Abandoned(None)' <=> Abandoned(None)
  BY <1>1, GoneSame, TurnSame
<1>6. \A j \in Attempts : Live(j)' <=> Live(j) \/ (ok /\ j = i)
  BY <1>3, <1>4 DEF Live
<1>7. Follows(i) /\ Fresh
  BY <1>1, <1>4 DEF Turns, Asked, Fresh
<1>8. adapter.turn.kind = "starting" /\ \A j \in Attempts : Follows(j) => j = i
  BY <1>7, Shapes
<1>9. /\ ~adapter.dog /\ ~adapter.limit /\ ~adapter.capacity
      /\ \A j \in Attempts : ~Stands(j)
  BY <1>7, <1>8 DEF Waits, Errs
<1>10. ~Abandoned(None) /\ ~Abandoned(i)
  BY <1>4, <1>7, <1>8, Shapes DEF Turns, Unnamed, Named
<1>11. \A j \in Attempts : Stands(j)' => ok
  BY <1>5, <1>6, <1>9 DEF Stands
<1>12. Fresh' => ~ok
  BY <1>1, <1>3, <1>5, <1>8 DEF Fresh
<1>13. Errs'
  <2>1. \A j \in Attempts : Live(j)' /\ (Abandoned(j)' \/ Abandoned(None)') => engine'.turn[j] = "erred"
    BY <1>3, <1>5, <1>6, <1>10 DEF Waits, Errs
  <2> QED BY <1>1, <1>9, <1>11, <1>12, <2>1 DEF Errs
<1>14. Awaits'
  BY <1>1, <1>7 DEF Waits, Awaits, Unsettled
<1>15. Refusals'
  BY <1>1, <1>3, <1>5, <1>7 DEF Refusals
<1> QED BY <1>13, <1>14, <1>15 DEF Waits

\* The answer that is handled is of the turn that stands.
LEMMA AcceptedWaits ==
  ASSUME TypeOK, Booked, Turns, Waits, ~adapter.ended,
         NEW i \in Attempts, SendReturns(i) \/ RetryReturns(i)
  PROVE  Waits'
<1>1. /\ OfficeKept /\ engine.request[i] = "ok"
      /\ engine'.turn = engine.turn
      /\ engine'.request = [engine.request EXCEPT ![i] = "handled"]
      /\ FlagsKept /\ UNCHANGED <<adapter.reading, office.settled, out>>
      /\ office.call # "none" /\ ~office.settled => office'.call # "none"
      /\ \/ UNCHANGED <<adapter.turn, adapter.gone>> /\ adapter.closed
         \/ /\ adapter'.turn = IF Follows(i) THEN [kind |-> "running", attempt |-> None]
                                ELSE adapter.turn
            /\ adapter'.gone = IF adapter.gone.on /\ adapter.gone.id = None
                                 THEN NotGone ELSE adapter.gone
  BY AcceptedFrame
<1>2. ~adapter.closed /\ engine.turn[i] # "none"
  BY <1>1, Expects DEF Booked
<1>3. adapter'.gone = adapter.gone
  BY <1>1, <1>2, GoneIs DEF Turns, Unnamed
<1>4. /\ \A j \in Attempts : Live(j)' <=> Live(j)
      /\ \A j \in Attempts : Abandoned(j)' <=> Abandoned(j)
      /\ Abandoned(None)' <=> Abandoned(None)
  BY <1>1, <1>3, GoneSame DEF Live
<1>5. \A j \in Attempts : engine'.request[j] = IF j = i THEN "handled" ELSE engine.request[j]
  BY <1>1 DEF TypeOK, Engine
<1>6. CASE ~Follows(i)
  <2>1. adapter'.turn = adapter.turn
    BY <1>1, <1>2, <1>6
  <2>2. Unsettled => out' = <<>> /\ office'.call # "none" /\ ~office'.settled
    BY <1>1 DEF Waits, Awaits
  <2>3. \A j \in Attempts : engine'.request[j] = "bad" => engine.request[j] = "bad"
    BY <1>5
  <2> QED BY <1>1, <1>3, <2>1, <2>2, <2>3, WaitsKept DEF OfficeKept, FlagsKept
<1>7. CASE Follows(i)
  <2>1. adapter'.turn.kind = "running" /\ \A j \in Attempts : ~Follows(j)'
    BY <1>1, <1>2, <1>7 DEF Follows
  <2>2. ~Fresh'
    BY <2>1 DEF Fresh
  <2>3. \A j \in Attempts : Stands(j)' <=> Stands(j)
    BY <1>4 DEF Stands
  <2>4. adapter.reading = {}
    BY <1>7, Expects, Shapes
  <2>5. Unsettled' => Unsettled
    BY <1>1, <1>4, <2>2, <2>3 DEF Unsettled, FlagsKept
  <2>6. Errs'
    BY <1>1, <1>4, <2>2, <2>3 DEF Waits, Errs, FlagsKept
  <2>7. Awaits'
    BY <1>1, <2>4, <2>5 DEF Waits, Awaits
  <2>8. Refusals'
    BY <1>1, <1>5, <1>7, Shapes, Expects DEF Refusals
  <2> QED BY <2>6, <2>7, <2>8 DEF Waits
<1> QED BY <1>6, <1>7

\* A send that throws, or a retry that fails, ends a turn that has not begun.
LEMMA RefusedWaits ==
  ASSUME TypeOK, Booked, Turns, Waits, ~adapter.ended,
         NEW i \in Attempts, SendThrows(i) \/ RetryFails(i)
  PROVE  Waits'
<1>1. /\ engine.request[i] = "bad"
      /\ engine'.turn = engine.turn
      /\ engine'.request = [engine.request EXCEPT ![i] = "handled"]
      /\ UNCHANGED <<adapter.gone, adapter.reading>>
      /\ Follows(i) /\ ~adapter.closed => adapter'.turn = Idle /\ FlagsKept
  <2>1. CASE SendThrows(i)
    BY <2>1, SendThrowsFrame
  <2>2. CASE RetryFails(i)
    <3>1. /\ engine.request[i] = "bad"
          /\ engine'.turn = engine.turn
          /\ engine'.request = [engine.request EXCEPT ![i] = "handled"]
          /\ UNCHANGED <<adapter.gone, adapter.reading>>
          /\ \/ adapter.closed \/ ~Follows(i)
             \/ adapter'.turn = Idle /\ FlagsKept
      BY <2>2, RetryFailsFrame
    <3> QED BY <3>1
  <2> QED BY <2>1, <2>2
<1>2. Follows(i) /\ Fresh /\ ~adapter.closed
  BY <1>1, Expects
<1>3. ~(adapter'.capacity /\ adapter'.limit)
  BY <1>1, <1>2 DEF Waits, Errs, FlagsKept
<1>4. \A j \in Attempts : engine'.request[j] = IF j = i THEN "handled" ELSE engine.request[j]
  BY <1>1 DEF TypeOK, Engine
<1>5. \A j \in Attempts : engine'.request[j] # "bad"
  BY <1>2, <1>4, Expects, Shapes
<1> QED BY <1>1, <1>2, <1>3, <1>5, FreshEnds

\* Stop ends a turn that waits for its retry.
LEMMA StopInBackoffWaits ==
  ASSUME TypeOK, Booked, Turns, Waits, ~adapter.ended, StopInBackoff
  PROVE  Waits'
<1>1. /\ UNCHANGED <<engine, office>> /\ adapter.turn.kind = "backoff"
      /\ adapter'.turn = Idle
      /\ UNCHANGED <<adapter.gone, adapter.limit, adapter.reading>>
      /\ \A i \in Attempts : engine.request[i] \notin {"ok", "bad"}
  BY StopInBackoffFrame
<1>2. Fresh
  BY <1>1 DEF Fresh
<1>3. ~adapter'.limit
  BY <1>1, <1>2 DEF Waits, Errs
<1> QED BY <1>1, <1>2, <1>3, FreshEnds

\* The name of a turn settles nothing.
LEMMA TurnStartedWaits ==
  ASSUME TypeOK, Booked, Turns, Waits, ~adapter.ended, NEW i \in Attempts, TurnStarted(i)
  PROVE  Waits'
<1>1. /\ Live(i) /\ ~engine.named[i]
      /\ engine'.request = engine.request /\ engine'.turn = engine.turn
      /\ UNCHANGED <<adapter.turn, adapter.reading, office, out>> /\ FlagsKept
      /\ IF Abandoned(None) /\ adapter.turn = Idle
           THEN adapter'.gone = [on |-> TRUE, id |-> i]
         ELSE adapter'.gone = adapter.gone
  BY TurnStartedFrame DEF Abandoned
<1>2. Unsettled => out' = <<>> /\ office'.call # "none" /\ ~office'.settled
  BY <1>1 DEF Waits, Awaits
<1>3. CASE adapter'.gone = adapter.gone
  BY <1>1, <1>2, <1>3, WaitsKept DEF FlagsKept
<1>4. CASE Abandoned(None) /\ adapter.turn = Idle /\ adapter'.gone = [on |-> TRUE, id |-> i]
  <2>1. \A j \in Attempts : Live(j) => j = i
    BY <1>1, <1>4, Shapes DEF Turns, OneStands, Stands
  <2>2. Abandoned(i)'
    BY <1>4 DEF Abandoned
  <2>3. \A j \in Attempts : Live(j)' <=> Live(j)
    BY <1>1 DEF Live
  <2>4. \A j \in Attempts : ~Stands(j)'
    BY <2>1, <2>2, <2>3 DEF Stands
  <2>5. ~Fresh'
    BY <1>1, <1>4, TurnIdle DEF Fresh
  <2>6. Errs'
    BY <1>1, <1>4, <2>3, <2>4, <2>5 DEF Waits, Errs, FlagsKept
  <2>7. Unsettled' => Unsettled
    BY <1>1, <2>4, <2>5 DEF Unsettled
  <2>8. Awaits'
    BY <1>1, <1>2, <2>7 DEF Waits, Awaits
  <2>9. Refusals'
    BY <1>1, TurnSame DEF Waits, Refusals
  <2> QED BY <2>6, <2>8, <2>9 DEF Waits
<1> QED BY <1>1, <1>3, <1>4

\* A terminal error is of the turn that stands; one the chat shows settles the
\* office's turn.
LEMMA ErrorsWaits ==
  ASSUME TypeOK, Booked, Turns, Waits, ~adapter.ended,
         NEW i \in Attempts, NEW what \in ErrorKinds, Errors(i, what)
  PROVE  Waits'
<1>1. /\ engine.turn[i] = "live"
      /\ engine'.request = engine.request
      /\ engine'.turn = [engine.turn EXCEPT ![i] = "erred"]
      /\ UNCHANGED <<adapter.turn, adapter.gone, adapter.reading, office>>
      /\ adapter'.capacity = (adapter.capacity \/ what = "capacity")
      /\ adapter'.limit = (adapter.limit \/ what = "limit")
      /\ what # "shown" => out' = out
  BY ErrorsFrame
<1>2. \A j \in Attempts : engine'.turn[j] = IF j = i THEN "erred" ELSE engine.turn[j]
  BY <1>1 DEF TypeOK, Engine
<1>3. /\ \A j \in Attempts : Live(j)' <=> Live(j)
      /\ \A j \in Attempts : Abandoned(j)' <=> Abandoned(j)
      /\ Abandoned(None)' <=> Abandoned(None)
  BY <1>1, <1>2, GoneSame DEF Live
<1>4. Stands(i) /\ ~Abandoned(None)
  BY <1>1 DEF Waits, Errs, Stands, Live
<1>5. \A j \in Attempts : Stands(j)' <=> j = i
  BY <1>3, <1>4 DEF Turns, OneStands, Stands
<1>6. ~adapter.capacity /\ ~adapter.limit
  BY <1>1, <1>4 DEF Waits, Errs
<1>7. ~Fresh' /\ adapter.reading = {}
  BY <1>1, <1>2, <1>4, Expects, FreshSame
<1>8. ~(adapter'.capacity /\ adapter'.limit)
  BY <1>1, <1>6
<1>9. Errs'
  BY <1>2, <1>3, <1>5, <1>7, <1>8 DEF Waits, Errs
<1>10. out = <<>> /\ office.call # "none" /\ ~office.settled
  BY <1>1, <1>4 DEF Waits, Awaits, Unsettled
<1>11. Unsettled' => what # "shown"
  BY <1>1, <1>2, <1>5, <1>6, <1>7 DEF Unsettled
<1>12. Awaits'
  BY <1>1, <1>7, <1>10, <1>11 DEF Awaits
<1>13. Refusals'
  BY <1>1, TurnSame DEF Waits, Refusals
<1> QED BY <1>9, <1>12, <1>13 DEF Waits

\* A completion lets the message wait for a retry, or its end enters the stream
\* or waits for the rate limits.
LEMMA TurnCompletedWaits ==
  ASSUME TypeOK, Booked, Turns, Waits, ~adapter.ended,
         NEW i \in Attempts, NEW failed \in BOOLEAN, NEW held \in BOOLEAN,
         TurnCompleted(i, failed, held)
  PROVE  Waits'
<1>1. /\ Live(i) /\ OfficeKept
      /\ engine'.request = engine.request
      /\ engine'.turn = [engine.turn EXCEPT ![i] = "over"]
      /\ office' = office
      /\ \/ /\ Dropped(i) /\ adapter'.gone = NotGone
            /\ adapter'.turn = adapter.turn
            /\ FlagsKept /\ UNCHANGED <<adapter.reading, out>>
         \/ /\ ~Dropped(i) /\ adapter'.gone = adapter.gone /\ ~adapter'.dog
            /\ \/ /\ adapter'.turn.kind = "backoff"
                  /\ adapter.capacity
                  /\ UNCHANGED <<adapter.limit, adapter.reading, out>>
               \/ /\ adapter'.turn = Idle
                  /\ ~adapter'.capacity /\ ~adapter'.limit
                  /\ \/ adapter'.reading = adapter.reading
                     \/ /\ adapter'.reading = adapter.reading \cup {engine.send[i]}
                        /\ out' = out
                        /\ adapter.limit \/ engine.turn[i] = "live"
  BY TurnCompletedFrame
<1>2. \A j \in Attempts : engine'.turn[j] = IF j = i THEN "over" ELSE engine.turn[j]
  BY <1>1 DEF TypeOK, Engine
<1>3. \A j \in Attempts : Live(j)' <=> Live(j) /\ j # i
  BY <1>2 DEF Live
<1>4. CASE /\ Dropped(i) /\ adapter'.gone = NotGone
           /\ adapter'.turn = adapter.turn
           /\ FlagsKept /\ UNCHANGED <<adapter.reading, out>>
  <2>1. /\ Abandoned(i) \/ Abandoned(None)
        /\ \A j \in Attempts :
             /\ Live(j) /\ j # i <=> Stands(j) /\ j # i
             /\ Abandoned(None) => (Live(j) => j = i)
    BY <1>1, <1>4, DroppedGone
  <2>2. \A j : ~Abandoned(j)'
    BY <1>4 DEF Abandoned, NotGone
  <2>3. \A j \in Attempts : Stands(j)' <=> Stands(j) /\ j # i
    BY <1>3, <2>1, <2>2 DEF Stands
  <2>4. \A j \in Attempts : engine'.turn[j] = "none" <=> engine.turn[j] = "none"
    BY <1>1, <1>2 DEF Live
  <2>5. Fresh' <=> Fresh
    BY <1>4, <2>4, FreshSame
  <2>6. Errs'
    BY <1>2, <1>4, <2>2, <2>3, <2>5 DEF Waits, Errs, FlagsKept
  <2>7. \A j \in Attempts : Stands(j)' => ~Abandoned(None)
    BY <2>1, <2>3 DEF Stands
  <2>8. Unsettled' => Unsettled
    BY <1>2, <1>4, <2>3, <2>5, <2>7 DEF Unsettled, FlagsKept
  <2>9. Awaits'
    BY <1>1, <1>4, <2>8 DEF Waits, Awaits
  <2>10. Refusals'
    BY <1>1, <1>4, TurnSame DEF Waits, Refusals
  <2> QED BY <2>6, <2>9, <2>10 DEF Waits
<1>5. CASE ~Dropped(i) /\ adapter'.gone = adapter.gone /\ ~adapter'.dog
  <2>1. /\ Stands(i) /\ ~Abandoned(None) /\ engine.send[i] = office.sent
        /\ \A j \in Attempts : Stands(j) => j = i
    BY <1>1, <1>5, CompletedStands
  <2>2. /\ \A j \in Attempts : Abandoned(j)' <=> Abandoned(j)
        /\ Abandoned(None)' <=> Abandoned(None)
    BY <1>5, GoneSame
  <2>3. \A j \in Attempts : ~Stands(j)'
    BY <1>3, <2>1, <2>2 DEF Stands
  <2>4. adapter.reading = {} /\ \A j \in Attempts : engine.request[j] # "bad"
    BY <2>1, Expects
  <2>5. ~(adapter.capacity /\ adapter.limit)
    BY DEF Waits, Errs
  <2>6. Refusals'
    BY <1>1, <2>4 DEF Refusals
  <2>7. \A j \in Attempts : Live(j)' /\ (Abandoned(j)' \/ Abandoned(None)') => engine'.turn[j] = "erred"
    BY <1>2, <1>3, <2>2 DEF Waits, Errs
  <2>8. CASE /\ adapter'.turn.kind = "backoff"
             /\ adapter.capacity
             /\ UNCHANGED <<adapter.limit, adapter.reading, out>>
    <3>1. Errs'
      BY <1>5, <2>3, <2>5, <2>7, <2>8 DEF Errs
    <3>2. Unsettled
      BY <2>1, <2>8 DEF Unsettled
    <3>3. Awaits'
      BY <1>1, <2>4, <2>8, <3>2 DEF Waits, Awaits
    <3> QED BY <2>6, <3>1, <3>3 DEF Waits
  <2>9. CASE /\ adapter'.turn = Idle
             /\ ~adapter'.capacity /\ ~adapter'.limit
             /\ \/ adapter'.reading = adapter.reading
                \/ /\ adapter'.reading = adapter.reading \cup {engine.send[i]}
                   /\ out' = out
                   /\ adapter.limit \/ engine.turn[i] = "live"
    <3>1. ~Fresh'
      BY <2>9, TurnIdle DEF Fresh
    <3>2. Errs'
      BY <2>3, <2>7, <2>9, <3>1 DEF Errs
    <3>3. Unsettled' => adapter'.reading # {}
      BY <2>3, <3>1 DEF Unsettled
    <3>4. CASE adapter'.reading = adapter.reading
      <4>1. Awaits'
        BY <2>4, <3>3, <3>4 DEF Awaits
      <4> QED BY <2>6, <3>2, <4>1 DEF Waits
    <3>5. CASE /\ adapter'.reading = adapter.reading \cup {engine.send[i]}
               /\ out' = out
               /\ adapter.limit \/ engine.turn[i] = "live"
      <4>1. Unsettled
        BY <2>1, <3>5 DEF Unsettled
      <4>2. adapter'.reading = {office'.sent}
        BY <1>1, <2>1, <2>4, <3>5
      <4>3. Awaits'
        BY <1>1, <2>9, <3>5, <4>1, <4>2 DEF Waits, Awaits
      <4> QED BY <2>6, <3>2, <4>3 DEF Waits
    <3> QED BY <2>9, <3>4, <3>5
  <2> QED BY <1>1, <1>5, <2>8, <2>9
<1> QED BY <1>1, <1>4, <1>5

\* A retry waits for a turn that has not begun, as the backoff did.
LEMMA RetryTimerWaits ==
  ASSUME TypeOK, Booked, Turns, Waits, ~adapter.ended, RetryTimerFires
  PROVE  Waits'
<1>1. /\ adapter.turn.kind = "backoff" /\ adapter'.gone = adapter.gone
      /\ \A i \in Attempts : engine.request[i] \notin {"ok", "bad"}
      /\ ~adapter'.capacity
      /\ UNCHANGED <<adapter.dog, adapter.limit, adapter.reading, office, out>>
  BY RetryTimerFrame
<1>2. PICK i \in Attempts :
        /\ engine.request[i] = "none"
        /\ adapter'.turn = [kind |-> "starting", attempt |-> i]
        /\ Requests(i, office.sent, TRUE)
  BY RetryTimerFrame
<1>3. PICK k \in 0..MaxSends : k = office.sent
  BY DEF TypeOK, Office
<1>4. /\ engine'.turn = engine.turn
      /\ \A j \in Attempts :
           /\ j # i => engine'.request[j] = engine.request[j]
           /\ Follows(j)' <=> j = i
           /\ Live(j)' <=> Live(j)
           /\ Abandoned(j)' <=> Abandoned(j)
           /\ Stands(j)' <=> Stands(j)
      /\ Abandoned(None)' <=> Abandoned(None)
  <2>1. Requests(i, k, TRUE) /\ TRUE \in BOOLEAN
    BY <1>2, <1>3 DEF Requests
  <2>2. /\ UNCHANGED <<engine.turn, engine.named, engine.exited>>
        /\ \A j \in Attempts :
             /\ j # i => /\ engine'.request[j] = engine.request[j]
                         /\ engine'.send[j] = engine.send[j]
                         /\ engine'.retry[j] = engine.retry[j]
             /\ Follows(j)' <=> j = i
             /\ Live(j)' <=> Live(j)
             /\ Abandoned(j)' <=> Abandoned(j)
             /\ Stands(j)' <=> Stands(j)
        /\ Abandoned(None)' <=> Abandoned(None)
    BY <1>1, <1>2, <1>3, <2>1, RequestsFrame
  <2> QED BY <2>2
<1>5. Fresh /\ adapter.turn # Idle
  BY <1>1, Shapes DEF Fresh
<1>6. /\ ~adapter.dog /\ ~adapter.limit /\ adapter.reading = {}
      /\ \A j \in Attempts : ~Stands(j)
  BY <1>5, Expects DEF Waits, Errs
<1>7. Errs'
  BY <1>1, <1>4, <1>6 DEF Waits, Errs
<1>8. Awaits'
  BY <1>1, <1>5, <1>6 DEF Waits, Awaits, Unsettled
<1>9. Refusals'
  BY <1>1, <1>4 DEF Refusals
<1> QED BY <1>7, <1>8, <1>9 DEF Waits

\* The turn that the watchdog ends met its error.
LEMMA WatchdogWaits ==
  ASSUME TypeOK, Booked, Turns, Waits, ~adapter.ended, NEW held \in BOOLEAN,
         WatchdogFires(held), ~office'.strayed
  PROVE  Waits'
<1>1. /\ UNCHANGED engine /\ office'.sent = office.sent
      /\ UNCHANGED <<office.call, office.settled>>
      /\ \A i \in Attempts : engine.request[i] \notin {"ok", "bad"}
      /\ adapter.dog /\ ~adapter'.dog
      /\ \/ /\ UNCHANGED <<adapter.turn, adapter.active, adapter.gone>>
            /\ UNCHANGED <<adapter.capacity, adapter.limit, adapter.reading, out>>
         \/ /\ adapter.turn.kind = "running" /\ adapter'.turn = Idle
            /\ ~adapter'.capacity /\ ~adapter'.limit
            /\ \/ adapter'.reading = adapter.reading
               \/ /\ adapter'.reading = adapter.reading \cup {office.sent}
                  /\ out' = out /\ adapter.limit
            /\ office'.strayed = (office.strayed \/ (adapter.gone.id \in Attempts
                                    /\ Live(adapter.gone.id)))
  BY WatchdogFrame
<1>2. Refusals'
  BY <1>1 DEF Refusals
<1>3. CASE /\ UNCHANGED <<adapter.turn, adapter.active, adapter.gone>>
           /\ UNCHANGED <<adapter.capacity, adapter.limit, adapter.reading, out>>
  <2>1. Unsettled => out' = <<>> /\ office'.call # "none" /\ ~office'.settled
    BY <1>1, <1>3 DEF Waits, Awaits
  <2> QED BY <1>1, <1>3, <2>1, WaitsKept
<1>4. CASE /\ adapter.turn.kind = "running" /\ adapter'.turn = Idle
           /\ ~adapter'.capacity /\ ~adapter'.limit
           /\ \/ adapter'.reading = adapter.reading
              \/ /\ adapter'.reading = adapter.reading \cup {office.sent}
                 /\ out' = out /\ adapter.limit
           /\ office'.strayed = (office.strayed \/ (adapter.gone.id \in Attempts
                                   /\ Live(adapter.gone.id)))
  <2>1. PICK s \in Attempts : Stands(s)
    BY <1>4 DEF Turns, Running
  <2>2. adapter.turn # Idle /\ adapter.reading = {}
    BY <1>4, Shapes, Expects
  <2>3. ~Abandoned(None)
    BY <2>2 DEF Turns, Unnamed
  <2>4. \A j \in Attempts : Live(j) => j = s
    <3>1. \A j \in Attempts : Live(j) => ~Abandoned(j)
      <4>1. \A j \in Attempts : Abandoned(j) => adapter.gone.id = j
        BY DEF Abandoned
      <4> QED BY <1>4, <4>1
    <3> QED BY <2>1, <3>1 DEF Turns, OneStands, Stands
  <2>5. engine.turn[s] = "erred"
    BY <1>1, <2>1 DEF Waits, Errs
  <2>6. \A j \in Attempts : Live(j)' => engine'.turn[j] = "erred"
    BY <1>1, <2>4, <2>5 DEF Live
  <2>7. ~Fresh'
    BY <1>4, TurnIdle DEF Fresh
  <2>8. Errs'
    BY <1>1, <1>4, <2>6, <2>7 DEF Errs, Stands
  <2>9. Unsettled' => adapter'.reading # {}
    BY <1>4, <2>6, <2>7 DEF Unsettled, Stands
  <2>10. CASE adapter'.reading = adapter.reading
    <3>1. Awaits'
      BY <2>2, <2>9, <2>10 DEF Awaits
    <3> QED BY <1>2, <2>8, <3>1 DEF Waits
  <2>11. CASE adapter'.reading = adapter.reading \cup {office.sent} /\ out' = out /\ adapter.limit
    <3>1. Unsettled
      BY <2>1, <2>3, <2>11 DEF Unsettled
    <3>2. adapter'.reading = {office'.sent}
      BY <1>1, <2>2, <2>11
    <3>3. Awaits'
      BY <1>1, <1>4, <2>11, <3>1, <3>2 DEF Waits, Awaits
    <3> QED BY <1>2, <2>8, <3>3 DEF Waits
  <2> QED BY <1>4, <2>10, <2>11
<1> QED BY <1>1, <1>3, <1>4

\* The end that was held back is of the last message.
LEMMA LimitReadWaits ==
  ASSUME TypeOK, Booked, Turns, Waits, ~adapter.ended, NEW k \in 1..MaxSends, LimitReadEnds(k)
  PROVE  Waits'
<1>1. /\ UNCHANGED <<engine, office>> /\ UNCHANGED <<adapter.turn, adapter.gone>>
      /\ FlagsKept
      /\ k \in adapter.reading /\ adapter'.reading = adapter.reading \ {k}
  BY LimitReadFrame
<1>2. adapter.turn = Idle /\ adapter'.reading = {}
  <2>1. adapter.turn = Idle /\ adapter.reading = {office.sent}
    BY <1>1 DEF Waits, Awaits
  <2> QED BY <1>1, <2>1
<1>3. /\ \A j \in Attempts : Live(j)' <=> Live(j)
      /\ \A j \in Attempts : Abandoned(j)' <=> Abandoned(j)
      /\ Abandoned(None)' <=> Abandoned(None)
      /\ Fresh' <=> Fresh
  BY <1>1, GoneSame, FreshSame DEF Live
<1>4. \A j \in Attempts : Stands(j)' <=> Stands(j)
  BY <1>3 DEF Stands
<1>5. ~Fresh
  BY <1>2, Shapes DEF Fresh, Idle
<1>6. Errs'
  BY <1>1, <1>3, <1>4 DEF Waits, Errs, FlagsKept
<1>7. ~Unsettled'
  BY <1>2, <1>3, <1>4, <1>5, Expects DEF Unsettled
<1>8. Awaits'
  BY <1>2, <1>7 DEF Awaits
<1>9. Refusals'
  BY <1>1, TurnSame DEF Waits, Refusals
<1> QED BY <1>6, <1>8, <1>9 DEF Waits

\* Nothing else settles the office's turn before its end.
LEMMA AsideWaits ==
  ASSUME TypeOK, Waits, ~adapter.ended,
         \/ \E i \in Attempts : ItemShown(i) \/ ApprovalRequested(i)
         \/ ApprovalEnds \/ Consume \/ StreamEnds \/ UNCHANGED vars
  PROVE  Waits'
<1>1. CASE \/ \E i \in Attempts : ItemShown(i) \/ ApprovalRequested(i)
           \/ ApprovalEnds \/ UNCHANGED vars
  <2>1. Aside
    BY <1>1, AsideFrame
  <2>2. Unsettled => out' = <<>> /\ office'.call # "none" /\ ~office'.settled
    BY <2>1 DEF Waits, Awaits, Aside
  <2> QED BY <2>1, <2>2, WaitsKept DEF Aside, FlagsKept
<1>2. CASE Consume \/ StreamEnds
  <2>1. UNCHANGED <<adapter, engine, office.sent>> /\ out # <<>>
    BY <1>2, ConsumerFrame DEF OfficeKept
  <2>2. ~Unsettled
    BY <2>1 DEF Waits, Awaits
  <2> QED BY <2>1, <2>2, WaitsKept
<1> QED BY <1>1, <1>2

-----------------------------------------------------------------------------
(* The inductive invariant.                                                *)

\* The types, the books and, as long as no turn strayed, the turns.
Inv == TypeOK /\ Booked /\ Tracked

\* A step keeps the invariant, and ends and retries a message as it should.
Sound == Inv' /\ (office.strayed \/ (EndsFit /\ RunsFit))

\* A session starts with no turn, no message and nothing sent.
LEMMA InitSound ==
  ASSUME Init
  PROVE  Inv
<1>1. TypeOK
  BY DEF Init, TypeOK, Adapter, Engine, Office, Event, Idle, NotGone
<1>2. /\ adapter.turn = Idle /\ adapter.turn.kind = "idle" /\ adapter.turn.attempt = None
      /\ adapter.active = None /\ adapter.gone.on = FALSE /\ adapter.reading = {}
      /\ ~adapter.dog /\ ~adapter.capacity /\ ~adapter.limit
      /\ ~adapter.closed /\ ~adapter.ended /\ ~engine.exited
      /\ ~office.detached /\ office.sent = 0
      /\ \A k \in 1..MaxSends : Ended(k) = 0
      /\ \A i \in Attempts : /\ engine.request[i] = "none" /\ engine.turn[i] = "none"
                             /\ ~engine.named[i]
  BY DEF Init, Idle, NotGone, Ended
<1>3. /\ \A i \in Attempts : ~Follows(i) /\ ~Live(i) /\ ~Stands(i) /\ ~Unanswered(i)
      /\ ~Abandoned(None) /\ \A i \in Attempts : ~Abandoned(i)
  BY <1>2 DEF Follows, Live, Stands, Abandoned, Unanswered
<1>4. Booked
  BY <1>2, <1>3 DEF Booked
<1>5. Turns
  BY <1>2, <1>3 DEF Turns, Asked, OneStands, Standing, Running, Unnamed, Named,
                    GoneCurrent, Owed, Phantoms
<1>6. ~Fresh
  BY <1>2, <1>3 DEF Fresh
<1>7. Waits
  BY <1>2, <1>3, <1>6 DEF Waits, Errs, Awaits, Unsettled, Refusals
<1> QED BY <1>1, <1>4, <1>5, <1>7 DEF Inv, Tracked

\* The parts of a sound step.
LEMMA SoundStep ==
  ASSUME Inv, TypeOK', Booked',
         office.strayed => office'.strayed,
         adapter.ended => adapter'.ended,
         Turns /\ (adapter.ended \/ Waits) => (office'.strayed \/ Turns') /\ EndsFit /\ RunsFit,
         Turns /\ Waits /\ ~adapter.ended => office'.strayed \/ adapter'.ended \/ Waits'
  PROVE  Sound
BY DEF Inv, Sound, Tracked

\* The steps of send(), of its answer and of a retry's.
LEMMA RequestSteps ==
  ASSUME Inv,
         Send \/ Returns \/ RetryTimerFires
           \/ \E i \in Attempts, ok \in BOOLEAN : EngineAnswers(i, ok)
  PROVE  Sound
<1> USE DEF Inv
<1>1. CASE Send
  <2>1. /\ TypeOK' /\ Booked'
        /\ Turns /\ Waits => (office'.strayed \/ Turns') /\ EndsFit /\ RunsFit
    BY <1>1, SendSound
  <2>2. ~adapter.ended /\ (office.strayed => office'.strayed)
    BY <1>1, SendFrame
  <2>3. Turns /\ Waits /\ ~adapter.ended => office'.strayed \/ Waits'
    BY <1>1, SendWaits
  <2> QED BY <2>1, <2>2, <2>3, SoundStep
<1>2. CASE RetryTimerFires
  <2>1. TypeOK' /\ Booked' /\ KeepsTurns
    BY <1>2, RetryTimerSound
  <2>2. adapter'.ended = adapter.ended /\ office'.strayed = office.strayed
    BY <1>2, RetryTimerFrame
  <2>3. Turns /\ Waits /\ ~adapter.ended => Waits'
    BY <1>2, RetryTimerWaits
  <2> QED BY <2>1, <2>2, <2>3, SoundStep DEF KeepsTurns
<1>3. ASSUME NEW i \in Attempts, NEW ok \in BOOLEAN, EngineAnswers(i, ok) PROVE Sound
  <2>1. TypeOK' /\ Booked' /\ (Turns /\ Waits => Turns' /\ EndsFit /\ RunsFit)
    BY <1>3, EngineAnswersSound
  <2>2. /\ adapter'.ended = adapter.ended /\ office'.strayed = office.strayed
        /\ engine.request[i] = "asked"
    BY <1>3, EngineAnswersFrame
  <2>3. Turns /\ Waits /\ ~adapter.ended => Waits'
    BY <1>3, EngineAnswersWaits
  <2>4. ~adapter.ended
    BY <2>2 DEF Booked
  <2> QED BY <2>1, <2>2, <2>3, <2>4, SoundStep
<1>4. ASSUME NEW i \in Attempts, SendReturns(i) \/ RetryReturns(i) PROVE Sound
  <2>1. TypeOK' /\ Booked' /\ KeepsTurns
    BY <1>4, AcceptedSound
  <2>2. adapter'.ended = adapter.ended /\ office'.strayed = office.strayed
    BY <1>4, AcceptedFrame DEF OfficeKept
  <2>3. Turns /\ Waits /\ ~adapter.ended => Waits'
    BY <1>4, AcceptedWaits
  <2> QED BY <2>1, <2>2, <2>3, SoundStep DEF KeepsTurns
<1>5. ASSUME NEW i \in Attempts, SendThrows(i) \/ RetryFails(i) PROVE Sound
  <2>1. TypeOK' /\ Booked' /\ KeepsTurns
    BY <1>5, SendThrowsSound, RetryFailsSound
  <2>2. adapter'.ended = adapter.ended /\ office'.strayed = office.strayed
    BY <1>5, SendThrowsFrame, RetryFailsFrame DEF OfficeKept
  <2>3. Turns /\ Waits /\ ~adapter.ended => Waits'
    BY <1>5, RefusedWaits
  <2> QED BY <2>1, <2>2, <2>3, SoundStep DEF KeepsTurns
<1> QED BY <1>1, <1>2, <1>3, <1>4, <1>5 DEF Returns

\* The notifications of the engine.
LEMMA NotificationSteps ==
  ASSUME Inv, NEW i \in Attempts,
         \/ TurnStarted(i) \/ \E what \in ErrorKinds : Errors(i, what)
         \/ \E failed, held \in BOOLEAN : TurnCompleted(i, failed, held)
  PROVE  Sound
<1> USE DEF Inv
<1>1. CASE TurnStarted(i)
  <2>1. TypeOK' /\ Booked' /\ KeepsTurns
    BY <1>1, TurnStartedSound
  <2>2. adapter'.ended = adapter.ended /\ office'.strayed = office.strayed
    BY <1>1, TurnStartedFrame
  <2>3. Turns /\ Waits /\ ~adapter.ended => Waits'
    BY <1>1, TurnStartedWaits
  <2> QED BY <2>1, <2>2, <2>3, SoundStep DEF KeepsTurns
<1>2. ASSUME NEW what \in ErrorKinds, Errors(i, what) PROVE Sound
  <2>1. TypeOK' /\ Booked' /\ KeepsTurns
    BY <1>2, ErrorsSound
  <2>2. adapter'.ended = adapter.ended /\ office'.strayed = office.strayed
    BY <1>2, ErrorsFrame
  <2>3. Turns /\ Waits /\ ~adapter.ended => Waits'
    BY <1>2, ErrorsWaits
  <2> QED BY <2>1, <2>2, <2>3, SoundStep DEF KeepsTurns
<1>3. ASSUME NEW failed \in BOOLEAN, NEW held \in BOOLEAN, TurnCompleted(i, failed, held)
      PROVE  Sound
  <2>1. TypeOK' /\ Booked' /\ KeepsTurns
    BY <1>3, TurnCompletedSound
  <2>2. adapter'.ended = adapter.ended /\ office'.strayed = office.strayed
    BY <1>3, TurnCompletedFrame
  <2>3. Turns /\ Waits /\ ~adapter.ended => Waits'
    BY <1>3, TurnCompletedWaits
  <2> QED BY <2>1, <2>2, <2>3, SoundStep DEF KeepsTurns
<1> QED BY <1>1, <1>2, <1>3

\* The timers that end a turn or let its end out, and Stop.
LEMMA TimerSteps ==
  ASSUME Inv,
         \/ \E held \in BOOLEAN : WatchdogFires(held)
         \/ \E k \in 1..MaxSends : LimitReadEnds(k)
         \/ StopInBackoff
  PROVE  Sound
<1> USE DEF Inv
<1>1. ASSUME NEW held \in BOOLEAN, WatchdogFires(held) PROVE Sound
  <2>1. TypeOK' /\ Booked' /\ KeepsTurns
    BY <1>1, WatchdogSound
  <2>2. adapter'.ended = adapter.ended /\ (office.strayed => office'.strayed)
    BY <1>1, WatchdogFrame
  <2>3. Turns /\ Waits /\ ~adapter.ended => office'.strayed \/ Waits'
    BY <1>1, WatchdogWaits
  <2> QED BY <2>1, <2>2, <2>3, SoundStep DEF KeepsTurns
<1>2. ASSUME NEW k \in 1..MaxSends, LimitReadEnds(k) PROVE Sound
  <2>1. TypeOK' /\ Booked' /\ KeepsTurns
    BY <1>2, LimitReadSound
  <2>2. adapter'.ended = adapter.ended /\ office'.strayed = office.strayed
    BY <1>2, LimitReadFrame
  <2>3. Turns /\ Waits /\ ~adapter.ended => Waits'
    BY <1>2, LimitReadWaits
  <2> QED BY <2>1, <2>2, <2>3, SoundStep DEF KeepsTurns
<1>3. CASE StopInBackoff
  <2>1. TypeOK' /\ Booked' /\ KeepsTurns
    BY <1>3, StopInBackoffSound
  <2>2. adapter'.ended = adapter.ended /\ office'.strayed = office.strayed
    BY <1>3, StopInBackoffFrame
  <2>3. Turns /\ Waits /\ ~adapter.ended => Waits'
    BY <1>3, StopInBackoffWaits
  <2> QED BY <2>1, <2>2, <2>3, SoundStep DEF KeepsTurns
<1> QED BY <1>1, <1>2, <1>3

\* The exit and close(), which end the stream, and the steps that stand aside
\* of turns.
LEMMA OtherSteps ==
  ASSUME Inv,
         \/ SubprocessExits \/ Close \/ Consume \/ StreamEnds \/ ApprovalEnds
         \/ \E i \in Attempts : ItemShown(i) \/ ApprovalRequested(i)
         \/ UNCHANGED vars
  PROVE  Sound
<1> USE DEF Inv
<1>1. CASE SubprocessExits
  <2>1. TypeOK' /\ Booked' /\ KeepsTurns
    BY <1>1, ExitSound
  <2>2. engine'.exited /\ office'.strayed = office.strayed
    BY <1>1, ExitFrame
  <2>3. adapter'.ended
    BY <2>1, <2>2 DEF Booked
  <2> QED BY <2>1, <2>2, <2>3, SoundStep DEF KeepsTurns
<1>2. CASE Close
  <2>1. TypeOK' /\ Booked' /\ KeepsTurns
    BY <1>2, CloseSound
  <2>2. adapter'.ended /\ office'.strayed = office.strayed
    BY <1>2, CloseFrame DEF OfficeKept
  <2> QED BY <2>1, <2>2, SoundStep DEF KeepsTurns
<1>3. CASE Consume \/ StreamEnds
  <2>1. TypeOK' /\ Booked' /\ KeepsTurns
    BY <1>3, ConsumerSound
  <2>2. adapter'.ended = adapter.ended /\ office'.strayed = office.strayed
    BY <1>3, ConsumerFrame DEF OfficeKept
  <2>3. Turns /\ Waits /\ ~adapter.ended => Waits'
    BY <1>3, AsideWaits
  <2> QED BY <2>1, <2>2, <2>3, SoundStep DEF KeepsTurns
<1>4. CASE \/ \E i \in Attempts : ItemShown(i) \/ ApprovalRequested(i)
           \/ ApprovalEnds \/ UNCHANGED vars
  <2>1. TypeOK' /\ Booked' /\ KeepsTurns
    BY <1>4, AsideSound
  <2>2. adapter'.ended = adapter.ended /\ office'.strayed = office.strayed
    BY <1>4, AsideFrame DEF Aside
  <2>3. Turns /\ Waits /\ ~adapter.ended => Waits'
    BY <1>4, AsideWaits
  <2> QED BY <2>1, <2>2, <2>3, SoundStep DEF KeepsTurns
<1> QED BY <1>1, <1>2, <1>3, <1>4

\* Every step is sound.
LEMMA NextSound ==
  ASSUME Inv, [Next]_vars
  PROVE  Sound
<1>1. CASE Send \/ Returns \/ RetryTimerFires
             \/ \E i \in Attempts, ok \in BOOLEAN : EngineAnswers(i, ok)
  BY <1>1, RequestSteps
<1>2. ASSUME NEW i \in Attempts,
             \/ TurnStarted(i) \/ \E what \in ErrorKinds : Errors(i, what)
             \/ \E failed, held \in BOOLEAN : TurnCompleted(i, failed, held)
      PROVE  Sound
  BY <1>2, NotificationSteps
<1>3. CASE \/ \E held \in BOOLEAN : WatchdogFires(held)
           \/ \E k \in 1..MaxSends : LimitReadEnds(k)
           \/ StopInBackoff
  BY <1>3, TimerSteps
<1>4. CASE \/ SubprocessExits \/ Close \/ Consume \/ StreamEnds \/ ApprovalEnds
           \/ \E i \in Attempts : ItemShown(i) \/ ApprovalRequested(i)
           \/ UNCHANGED vars
  BY <1>4, OtherSteps
<1> QED BY <1>1, <1>2, <1>3, <1>4 DEF Next, Notification, Timer

\* The invariant holds from the start of a session on.
LEMMA Invariance == Spec => []Inv
<1>1. Init => Inv
  BY InitSound
<1>2. Inv /\ [Next]_vars => Inv'
  BY NextSound DEF Sound
<1> QED BY <1>1, <1>2, PTL DEF Spec

-----------------------------------------------------------------------------
(* Theorems.                                                               *)

\* The fields of the session, the engine's turns, the office's side and the
\* stream keep their types, whatever the order of answers, notifications,
\* timers, Stop, the exit and close().
THEOREM TypeCorrect == Spec => []TypeOK
<1>1. Inv => TypeOK
  BY DEF Inv
<1> QED BY <1>1, Invariance, PTL

\* As long as no turn of an earlier message runs unknown to the adapter, every
\* message ends at most once, only the last one does, and a send that throws
\* has no end.
THEOREM EndsCorrect == Spec => EndsOnce
<1>1. Inv => NoPhantomEnd
  BY DEF Inv, Tracked, Turns, Phantoms, Unanswered, NoPhantomEnd
<1>2. Inv /\ [Next]_vars =>
        [\A k \in 1..MaxSends :
           EndsAgain(k) => \/ k = office.sent /\ Ended(k) = 0
                           \/ office.strayed \/ engine.exited]_vars
  BY NextSound DEF Sound, EndsFit
<1> QED BY <1>1, <1>2, Invariance, PTL DEF Spec, EndsOnce

\* A message waits for its retry only when none of its turns runs.
THEOREM RetriesCorrect == Spec => OneRun
<1>1. Inv /\ [Next]_vars =>
        [(adapter'.turn.kind = "backoff" /\ adapter.turn.kind # "backoff") =>
           \/ office.strayed
           \/ \A i \in Attempts : Live(i)' => engine.send[i] # office.sent]_vars
  BY NextSound DEF Sound, RunsFit
<1> QED BY <1>1, Invariance, PTL DEF Spec, OneRun
=============================================================================
