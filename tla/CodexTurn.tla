----------------------------- MODULE CodexTurn -----------------------------
(***************************************************************************)
(* The turns of one Codex session (CodexSession in                         *)
(* backends/codex/adapter.ts): a send's turn/start, the notifications of   *)
(* the engine, the capacity retries, the watchdog after a terminal error,  *)
(* the exit of the subprocess and close(), and the turn_completed events   *)
(* that the session manager's consumer takes from the session's stream.    *)
(*                                                                         *)
(* An attempt is one turn/start, of a send or of a capacity retry; it is   *)
(* also the id of the turn the engine runs for it. The engine is external: *)
(* it answers turn/start, sends a turn's notifications in any order, also  *)
(* before the answer is handled, and stops at any point.                   *)
(***************************************************************************)
EXTENDS Naturals, Sequences, FiniteSets

CONSTANTS
  Attempts,     \* bound: turn/start requests
  MaxSends,     \* bound: messages the office sends
  MaxRetries    \* the length of CODEX_CAPACITY_RETRY_DELAYS_MS

None == 0

ASSUME AttemptsAssumption == Attempts \subseteq Nat \ {None}
ASSUME BoundsAssumption == MaxSends \in Nat /\ MaxRetries \in Nat

VARIABLES
  adapter,   \* the fields of CodexSession
  engine,    \* per attempt: its request and its turn
  office,    \* the session manager's side: the call of send(), its turn
  out,       \* events of the stream the consumer has not taken
  ends       \* turn_completed events so far, per send (history)

vars == <<adapter, engine, office, out, ends>>

-----------------------------------------------------------------------------
(* State.                                                                  *)

\* `turn' is CodexTurn; a starting turn names its attempt. `gone' is
\* abandonedTurn, with id None where the turn was not named. `dog': the
\* watchdog is armed. `capacity' and `shown' are of this attempt.
Adapter ==
  [turn : [kind : {"idle", "starting", "running", "backoff"},
           attempt : Attempts \cup {None}],
   active : Attempts \cup {None},
   gone : [on : BOOLEAN, id : Attempts \cup {None}],
   dog : BOOLEAN, capacity : BOOLEAN, shown : BOOLEAN, limit : BOOLEAN,
   retries : 0..MaxRetries, approval : BOOLEAN,
   reading : SUBSET (1..MaxSends),
   closed : BOOLEAN, ended : BOOLEAN]

\* `request': in flight, answered (its continuation has yet to run), handled.
\* `turn': running, silent after a terminal error, over.
Engine ==
  [exited : BOOLEAN,
   send : [Attempts -> 0..MaxSends],
   retry : [Attempts -> BOOLEAN],
   named : [Attempts -> BOOLEAN],
   request : [Attempts -> {"none", "asked", "ok", "bad", "handled"}],
   turn : [Attempts -> {"none", "live", "erred", "over"}]]

\* `call': send() has not returned; its turn is awaited (pendingTurn); over.
\* `settled': pendingTurn settled while send() had not returned. `strayed': a
\* turn of an earlier send ran on unknown to the adapter (history).
Office ==
  [sent : 0..MaxSends, call : {"none", "sending", "waiting"},
   settled : BOOLEAN, detached : BOOLEAN, strayed : BOOLEAN]

Event == [what : {"end", "error"}, send : 1..MaxSends]

Idle == [kind |-> "idle", attempt |-> None]
NotGone == [on |-> FALSE, id |-> None]

Init ==
  /\ adapter = [turn |-> Idle, active |-> None, gone |-> NotGone,
                dog |-> FALSE, capacity |-> FALSE, shown |-> FALSE,
                limit |-> FALSE, retries |-> 0, approval |-> FALSE, reading |-> {},
                closed |-> FALSE, ended |-> FALSE]
  /\ engine = [exited |-> FALSE, send |-> [i \in Attempts |-> 0],
               retry |-> [i \in Attempts |-> FALSE],
               named |-> [i \in Attempts |-> FALSE],
               request |-> [i \in Attempts |-> "none"],
               turn |-> [i \in Attempts |-> "none"]]
  /\ office = [sent |-> 0, call |-> "none", settled |-> FALSE,
               detached |-> FALSE, strayed |-> FALSE]
  /\ out = <<>> /\ ends = [k \in 1..MaxSends |-> 0]

-----------------------------------------------------------------------------
(* Pieces of the adapter's methods.                                        *)

Answered == \E i \in Attempts : engine.request[i] \in {"ok", "bad"}

\* The promise of an answer is handled and the stream is drained before the
\* next event, but after the engine's lines that came together.
NextEvent ==
  /\ ~Answered
  /\ office.detached \/ (out = <<>> /\ ~adapter.ended)

OwesTurnEnd(a) ==
  \/ a.turn.kind \in {"running", "backoff"}
  \/ a.turn.kind = "starting" /\ engine.retry[a.turn.attempt]

ClearCapacityRetry(a) ==
  [a EXCEPT !.capacity = FALSE, !.shown = FALSE, !.retries = 0]

\* A turn_completed of send k enters the stream.
Emits(k) ==
  /\ out' = Append(out, [what |-> "end", send |-> k])
  /\ ends' = [ends EXCEPT ![k] = @ + 1]

NoEvent == UNCHANGED <<out, ends>>

\* Mutant: a turn the watchdog ends is retried after a capacity error.
MutSettleTurn(a, k, held) ==
  LET b == ClearCapacityRetry([a EXCEPT !.turn = Idle, !.limit = FALSE])
  IN IF a.capacity /\ ~a.shown /\ a.retries < MaxRetries
       THEN /\ adapter' = [a EXCEPT !.retries = @ + 1,
                           !.turn = [kind |-> "backoff", attempt |-> None]]
            /\ NoEvent
     ELSE IF held THEN adapter' = [b EXCEPT !.reading = @ \cup {k}] /\ NoEvent
     ELSE adapter' = b /\ Emits(k)

\* settleTurn: a usage limit may hold the event back for one read of the
\* rate limits (endUsageLimitedTurn).
SettleTurn(a, k, held) ==
  LET b == ClearCapacityRetry([a EXCEPT !.turn = Idle, !.limit = FALSE])
  IN IF held THEN adapter' = [b EXCEPT !.reading = @ \cup {k}] /\ NoEvent
     ELSE adapter' = b /\ Emits(k)

\* The end of a backoff: by Stop, by the subprocess's exit or by close().
FinishBackoff(a) ==
  ClearCapacityRetry([a EXCEPT !.turn = Idle, !.dog = FALSE, !.active = None])

Live(i) == engine.turn[i] \in {"live", "erred"}

\* Turns that run while the adapter follows no turn, or another one, and whose
\* completion it would not drop.
Stray == {i \in Attempts : Live(i) /\ adapter.gone # [on |-> TRUE, id |-> i]}

FreeAttempts == {i \in Attempts : engine.request[i] = "none"}
NextAttempt == CHOOSE i \in FreeAttempts : \A j \in FreeAttempts : i <= j

\* client.request("turn/start"): refused at once by a client that is closed.
Requests(i, k, retry) ==
  engine' = [engine EXCEPT !.send[i] = k, !.retry[i] = retry,
               !.request[i] = IF engine.exited \/ adapter.closed THEN "bad"
                              ELSE "asked"]

-----------------------------------------------------------------------------
(* send(), and the answer to turn/start.                                   *)

\* The office sends when it awaits no turn.
Send ==
  /\ NextEvent /\ office.call = "none" /\ ~office.detached
  /\ office.sent < MaxSends /\ FreeAttempts # {}
  /\ LET i == NextAttempt
         k == office.sent + 1
     IN /\ adapter' = [ClearCapacityRetry(adapter) EXCEPT !.dog = FALSE,
                         !.limit = FALSE,
                         !.turn = [kind |-> "starting", attempt |-> i]]
        /\ Requests(i, k, FALSE)
        /\ office' = [office EXCEPT !.sent = k, !.call = "sending",
                                    !.settled = FALSE,
                                    !.strayed = @ \/ Stray # {}]
  /\ NoEvent

EngineAnswers(i, ok) ==
  /\ NextEvent /\ ~engine.exited /\ engine.request[i] = "asked"
  /\ engine' = [engine EXCEPT !.request[i] = IF ok THEN "ok" ELSE "bad",
                              !.turn[i] = IF ok THEN "live" ELSE @]
  /\ UNCHANGED <<adapter, office, out, ends>>

\* The answer is handled: the turn runs, unless it ended meanwhile.
StartAccepted(i) ==
  LET a == adapter
      own == a.turn = [kind |-> "starting", attempt |-> i]
  IN IF engine.retry[i] /\ a.closed THEN a
     ELSE [a EXCEPT !.turn = IF own THEN [kind |-> "running", attempt |-> None]
                             ELSE @,
                    !.gone = IF @.on /\ @.id = None THEN NotGone ELSE @]

SendReturns(i) ==
  /\ ~engine.retry[i] /\ engine.request[i] = "ok"
  /\ adapter' = StartAccepted(i)
  /\ engine' = [engine EXCEPT !.request[i] = "handled"]
  /\ office' = [office EXCEPT !.call = IF office.settled THEN "none"
                                       ELSE "waiting"]
  /\ NoEvent

SendThrows(i) ==
  /\ ~engine.retry[i] /\ engine.request[i] = "bad"
  /\ adapter' = [adapter EXCEPT !.turn =
                   IF @ = [kind |-> "starting", attempt |-> i] THEN Idle
                   ELSE @]
  /\ engine' = [engine EXCEPT !.request[i] = "handled"]
  /\ office' = [office EXCEPT !.call = "none"]
  /\ NoEvent

RetryReturns(i) ==
  /\ engine.retry[i] /\ engine.request[i] = "ok"
  /\ adapter' = StartAccepted(i)
  /\ engine' = [engine EXCEPT !.request[i] = "handled"]
  /\ UNCHANGED office /\ NoEvent

RetryFails(i) ==
  /\ engine.retry[i] /\ engine.request[i] = "bad"
  /\ engine' = [engine EXCEPT !.request[i] = "handled"]
  /\ IF adapter.closed \/ adapter.turn # [kind |-> "starting", attempt |-> i]
       THEN UNCHANGED adapter /\ NoEvent
     ELSE adapter' = [adapter EXCEPT !.turn = Idle] /\ Emits(engine.send[i])
  /\ UNCHANGED office

-----------------------------------------------------------------------------
(* Notifications. A turn that is not over sends them.                      *)

\* Lines in the pipe are read after the exit, too, once its event is done.
Notifies(i) ==
  /\ Live(i)
  /\ engine.exited => NextEvent

TurnStarted(i) ==
  /\ Notifies(i) /\ ~engine.named[i]
  /\ engine' = [engine EXCEPT !.named[i] = TRUE]
  /\ adapter' = IF adapter.gone = [on |-> TRUE, id |-> None]
                     /\ adapter.turn = Idle
                  THEN [adapter EXCEPT !.gone.id = i]
                ELSE [adapter EXCEPT !.active = i]
  /\ UNCHANGED office /\ NoEvent

\* An item of a running turn, or one that comes after its turn/completed.
ItemShown(i) ==
  /\ engine.turn[i] \in {"live", "erred", "over"}
  /\ engine.exited => NextEvent
  /\ adapter.turn # Idle /\ ~adapter.shown
  /\ adapter' = [adapter EXCEPT !.shown = TRUE]
  /\ UNCHANGED <<engine, office>> /\ NoEvent

ErrorKinds == {"capacity", "limit", "refusal", "shown"}

\* Mutant: an error during turn/start does not arm the watchdog.
MutErrors(i, what) ==
  /\ Notifies(i) /\ engine.turn[i] = "live"
  /\ adapter' = [adapter EXCEPT !.dog = @ \/ adapter.turn.kind = "running",
                                !.capacity = @ \/ what = "capacity",
                                !.limit = @ \/ what = "limit"]
  /\ engine' = [engine EXCEPT !.turn[i] = "erred"]
  /\ UNCHANGED <<office, ends>>
  /\ out' = IF what = "shown"
              THEN Append(out, [what |-> "error", send |-> engine.send[i]])
            ELSE out

\* A terminal error. One about capacity, a refusal or a usage limit waits for
\* the turn's end; any other one goes to the chat as an error event. A turn has
\* one.
Errors(i, what) ==
  /\ Notifies(i) /\ engine.turn[i] = "live"
  /\ adapter' = [adapter EXCEPT !.dog = @ \/ adapter.turn # Idle,
                                !.capacity = @ \/ what = "capacity",
                                !.limit = @ \/ what = "limit"]
  /\ engine' = [engine EXCEPT !.turn[i] = "erred"]
  /\ UNCHANGED <<office, ends>>
  /\ out' = IF what = "shown"
              THEN Append(out, [what |-> "error", send |-> engine.send[i]])
            ELSE out

\* Mutant: the id of the completed turn is not compared.
MutDropped(i) == adapter.gone.on /\ ~OwesTurnEnd(adapter)

\* The completion of a turn the watchdog ended is dropped.
Dropped(i) ==
  /\ adapter.gone.on
  /\ IF adapter.gone.id = None THEN ~OwesTurnEnd(adapter)
     ELSE adapter.gone.id = i

CanRetryCapacity(failed) ==
  /\ failed /\ adapter.capacity /\ ~adapter.shown
  /\ adapter.retries < MaxRetries

\* A turn's error is the one of its error notification, if there was one.
TurnCompleted(i, failed, held) ==
  /\ Notifies(i)
  /\ held => adapter.limit \/ (failed /\ engine.turn[i] = "live")
  /\ engine' = [engine EXCEPT !.turn[i] = "over"]
  /\ LET a == [adapter EXCEPT !.dog = FALSE, !.active = None]
     IN CASE Dropped(i) ->
               adapter' = [adapter EXCEPT !.gone = NotGone] /\ NoEvent
          [] ~Dropped(i) /\ CanRetryCapacity(failed) ->
               /\ adapter' = [a EXCEPT !.retries = @ + 1,
                                !.turn = [kind |-> "backoff", attempt |-> None]]
               /\ NoEvent
          [] OTHER -> SettleTurn(a, engine.send[i], held)
  /\ UNCHANGED office

ApprovalRequested(i) ==
  /\ Notifies(i) /\ ~adapter.approval
  /\ adapter' = [adapter EXCEPT !.approval = TRUE]
  /\ UNCHANGED <<engine, office>> /\ NoEvent

\* The member answers, Stop denies it or the engine withdraws it.
ApprovalEnds ==
  /\ NextEvent /\ adapter.approval
  /\ adapter' = [adapter EXCEPT !.approval = FALSE]
  /\ UNCHANGED <<engine, office>> /\ NoEvent

-----------------------------------------------------------------------------
(* Timers.                                                                 *)

RetryTimerFires ==
  /\ NextEvent /\ adapter.turn.kind = "backoff" /\ ~adapter.closed
  /\ FreeAttempts # {}
  /\ LET i == NextAttempt
     IN /\ adapter' = [adapter EXCEPT !.capacity = FALSE, !.shown = FALSE,
                         !.turn = [kind |-> "starting", attempt |-> i]]
        /\ Requests(i, office.sent, TRUE)
  /\ UNCHANGED office /\ NoEvent

\* The watchdog waits longer than any backoff. It is armed again while
\* turn/start is in flight or an approval is open.
WatchdogFires(held) ==
  /\ NextEvent /\ adapter.dog
  /\ held => adapter.limit
  /\ adapter.turn.kind \notin {"starting", "backoff"} /\ ~adapter.approval
  /\ LET a == [adapter EXCEPT !.dog = FALSE]
     IN IF ~OwesTurnEnd(a) THEN ~held /\ adapter' = a /\ NoEvent
        ELSE SettleTurn([a EXCEPT !.gone = [on |-> TRUE, id |-> a.active],
                                  !.active = None], office.sent, held)
  /\ office' = [office EXCEPT !.strayed =
                  @ \/ (OwesTurnEnd(adapter) /\ adapter.gone.id \in Attempts
                         /\ Live(adapter.gone.id))]
  /\ UNCHANGED engine

\* The read of the rate limits ended, or its bound passed.
LimitReadEnds(k) ==
  /\ NextEvent /\ k \in adapter.reading
  /\ adapter' = [adapter EXCEPT !.reading = @ \ {k}]
  /\ Emits(k)
  /\ UNCHANGED <<engine, office>>

-----------------------------------------------------------------------------
(* Stop, exit and close.                                                   *)

\* abort() during a backoff ends the turn; otherwise it asks the engine to.
StopInBackoff ==
  /\ NextEvent /\ ~office.detached /\ adapter.turn.kind = "backoff"
  /\ adapter' = FinishBackoff(adapter)
  /\ Emits(office.sent)
  /\ UNCHANGED <<engine, office>>

FailedRequests ==
  [i \in Attempts |-> IF engine.request[i] = "asked" THEN "bad"
                      ELSE engine.request[i]]

SubprocessExits ==
  /\ NextEvent /\ ~engine.exited
  /\ engine' = [engine EXCEPT !.exited = TRUE, !.request = FailedRequests]
  /\ IF adapter.closed THEN UNCHANGED adapter /\ NoEvent
     ELSE /\ adapter' = [IF adapter.turn.kind = "backoff"
                           THEN FinishBackoff(adapter)
                         ELSE [adapter EXCEPT !.dog = FALSE, !.turn = Idle]
                         EXCEPT !.ended = TRUE]
          /\ IF OwesTurnEnd(adapter) THEN Emits(office.sent) ELSE NoEvent
  /\ UNCHANGED office

\* The office replaces or ends the session, and takes no more of its events.
Close ==
  /\ NextEvent /\ ~adapter.closed
  /\ LET backoff == adapter.turn.kind = "backoff"
         a == IF backoff THEN FinishBackoff(adapter)
              ELSE [adapter EXCEPT !.dog = FALSE]
     IN /\ adapter' = [a EXCEPT !.closed = TRUE, !.approval = FALSE,
                                !.ended = TRUE]
        /\ IF backoff THEN Emits(office.sent) ELSE NoEvent
  /\ engine' = [engine EXCEPT !.request = FailedRequests]
  /\ office' = [office EXCEPT !.detached = TRUE,
                              !.call = IF @ = "waiting" THEN "none" ELSE @]

-----------------------------------------------------------------------------
(* The session manager's consumer.                                         *)

\* An end or an error settles the turn that is pending.
Consume ==
  /\ ~office.detached /\ out # <<>>
  /\ out' = Tail(out)
  /\ office' = CASE office.call = "waiting" -> [office EXCEPT !.call = "none"]
                 [] office.call = "sending" ->
                      [office EXCEPT !.settled = TRUE]
                 [] OTHER -> office
  /\ UNCHANGED <<adapter, engine, ends>>

\* The stream returned: the turn that is pending fails.
StreamEnds ==
  /\ ~office.detached /\ adapter.ended /\ out = <<>>
  /\ office' = [office EXCEPT !.detached = TRUE,
                              !.call = IF @ = "waiting" THEN "none" ELSE @]
  /\ UNCHANGED <<adapter, engine>> /\ NoEvent

-----------------------------------------------------------------------------
Returns ==
  \E i \in Attempts : SendReturns(i) \/ SendThrows(i) \/ RetryReturns(i)
                       \/ RetryFails(i)

Notification ==
  \E i \in Attempts :
    \/ TurnStarted(i) \/ ItemShown(i) \/ ApprovalRequested(i)
    \/ \E what \in ErrorKinds : Errors(i, what)
    \/ \E failed, held \in BOOLEAN : TurnCompleted(i, failed, held)

Timer ==
  \/ RetryTimerFires
  \/ \E held \in BOOLEAN : WatchdogFires(held)
  \/ \E k \in 1..MaxSends : LimitReadEnds(k)

Next ==
  \/ Send \/ Returns \/ Notification \/ Timer
  \/ \E i \in Attempts, ok \in BOOLEAN : EngineAnswers(i, ok)
  \/ ApprovalEnds \/ StopInBackoff \/ SubprocessExits \/ Close
  \/ Consume \/ StreamEnds

Spec == Init /\ [][Next]_vars

\* Handlers run, the stream is drained and timers fire. The engine answers
\* turn/start, and a turn ends or meets a terminal error; after that it may
\* stay silent.
EngineGoesOn(i) ==
  \/ \E ok \in BOOLEAN : EngineAnswers(i, ok)
  \/ /\ engine.turn[i] = "live"
     /\ \/ \E what \in ErrorKinds : Errors(i, what)
        \/ \E failed, held \in BOOLEAN : TurnCompleted(i, failed, held)

Fairness ==
  /\ WF_vars(Returns) /\ WF_vars(Timer) /\ WF_vars(Consume)
  /\ WF_vars(StreamEnds) /\ \A i \in Attempts : WF_vars(EngineGoesOn(i))

FairSpec == Spec /\ Fairness

-----------------------------------------------------------------------------
(* Properties.                                                             *)

\* The state keeps its type.
TypeOK ==
  /\ adapter \in Adapter /\ engine \in Engine /\ office \in Office
  /\ out \in Seq(Event) /\ ends \in [1..MaxSends -> Nat]

\* Ends of send k, one that waits for the rate limits included.
Ended(k) == ends[k] + (IF k \in adapter.reading THEN 1 ELSE 0)

EndsAgain(k) == Ended(k)' > Ended(k)

\* A send that throws has no turn_completed, whatever ended its turn/start
\* (the exit during the request included).
NoPhantomEnd ==
  \A i \in Attempts :
    (~engine.retry[i] /\ engine.request[i] = "handled"
       /\ engine.turn[i] = "none")
      => Ended(engine.send[i]) = 0 \/ office.strayed

\* "Backends MUST emit exactly one turn_completed per send() for this contract
\* to hold" (createTurnDeferred), as long as no turn of an earlier send runs
\* unknown to the adapter: the completion, watchdog, retry, Stop and exit that
\* race to end a turn end it once, the late completion of a turn the watchdog
\* ended is no other turn's, and a send that throws has no end.
EndsOnce ==
  /\ []NoPhantomEnd
  /\ [][\A k \in 1..MaxSends :
          EndsAgain(k) => \/ k = office.sent /\ Ended(k) = 0
                          \/ office.strayed \/ engine.exited]_vars

\* A message is retried only when no earlier attempt of it still runs: the
\* model never works on one message twice at a time.
OneRun ==
  [][(adapter'.turn.kind = "backoff" /\ adapter.turn.kind # "backoff") =>
       \/ office.strayed
       \/ \A i \in Attempts : Live(i)' => engine.send[i] # office.sent]_vars

\* A turn the office awaits ends, also when the engine goes silent after a
\* terminal error or exits; an open approval waits for the member.
TurnEnds ==
  office.call = "waiting" ~>
    office.call # "waiting" \/ adapter.approval \/ office.strayed
=============================================================================
