----------------------------- MODULE AgentFlush -----------------------------
(***************************************************************************)
(* Delivery of an agent's message queue: the flush that turns waiting      *)
(* messages into one turn, everything that asks for a flush, and           *)
(* everything that holds one back (a running turn, a Stop, a session swap, *)
(* a prompt, a hold, an armed handoff).                                    *)
(*                                                                         *)
(* `m' is the ManagedAgent record.  An operator over it (x -> x') is one   *)
(* synchronous piece of the code, so a handler reads as the code does: a   *)
(* composition of such pieces between two awaits.  A promise that settles  *)
(* moves what is parked on it to a stage that has to run before the next   *)
(* event of the outside world (Microtasks): the event loop drains the      *)
(* microtasks before it takes the next task.                               *)
(***************************************************************************)
EXTENDS Naturals, FiniteSets

CONSTANTS
  Items,      \* the messages that are sent to the agent
  MaxEvents,  \* bound: disturbances (stops, swaps, prompts, failures, ...)
  Hot,        \* BOOLEAN: the backend can interrupt a turn in place (Codex)
  Waits       \* the optional awaits of a flush that can park it

AllWaits == {"sample", "account", "cap"}

ASSUME BoundsAssumption == MaxEvents \in Nat
ASSUME HotAssumption == Hot \in BOOLEAN
ASSUME WaitsAssumption == Waits \subseteq AllWaits

VARIABLES
  m,      \* the agent (below)
  taken,  \* [Items -> Nat]: how often a backend accepted the message
  fresh,  \* messages nobody sent yet
  fuel    \* disturbances left

vars == <<m, taken, fresh, fuel>>

-----------------------------------------------------------------------------
(* The agent.                                                              *)

Owners == {"flush", "member", "brief", "edit"}
States == {"idle", "waiting", "busy", "error"}

\* Where a flush is. "turn", "sample", "abort", "account" and "cap" are the
\* awaits it can be parked on; "run" is its turn. The others are stages that
\* run before the next task.
FlushAt == {"none", "turn", "begin", "sample", "check", "abort", "recheck",
            "account", "ready", "cap", "capped", "run"}
Parked == {"turn", "sample", "abort", "account", "cap", "run", "none"}

NoFlush == [at |-> "none", rerun |-> FALSE, batch |-> {}, cut |-> FALSE]
FlushRun == [at : FlushAt, rerun : BOOLEAN, batch : SUBSET Items,
             cut : BOOLEAN]

\* `gap' is history: "flush", a path that ended a wait without a flush
\* request since the last request; "busy", a state left busy without a turn
\* since the last state change; "overlap", two turns once overlapped.

\* One runAgentTurn call. "wait" is a member's message that waits for a Stop
\* or a swap before the call. `end' is what happened to the turn before the
\* call could see it: "stop", "cut" and "gone" (a Stop, a swap or the end of
\* the stream moved the cancel token, or a swap rejected the turn), "done"
\* and "fail" (the turn settled while send() waited).
NoRun == [at |-> "none", end |-> "open", items |-> {}]
TurnRun == [at : {"none", "wait", "presend", "sending", "sent"},
            end : {"open", "stop", "cut", "gone", "done", "fail"},
            items : SUBSET Items]

Managed ==
  [alive   : BOOLEAN,
   queue   : SUBSET Items,
   state   : States,
   flow    : {"none", "permission", "pick"},
   holds   : SUBSET {"backend", "edit", "resume"},
   slot    : {"live", "none", "swap"},
   phase   : {"none", "auto", "asked", "brief", "reset"},
   flush   : FlushRun,
   run     : [Owners -> TurnRun],
   pending : Owners \cup {"none"},
   clock   : BOOLEAN,
   abort   : {"none", "hot", "replace", "swap"},
   stamped : BOOLEAN,
   swap    : {"none", "settings", "stop", "fork", "back", "resume"},
   edit    : {"none", "read", "fork", "turn", "back", "unset"},
   resume  : {"none", "claimed", "swap"},
   typed   : SUBSET Items,
   gap     : SUBSET {"flush", "busy", "overlap"}]

InitAgent ==
  [alive |-> TRUE, queue |-> {}, state |-> "idle", flow |-> "none",
   holds |-> {}, slot |-> "live", phase |-> "none", flush |-> NoFlush,
   run |-> [o \in Owners |-> NoRun], pending |-> "none", clock |-> FALSE,
   abort |-> "none", stamped |-> FALSE, swap |-> "none", edit |-> "none",
   resume |-> "none", typed |-> {}, gap |-> {}]

-----------------------------------------------------------------------------
(* Requesting a flush.                                                     *)

IsQueueIdle(s) == s \in {"idle", "waiting"}

FlushStillWanted(x) ==
  /\ x.alive
  /\ x.queue # {} \/ x.phase = "asked"
  /\ x.holds = {}
  /\ IsQueueIdle(x.state)
  /\ x.flow = "none"

RequestFlush(x) ==
  LET y == [x EXCEPT !.gap = @ \ {"flush"}]
  IN IF ~x.alive THEN x
     ELSE IF x.flush.at # "none" THEN [y EXCEPT !.flush.rerun = TRUE]
     ELSE IF ~FlushStillWanted(x) THEN y
     ELSE [y EXCEPT !.flush.at = IF x.pending # "none" THEN "turn"
                                 ELSE "begin"]

\* Entering a queue-idle state from another state requests a flush.
UpdateState(x, s) ==
  LET y == [x EXCEPT !.state = s, !.gap = @ \ {"busy"}]
  IN IF ~x.alive THEN x
     ELSE IF s # x.state /\ IsQueueIdle(s) THEN RequestFlush(y)
     ELSE y

\* Turns overlap: a turn starts, or a failure sets the agent's state, while
\* another turn runs.
Overlaps(x, others) ==
  IF \E o \in others : x.run[o].at # "none"
    THEN [x EXCEPT !.gap = @ \cup {"overlap"}] ELSE x

StampError(x) == UpdateState(Overlaps(x, Owners), "error")

\* Mutant: the flush forgets the request that came meanwhile.
MutFlushEnds(x) == [x EXCEPT !.flush = NoFlush, !.run["flush"] = NoRun]

\* The finally of a flush: a request that came meanwhile starts the next one.
FlushEnds(x) ==
  LET y == [x EXCEPT !.flush = NoFlush, !.run["flush"] = NoRun]
  IN IF x.flush.rerun THEN RequestFlush(y) ELSE y

BeginTurn(x) ==
  IF x.state = "busy" THEN x ELSE UpdateState([x EXCEPT !.clock = TRUE], "busy")

ReleaseHold(x, h) == RequestFlush([x EXCEPT !.holds = @ \ {h}])

ReleaseBackendHold(x) ==
  IF "backend" \in x.holds THEN ReleaseHold(x, "backend") ELSE x

\* runAgentTurn up to its first await: the busy claim, then the token.
StartsTurn(x, o, items) ==
  [BeginTurn(Overlaps(x, Owners \ {o})) EXCEPT
     !.run[o] = [at |-> "presend", end |-> "open", items |-> items]]

\* enqueueMessage for an accepted message. In error it claims a resume of
\* the conversation.
Enqueue(x, i) ==
  LET y == ReleaseBackendHold([x EXCEPT !.queue = @ \cup {i}])
  IN IF x.state = "error"
       THEN [y EXCEPT !.resume = IF @ = "none" THEN "claimed" ELSE @]
     ELSE IF IsQueueIdle(x.state) /\ x.flow = "none" THEN RequestFlush(y)
     ELSE y
-----------------------------------------------------------------------------
(* How a turn's caller goes on.                                            *)

FailAutoHandoff(x) == RequestFlush([x EXCEPT !.phase = "none"])

\* The brief turn's caller, when no handoff comes of it.
BriefEnds(x) == IF x.phase = "brief" THEN FailAutoHandoff(x) ELSE x

\* surfaceBackendNotConfigured: the kept queue is held.
HoldForBackend(x) ==
  UpdateState(IF x.queue # {} THEN [x EXCEPT !.holds = @ \cup {"backend"}]
              ELSE x, "waiting")

\* ownedTurnFailure by the error's kind.
OwnedTurnFailure(x, o, kind) ==
  LET y == Overlaps(x, Owners \ {o})
  IN CASE kind = "config"   -> HoldForBackend(y)
       [] kind = "capacity" -> UpdateState(y, "waiting")
       [] kind = "error"    -> UpdateState(y, "error")

\* The turn was resolved.
TurnDone(x, o) ==
  LET y == [x EXCEPT !.run[o] = NoRun]
  IN CASE o = "flush"  -> FlushEnds(x)
       [] o = "member" -> y
       [] o = "brief"  -> IF x.phase = "brief"
                            THEN [y EXCEPT !.phase = "reset"] ELSE y
       [] o = "edit"   -> ReleaseHold([y EXCEPT !.edit = "none"], "edit")

\* The turn was rejected by a session swap. `kept': a send that the swap cut
\* before the backend took it (SwappedBeforeSendError); a direct send then
\* goes to the queue.
TurnSwapped(x, o, kept) ==
  LET y == [x EXCEPT !.run[o] = NoRun]
      z == IF kept /\ x.alive /\ x.run[o].items # {}
             THEN Enqueue(y, CHOOSE i \in x.run[o].items : TRUE) ELSE y
  IN CASE o = "flush"  -> FlushEnds(IF x.alive
                            THEN [x EXCEPT !.flush.rerun = TRUE] ELSE x)
       [] o = "member" -> z
       [] o = "brief"  -> BriefEnds(y)
       [] o = "edit"   -> ReleaseHold([z EXCEPT !.edit = "none"], "edit")

\* The turn, or its send, failed.
TurnFailed(x, o, kind) ==
  LET y == [x EXCEPT !.run[o] = NoRun]
  IN CASE o = "flush"  -> FlushEnds(IF x.alive THEN OwnedTurnFailure(x, o, kind)
                                    ELSE x)
       [] o = "member" -> OwnedTurnFailure(y, o, kind)
       [] o = "brief"  -> BriefEnds(OwnedTurnFailure(y, o, kind))
       [] o = "edit"   -> [y EXCEPT !.edit = IF kind = "config" THEN "unset"
                                             ELSE "back"]

\* The pending turn's promise settles: a flush parked on it goes on.
Settled(x) ==
  [x EXCEPT !.pending = "none",
            !.flush.at = IF @ = "turn" THEN "begin" ELSE @]

\* The caller of the pending turn, if send() has returned to it.
Resolves(x, o) ==
  IF o = "none" THEN x
  ELSE IF x.run[o].at = "sent" THEN TurnDone(x, o)
  ELSE [x EXCEPT !.run[o].end = "done"]

Rejects(x, o, kind) ==
  IF o = "none" THEN x
  ELSE IF x.run[o].at = "sent" THEN TurnFailed(x, o, kind)
  ELSE [x EXCEPT !.run[o].end = "fail"]

\* turnCancelToken++: every call in its pre-send window sees it at its next
\* check, and so does a flush that reads the usage cap.
BumpToken(x, why) ==
  [x EXCEPT !.run = [o \in Owners |->
              IF @[o].at = "presend" /\ @[o].end = "open"
                THEN [@[o] EXCEPT !.end = why] ELSE @[o]],
            !.flush.cut = @ \/ x.flush.at = "cap"]

\* Mutant: the teardown keeps the dead turn's clock.
MutTeardown(x) ==
  LET y == [BumpToken(x, "cut") EXCEPT !.stamped = FALSE]
      o == x.pending
  IN IF o = "none" THEN y
     ELSE Settled(IF y.run[o].at = "sent" THEN y
                  ELSE [y EXCEPT !.run[o].end = "cut"])

\* teardown: the token moves, the pending turn is rejected and the process
\* closed. The rejected caller goes on after the synchronous rest of the
\* handler, so the caller applies Swapped to the result.
Teardown(x) ==
  LET y == [BumpToken(x, "cut") EXCEPT !.clock = FALSE, !.stamped = FALSE]
      o == x.pending
  IN IF o = "none" THEN y
     ELSE Settled(IF y.run[o].at = "sent" THEN y
                  ELSE [y EXCEPT !.run[o].end = "cut"])

Swapped(x, o) ==
  IF o = "none" THEN x
  ELSE IF x.run[o].at = "sent" THEN TurnSwapped(x, o, FALSE) ELSE x
-----------------------------------------------------------------------------
(* Steps of the agent.                                                     *)

\* Something runs before the next task.
Microtasks(x) ==
  \/ x.flush.at \notin Parked
  \/ x.typed # {}
  \/ x.abort = "replace" /\ x.slot # "swap"
  \/ x.run["member"].at = "wait" /\ x.abort = "none" /\ x.slot # "swap"

Quiet == ~Microtasks(m)

Becomes(x) == m' = x /\ UNCHANGED <<taken, fresh>>

\* A disturbance: one of at most MaxEvents.
Disturb == Quiet /\ m.alive /\ fuel > 0 /\ fuel' = fuel - 1

\* Something the office or the backend does on its own.
Task == Quiet /\ UNCHANGED fuel

(* A flush, stage by stage (flushQueue).                                   *)

FlushBegins ==
  /\ m.flush.at = "begin"
  /\ \/ Becomes([m EXCEPT !.flush.at = "check"])
     \/ /\ "sample" \in Waits /\ m.phase = "none"
        /\ Becomes([m EXCEPT !.flush.at = "sample"])
  /\ UNCHANGED fuel

\* The context sample of the turn that ended, or its timer. It may arm the
\* automatic handoff.
SampleArrives ==
  /\ m.flush.at = "sample"
  /\ \/ Task /\ Becomes([m EXCEPT !.flush.at = "check"])
     \/ /\ Disturb /\ m.phase = "none"
        /\ Becomes([m EXCEPT !.flush.at = "check", !.phase = "auto"])

FlushChecks ==
  /\ m.flush.at = "check"
  /\ Becomes(IF ~FlushStillWanted(m) THEN FlushEnds(m)
             ELSE [m EXCEPT !.flush.at = IF m.abort # "none" THEN "abort"
                                          ELSE "recheck"])
  /\ UNCHANGED fuel

\* After the abort wait, and before the account check.
FlushRechecks ==
  /\ m.flush.at = "recheck"
  /\ \/ Becomes(IF ~FlushStillWanted(m) THEN FlushEnds(m)
                ELSE [m EXCEPT !.flush.at = "ready"])
     \/ /\ FlushStillWanted(m) /\ "account" \in Waits
        /\ Becomes([m EXCEPT !.flush.at = "account"])
  /\ UNCHANGED fuel

AccountChecked ==
  /\ Task /\ m.flush.at = "account"
  /\ Becomes(IF ~FlushStillWanted(m) THEN FlushEnds(m)
             ELSE [m EXCEPT !.flush.at = "ready"])

\* The handoff gate: the flush starts the brief turn, once.
StartAutoHandoffBrief(x) ==
  IF x.phase \in {"auto", "asked"}
    THEN StartsTurn([x EXCEPT !.phase = "brief"], "brief", {}) ELSE x

FlushSends(x, batch) ==
  StartsTurn([x EXCEPT !.flush.at = "run", !.flush.batch = batch], "flush",
             batch)

\* With a session: the handoff gate, then the snapshot of the queue, which
\* the usage cap may have to read about first.
FlushProceeds(x) ==
  \/ /\ x.phase # "none"
     /\ Becomes(FlushEnds(StartAutoHandoffBrief(x)))
  \/ /\ x.phase = "none"
     /\ Becomes(IF x.queue = {} THEN FlushEnds(x) ELSE FlushSends(x, x.queue))
  \/ /\ x.phase = "none" /\ x.queue # {} /\ "cap" \in Waits
     /\ Becomes([x EXCEPT !.flush.at = "cap", !.flush.batch = x.queue,
                          !.flush.cut = FALSE])

FlushReady ==
  /\ m.flush.at = "ready"
  /\ \/ m.slot = "live" /\ FlushProceeds(m) /\ UNCHANGED fuel
     \/ m.slot = "swap" /\ Becomes(FlushEnds(m)) /\ UNCHANGED fuel
     \/ m.slot = "none" /\ FlushProceeds([m EXCEPT !.slot = "live"])
        /\ UNCHANGED fuel
     \/ /\ m.slot = "none" /\ fuel > 0 /\ fuel' = fuel - 1
        /\ Becomes(FlushEnds(UpdateState(m, "error")))

\* The usage-cap read returned. Refused messages leave the queue.
CapRead ==
  /\ Task /\ m.flush.at = "cap"
  /\ IF m.flush.cut
       THEN Becomes(FlushEnds([m EXCEPT !.flush.rerun = TRUE]))
     ELSE IF ~FlushStillWanted(m) THEN Becomes(FlushEnds(m))
     ELSE \E refused \in {{}, m.flush.batch} :
            LET x == [m EXCEPT !.queue = @ \ refused]
                batch == (m.flush.batch \ refused) \cap x.queue
            IN Becomes(IF batch = {} THEN FlushEnds(x)
                       ELSE FlushSends(x, batch))

-----------------------------------------------------------------------------
(* A turn's call (runAgentTurn).                                           *)

\* createTurnDeferred: a turn that is still pending is rejected.
Supersede(x) ==
  LET p == x.pending
      y == Settled(x)
  IN IF p = "none" THEN x
     ELSE IF x.run[p].at # "sent" THEN [y EXCEPT !.run[p].end = "fail"]
     ELSE IF p = "flush" THEN FlushEnds(y)
     ELSE TurnFailed(y, p, "error")

\* The end of the pre-send window: the token check, then the deferred and
\* the send.
PresendEnds(o) ==
  /\ Task /\ m.run[o].at = "presend"
  /\ IF m.run[o].end # "open" THEN Becomes(TurnSwapped(m, o, FALSE))
       ELSE LET x == Supersede(m)
            IN Becomes(IF m.slot = "none" THEN TurnFailed(x, o, "error")
                       ELSE [x EXCEPT !.pending = o, !.run[o].at = "sending"])

\* Mutant: the accepted batch stays in the queue.
MutSendAccepted(o) ==
  /\ Task /\ m.run[o].at = "sending"
  /\ LET r == m.run[o]
         x == [m EXCEPT !.run[o].at = "sent", !.run[o].items = {}]
     IN m' = CASE r.end = "open" -> x
               [] r.end = "cut"  -> TurnSwapped(x, o, FALSE)
               [] r.end = "done" -> TurnDone(x, o)
               [] r.end = "fail" -> TurnFailed(x, o, "error")
  /\ taken' = [i \in Items |-> IF i \in m.run[o].items THEN taken[i] + 1
                                ELSE taken[i]]
  /\ UNCHANGED fresh

\* The backend took the message: a flush drains its batch, and the caller
\* waits for the turn, which may have settled meanwhile.
SendAccepted(o) ==
  /\ Task /\ m.run[o].at = "sending"
  /\ LET r == m.run[o]
         x == [m EXCEPT !.run[o].at = "sent", !.run[o].items = {},
                        !.queue = IF o = "flush" THEN @ \ r.items ELSE @]
     IN m' = CASE r.end = "open" -> x
               [] r.end = "cut"  -> TurnSwapped(x, o, FALSE)
               [] r.end = "done" -> TurnDone(x, o)
               [] r.end = "fail" -> TurnFailed(x, o, "error")
  /\ taken' = [i \in Items |-> IF i \in m.run[o].items THEN taken[i] + 1
                                ELSE taken[i]]
  /\ UNCHANGED fresh

\* send() threw because a swap closed its session. A direct send that no
\* Stop cut goes back to the queue.
SendCut(o) ==
  /\ Task /\ m.run[o].at = "sending" /\ m.run[o].end = "cut"
  /\ Becomes(TurnSwapped(m, o, m.abort = "none" /\ ~m.stamped))

\* send() threw on its own.
SendFails(o, kind) ==
  /\ Disturb /\ m.run[o].at = "sending"
  /\ m.run[o].end = "open" \/ (m.run[o].end = "fail" /\ kind = "error")
  /\ Becomes(TurnFailed(IF m.pending = o THEN Settled(m) ELSE m, o, kind))

\* turn_completed, as the stream delivers it.
TurnEnds(kind) ==
  /\ m.pending # "none" /\ m.slot = "live"
  /\ IF kind = "completed" /\ m.flow # "permission" THEN Task ELSE Disturb
  /\ LET o == m.pending
         x == UpdateState(m, IF kind = "failed" THEN "error" ELSE "waiting")
         y == Settled([x EXCEPT !.clock = FALSE])
     IN Becomes(IF kind = "capacity" THEN Rejects(y, o, "capacity")
                ELSE Resolves(y, o))

\* Output of the running turn while the agent shows idle (a prompt is open).
TurnActivity ==
  /\ Task /\ m.pending # "none" /\ m.slot = "live" /\ m.abort = "none"
  /\ m.clock /\ m.flow = "permission" /\ m.state # "busy"
  /\ Becomes(UpdateState(m, "busy"))

\* The stream ended by itself while its session is in the slot.
StreamEnds ==
  /\ Disturb /\ m.slot = "live" /\ m.abort = "none"
  /\ LET o == m.pending
         x == [BumpToken(m, "gone") EXCEPT !.clock = FALSE, !.slot = "none",
                                          !.stamped = FALSE]
     IN Becomes(IF o # "none" THEN Rejects(Settled(x), o, "error")
                ELSE IF x.state = "busy" THEN UpdateState(x, "waiting") ELSE x)

-----------------------------------------------------------------------------
(* Session swaps (replaceSession).                                         *)

\* createSession cancels an open permission prompt; the swap then takes the
\* slot and closes the old session.
SwapStarts(x, kind) ==
  LET y == [x EXCEPT !.flow = IF @ = "permission" THEN "none" ELSE @]
  IN Swapped([Teardown(y) EXCEPT !.slot = "swap", !.swap = kind], x.pending)

SlotFree == m.alive /\ m.slot # "swap"

\* A settings change, an access change or the watchdog's forced recovery.
SettingsSwap ==
  /\ Disturb /\ SlotFree
  /\ Becomes(SwapStarts(m, "settings"))

\* Mutant: a flush that waits for the Stop is not woken.
MutAbortDone(x) == [x EXCEPT !.abort = "none"]

AbortDone(x) ==
  [x EXCEPT !.abort = "none",
            !.flush.at = IF @ = "abort" THEN "recheck" ELSE @]

\* The caller of the swap goes on.
SwapCaller(x, kind) ==
  CASE kind = "settings" -> x
    [] kind = "stop" -> AbortDone(IF x.state = "error"
                                    THEN UpdateState(x, "waiting") ELSE x)
    [] kind = "resume" -> LET y == [x EXCEPT !.resume = "none"]
                          IN IF "resume" \in x.holds
                               THEN ReleaseHold(y, "resume") ELSE y
    [] kind = "fork" -> ReleaseHold(
                          StartsTurn([x EXCEPT !.edit = "turn"], "edit",
                                     x.run["edit"].items), "edit")
    [] kind = "back" -> LET y == [x EXCEPT !.edit = "none"]
                        IN ReleaseHold(IF x.edit = "unset"
                                         THEN HoldForBackend(y)
                                       ELSE UpdateState(y, "error"), "edit")

\* The drain ended: install, the caller's `after' steps, the dead-turn
\* normalisation when this swap installed, the post-swap flush request.
SwapEnds(built) ==
  /\ m.slot = "swap"
  /\ IF built THEN Task ELSE Disturb
  /\ LET a == [m EXCEPT !.slot = IF built THEN "live" ELSE "none",
                        !.swap = "none"]
         b == CASE m.swap = "resume" /\ "resume" \in m.holds ->
                     UpdateState([a EXCEPT !.phase = "none"], "waiting")
                [] m.swap = "resume" /\ "resume" \notin m.holds ->
                     UpdateState(a, "waiting")
                [] m.swap = "fork" -> [a EXCEPT !.phase = "none"]
                [] OTHER -> a
         c == IF /\ built /\ b.pending = "none"
                 /\ b.state = "busy" /\ ~b.clock
                THEN UpdateState(b, "waiting")
              ELSE [b EXCEPT !.gap = IF built THEN @ ELSE @ \cup {"busy"}]
     IN Becomes(SwapCaller(RequestFlush(c), m.swap))

-----------------------------------------------------------------------------
(* Stop (abort).                                                           *)

Stop ==
  /\ Disturb
  /\ LET x == [BumpToken(m, "stop") EXCEPT
                 !.stamped = TRUE,
                 !.phase = IF @ = "asked" THEN "none" ELSE @]
         denied == [x EXCEPT !.flow = "none", !.gap = @ \cup {"flush"}]
         up == UpdateState(x, "waiting")
     IN \/ /\ m.pending = "none" /\ m.flow = "permission"
           /\ Becomes(UpdateState(denied, "waiting"))
        \/ /\ m.pending = "none" /\ m.flow # "permission"
           /\ Becomes(IF m.state = "busy" THEN up ELSE x)
        \/ /\ m.pending # "none" /\ m.abort # "none"
           /\ Becomes(x)
        \/ /\ m.pending # "none" /\ m.abort = "none"
           /\ \E hot \in BOOLEAN :
                /\ hot => Hot
                /\ Becomes([up EXCEPT
                     !.flow = IF @ = "permission" THEN "none" ELSE @,
                     !.gap = IF m.flow = "permission" THEN @ \cup {"flush"}
                             ELSE @,
                     !.abort = IF hot /\ m.slot = "live" THEN "hot"
                               ELSE "replace"])

\* tryHotAbort: the interrupted turn ended, or its subprocess died, or the
\* wait timed out.
HotAbortEnds ==
  /\ Task /\ m.abort = "hot" /\ m.pending = "none"
  /\ Becomes(IF m.state = "error" THEN [m EXCEPT !.abort = "replace"]
             ELSE AbortDone(m))

HotAbortTimesOut ==
  /\ Disturb /\ m.abort = "hot" /\ m.pending # "none"
  /\ Becomes([m EXCEPT !.abort = "replace"])

AbortReplaces ==
  /\ m.abort = "replace" /\ SlotFree
  /\ Becomes(SwapStarts([m EXCEPT !.abort = "swap"], "stop"))
  /\ UNCHANGED fuel

\* The replacement could not be built: nothing was closed.
AbortFails ==
  /\ m.abort = "replace" /\ SlotFree /\ fuel > 0 /\ fuel' = fuel - 1
  /\ Becomes(AbortDone(StampError(m)))

-----------------------------------------------------------------------------
(* Messages.                                                               *)

\* enqueueMessage: an agent, an app, a cron job, a webhook.
AgentSends(i) ==
  /\ Task /\ m.alive /\ i \in fresh
  /\ m' = Enqueue(m, i) /\ fresh' = fresh \ {i}
  /\ UNCHANGED taken

\* A member's message first retries a queue kept after a backend failure;
\* that flush runs as far as it can before the message is routed.
MemberSends(i) ==
  /\ Task /\ m.alive /\ i \in fresh /\ m.flow = "none"
  /\ m.run["member"].at = "none"
  /\ m' = [ReleaseBackendHold(m) EXCEPT !.typed = {i}]
  /\ fresh' = fresh \ {i}
  /\ UNCHANGED taken

SwapSwitches(x) == x.swap \in {"fork", "back", "resume"}

\* Busy agents queue it; otherwise it claims the turn at once.
MemberRoutes ==
  /\ m.typed # {} /\ m.flush.at \in Parked
  /\ LET x == [m EXCEPT !.typed = {}]
         busy == \/ m.state = "busy" \/ m.pending # "none"
                 \/ m.phase # "none" \/ SwapSwitches(m)
     IN Becomes(IF busy THEN Enqueue(x, CHOOSE i \in m.typed : TRUE)
                ELSE [BeginTurn(x) EXCEPT
                       !.run["member"] = [at |-> "wait", end |-> "open",
                                          items |-> m.typed]])
  /\ UNCHANGED fuel

\* No Stop and no swap in the way: wake the session and start the turn.
MemberStarts ==
  /\ m.run["member"].at = "wait" /\ m.abort = "none" /\ m.slot # "swap"
  /\ m.flush.at \in Parked
  /\ LET x == [m EXCEPT !.slot = "live"]
     IN Becomes(IF m.alive THEN StartsTurn(x, "member", m.run["member"].items)
                ELSE [m EXCEPT !.run["member"] = NoRun])
  /\ UNCHANGED fuel

\* The queue watchdog finds an idle agent whose queue has no flush. During a
\* handoff that flush ends at the handoff gate; such sweeps are bounded.
Watchdog ==
  /\ IF m.phase \in {"brief", "reset"} THEN Disturb ELSE Task
  /\ m.queue # {} /\ FlushStillWanted(m)
  /\ m.slot # "swap" /\ m.flush.at = "none"
  /\ Becomes(RequestFlush(m))

-----------------------------------------------------------------------------
(* Prompts and picks.                                                      *)

PromptOpens ==
  /\ Disturb /\ m.pending # "none" /\ m.slot = "live"
  /\ m.run[m.pending].at = "sent" /\ m.abort = "none" /\ m.flow = "none"
  /\ Becomes(UpdateState([m EXCEPT !.flow = "permission"], "waiting"))

\* The member's reply hands the turn back, whether or not it still runs.
\* Without a session the prompt is gone.
PromptAnswered ==
  /\ Task /\ m.alive /\ m.flow = "permission" /\ m.slot # "swap"
  /\ LET x == [m EXCEPT !.flow = "none"]
         y == [UpdateState(x, "busy") EXCEPT
                 !.gap = IF m.pending = "none" THEN @ \cup {"busy"} ELSE @]
     IN Becomes(RequestFlush(IF m.slot = "none" THEN x ELSE y))

\* The backend withdrew the request (approval_withdrawn).
PromptWithdrawn ==
  /\ Task /\ m.flow = "permission" /\ m.slot = "live" /\ m.abort = "none"
  /\ LET x == [m EXCEPT !.flow = "none"]
     IN Becomes(IF m.pending # "none" THEN UpdateState(x, "busy")
                ELSE [x EXCEPT !.gap = @ \cup {"flush"}])

\* The backend did not take the reply.
PromptReplyFails ==
  /\ Disturb /\ m.flow = "permission" /\ m.slot = "live"
  /\ Becomes(RequestFlush(StampError([m EXCEPT !.flow = "none"])))

PickOpens ==
  /\ Disturb /\ m.pending = "none" /\ IsQueueIdle(m.state)
  /\ m.flow = "none" /\ m.abort = "none" /\ SlotFree
  /\ Becomes(UpdateState([m EXCEPT !.flow = "pick"], "waiting"))

\* The pick is applied, perhaps with a swap; the answered prompt requests a
\* flush unless applying it threw.
PickAnswered ==
  /\ Task /\ m.alive /\ m.flow = "pick"
  /\ LET x == [m EXCEPT !.flow = "none"]
     IN \/ Becomes(RequestFlush(x))
        \/ m.slot # "swap" /\ Becomes(SwapStarts(x, "settings"))
        \/ Becomes([x EXCEPT !.gap = @ \cup {"flush"}])

-----------------------------------------------------------------------------
(* Conversation changes.                                                   *)

\* newConversation: the queue is set aside until the old session is closed.
NewConversation(x) ==
  LET a == [x EXCEPT !.flow = IF @ = "pick" THEN "none" ELSE @,
                     !.holds = @ \ {"backend"}, !.queue = {},
                     !.phase = "none"]
      b == [Teardown(UpdateState(a, "idle")) EXCEPT !.slot = "none",
                                                   !.queue = x.queue]
      c == IF x.queue # {} THEN RequestFlush(b) ELSE b
  IN Swapped(c, x.pending)

Clear ==
  /\ Disturb /\ SlotFree
  /\ Becomes(NewConversation(m))

\* A member's /handoff, after the Stop and the swap it waits for. An errored
\* agent resumes its conversation first.
AskHandoff ==
  /\ Disturb /\ m.phase \in {"none", "auto"} /\ m.flow = "none"
  /\ m.abort = "none" /\ SlotFree
  /\ LET x == [m EXCEPT !.phase = "asked"]
     IN Becomes(IF m.state = "busy" \/ m.pending # "none" THEN x
                ELSE IF m.state = "error"
                  THEN [x EXCEPT !.resume = IF @ = "none" THEN "claimed"
                                            ELSE @]
                ELSE RequestFlush(ReleaseBackendHold(x)))

\* The brief is written: it goes to the head of the queue and the
\* conversation is reset. A refused brief ends the handoff.
HandoffResets ==
  /\ Task /\ m.phase = "reset" /\ SlotFree
  /\ \/ \E i \in fresh :
          /\ m' = NewConversation([m EXCEPT !.queue = @ \cup {i}])
          /\ fresh' = fresh \ {i} /\ UNCHANGED taken
     \/ Becomes(FailAutoHandoff(m))

\* resume to another conversation: the hold is on until the swap ended.
MemberResumes ==
  /\ Disturb /\ SlotFree /\ m.resume = "none"
  /\ Becomes([m EXCEPT !.flow = IF @ = "pick" THEN "none" ELSE @,
                       !.holds = (@ \ {"backend"}) \cup {"resume"},
                       !.resume = "claimed"])

ResumeSwaps ==
  /\ Task /\ m.resume = "claimed" /\ SlotFree
  /\ Becomes(SwapStarts([m EXCEPT !.resume = "swap",
                                  !.holds = @ \ {"backend"}], "resume"))

ResumeFails ==
  /\ Disturb /\ m.resume = "claimed" /\ SlotFree
  /\ LET x == StampError([m EXCEPT !.resume = "none"])
     IN Becomes(IF "resume" \in m.holds THEN ReleaseHold(x, "resume") ELSE x)

\* editMessage: the hold is on from here until the edited turn has begun.
Edit(i) ==
  /\ Disturb /\ SlotFree /\ m.state = "waiting" /\ m.edit = "none"
  /\ m.run["edit"].at = "none" /\ i \in fresh
  /\ m' = [m EXCEPT !.holds = (@ \ {"backend"}) \cup {"edit"},
                    !.edit = "read",
                    !.run["edit"] = [NoRun EXCEPT !.items = {i}]]
  /\ fresh' = fresh \ {i} /\ UNCHANGED taken

EditForks ==
  /\ Task /\ m.edit = "read" /\ SlotFree
  /\ Becomes(SwapStarts([m EXCEPT !.edit = "fork"], "fork"))

\* The target is missing, or the history read or the fork failed.
EditFails ==
  /\ Disturb /\ m.edit = "read"
  /\ LET x == [m EXCEPT !.edit = "none", !.run["edit"] = NoRun]
     IN \/ Becomes(ReleaseHold(x, "edit"))
        \/ Becomes(ReleaseHold(StampError(x), "edit"))

EditRollsBack ==
  /\ Task /\ m.edit \in {"back", "unset"} /\ SlotFree
  /\ Becomes(SwapStarts(m, "back"))

\* The idle sweep releases a quiet session.
Demote ==
  /\ Disturb /\ m.slot = "live" /\ m.pending = "none" /\ m.queue = {}
  /\ IsQueueIdle(m.state) /\ m.flow = "none" /\ m.flush.at = "none"
  /\ m.holds = {} /\ m.abort = "none"
  /\ Becomes([Teardown(m) EXCEPT !.slot = "none"])

\* What waited for the agent's Stop, swap or edit ends with it.
Kill ==
  /\ Disturb
  /\ LET x == [Teardown([m EXCEPT !.flow = "none"]) EXCEPT
                 !.alive = FALSE, !.slot = "none", !.swap = "none",
                 !.edit = "none", !.resume = "none"]
     IN Becomes(AbortDone(Swapped(x, m.pending)))

-----------------------------------------------------------------------------
Init ==
  /\ m = InitAgent
  /\ taken = [i \in Items |-> 0]
  /\ fresh = Items
  /\ fuel = MaxEvents

Flushing ==
  \/ FlushBegins \/ SampleArrives \/ FlushChecks \/ FlushRechecks
  \/ AccountChecked \/ FlushReady \/ CapRead

Turning ==
  \/ \E o \in Owners : PresendEnds(o) \/ SendAccepted(o) \/ SendCut(o)
  \/ TurnEnds("completed")

Swapping ==
  \/ \E built \in BOOLEAN : SwapEnds(built)
  \/ HotAbortEnds \/ AbortReplaces \/ ResumeSwaps
  \/ EditForks \/ EditRollsBack \/ HandoffResets

Routing == MemberRoutes \/ MemberStarts

\* What the code's own promises, timers and the backend's answers drive.
Progress == Flushing \/ Turning \/ Swapping \/ Routing

Environment ==
  \/ \E i \in Items : AgentSends(i) \/ MemberSends(i) \/ Edit(i)
  \/ \E o \in Owners, kind \in {"config", "error"} : SendFails(o, kind)
  \/ TurnEnds("failed") \/ TurnEnds("capacity") \/ TurnActivity
  \/ StreamEnds
  \/ SettingsSwap \/ Stop \/ HotAbortTimesOut \/ AbortFails \/ Watchdog
  \/ PromptOpens \/ PromptAnswered \/ PromptWithdrawn \/ PromptReplyFails
  \/ PickOpens \/ PickAnswered
  \/ Clear \/ AskHandoff \/ MemberResumes \/ ResumeFails \/ EditFails
  \/ Demote \/ Kill

Next == Progress \/ Environment

Spec == Init /\ [][Next]_vars

Fairness ==
  /\ WF_vars(Flushing) /\ WF_vars(Routing) /\ WF_vars(AbortReplaces)
  /\ \A o \in Owners : WF_vars(PresendEnds(o))
  /\ \A o \in Owners : WF_vars(SendAccepted(o) \/ SendCut(o))
  /\ WF_vars(TurnEnds("completed")) /\ WF_vars(SwapEnds(TRUE))
  /\ WF_vars(HotAbortEnds) /\ WF_vars(ResumeSwaps) /\ WF_vars(EditForks)
  /\ WF_vars(EditRollsBack) /\ WF_vars(HandoffResets)
  /\ WF_vars(Watchdog)

FairSpec == Spec /\ Fairness

-----------------------------------------------------------------------------
(* Properties.                                                             *)

\* Every part of the agent's record keeps its type across all handlers: in
\* particular the queue's holds are the ones some handler releases.
TypeOK ==
  /\ m \in Managed
  /\ taken \in [Items -> Nat]
  /\ fresh \subseteq Items
  /\ fuel \in 0..MaxEvents

\* No lost wakeup (requestFlush, the rerun flag): between two tasks, an agent
\* whose queue could be flushed has a flush under way, or a swap that requests
\* one at its end, or a handoff that does when it ends. Except after the paths
\* that end a wait without a request (`gap'), which the watchdog repairs.
NoLostWakeup ==
  (Quiet /\ FlushStillWanted(m) /\ m.gap \cap {"flush", "overlap"} = {}) =>
     \/ m.flush.at # "none" \/ m.slot = "swap"
     \/ m.phase \in {"brief", "reset"}

\* The state that is shown fits the turn. A busy agent has a turn: pending,
\* about to be sent, being cut by a swap that will put the state right, or one
\* whose caller is about to be told; busy without a turn would queue every
\* message for ever (replaceSession's dead-turn normalisation, consume's
\* no-owner branch). And a turn in flight is not shown as an idle agent,
\* outside a prompt and a Stop: a message would be sent into the running turn
\* instead of being queued.
StateFitsTurn ==
  (Quiet /\ m.alive) =>
    /\ (m.state = "busy" /\ "busy" \notin m.gap) =>
          \/ m.pending # "none" \/ m.slot = "swap"
          \/ m.edit \in {"back", "unset"}
          \/ \E o \in Owners :
               \/ m.run[o].at \in {"wait", "presend"} /\ m.run[o].end = "open"
               \/ m.run[o].at = "sending" /\ m.run[o].end # "open"
    /\ (m.pending # "none" /\ "overlap" \notin m.gap) =>
          ~IsQueueIdle(m.state) \/ m.flow = "permission" \/ m.abort # "none"

\* No message is accepted by a backend twice, whatever cuts, re-queues and
\* re-flushes it (drain on accept, requeueSwappedSend).
AcceptedOnce == \A i \in Items : taken[i] <= 1

\* A queued message is eventually delivered or refused, or the agent waits
\* for a person: it is in error, its backend is not configured, a prompt or a
\* pick is open, or the session could not be built.
QueueMoves ==
  \A i \in Items :
    (i \in m.queue) ~>
       \/ i \notin m.queue \/ ~m.alive \/ m.state = "error"
       \/ "backend" \in m.holds \/ m.flow # "none" \/ "busy" \in m.gap
=============================================================================
