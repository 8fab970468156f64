--------------------------- MODULE SteerDelivery ---------------------------
(***************************************************************************)
(* Delivery of one agent's queue: by the flush that starts a turn, and by  *)
(* a steer that joins the running turn (server/message-queue.ts). A Claude *)
(* session pulls: its PostToolBatch hook asks for the queue. A Codex       *)
(* session is pushed to: turn/steer, answered by the engine, recorded by   *)
(* the engine some time later, or dropped with its turn.                   *)
(*                                                                         *)
(* An item a steer took stays queued under the session's claim until that  *)
(* session's turn_completed. The claim is what keeps a flush, a second     *)
(* steer and a cancel off the item, so this module is about the races      *)
(* between the claim, the engine's three messages (answer, record, turn    *)
(* end), a Stop and a session that is replaced.                            *)
(*                                                                         *)
(* The engine is modelled from how the adapter uses it. It may name a turn *)
(* before it answers turn/start, and may record a steer after the end of   *)
(* its turn, when the adapter reports it no more: in both cases its model  *)
(* can read a message twice (`early', `late'). A send of a closed session  *)
(* throws here; where it returns instead, see Silent in QueueStore.        *)
(***************************************************************************)
EXTENDS Naturals, FiniteSets

CONSTANTS
  Msgs,         \* messages
  Steers,       \* sent by an agent with "steer": true
  Members,      \* sent by a member: not eligible at a tool boundary
  PushModes,    \* the backends: TRUE is Codex, FALSE is Claude
  MaxSteers,    \* bound: steers pushed
  MaxSessions   \* bound: sessions installed one after the other

ASSUME SendersAssumption ==
  Steers \subseteq Msgs /\ Members \subseteq Msgs /\ Steers \cap Members = {}
ASSUME BoundsAssumption ==
  /\ PushModes \subseteq BOOLEAN
  /\ MaxSteers \in Nat /\ MaxSessions \in Nat \ {0}

VARIABLES
  push,       \* the agent's session has steer() (Codex); otherwise its hook pulls
  queue,      \* ManagedAgent.messageQueue
  marked,     \* queued items with QueuedMessage.steer
  session,    \* the installed session
  claim,      \* ManagedAgent.boundaryClaim
  turn,       \* the orchestrator's turn: presend, sending, running or none
  batch,      \* the flush's snapshot of the queue, until its send is accepted
  aborting,   \* SessionManager.aborting: a Stop in place is under way
  engine,     \* the engine runs a turn
  named,      \* CodexSession.activeTurnId is set
  steerIds,   \* CodexSession.pendingSteerIds
  wire,       \* steers the engine has not recorded, and where each one is
  recorded,   \* steer_delivered events the consumer has not processed
  completed,  \* a turn_completed event the consumer has not processed
  pushes,     \* steers pushed so far
  arrived,    \* messages enqueued so far
  cancelled,  \* messages whose cancel succeeded
  context,    \* messages the installed session's model has read
  read,       \* messages some model has read
  twice,      \* messages the installed session's model has read twice
  early,      \* history: messages pushed into a turn that a flush had sent them
              \* with, as long as the office had no answer to that send
  late,       \* history: messages of steers recorded after the end of their turn
  logged      \* messages the chat shows as delivered

orchestrator == <<queue, marked, session, claim, turn, batch, aborting>>
backend == <<engine, named, steerIds, wire, recorded, completed, pushes>>
readings == <<context, read, twice, early, late>>
vars == <<push, orchestrator, backend, arrived, cancelled, readings, logged>>

NoClaim == [session |-> 0, id |-> 0, items |-> {}, pending |-> {}]

Init ==
  /\ push \in PushModes
  /\ queue = {}
  /\ marked = {}
  /\ session = 1
  /\ claim = NoClaim
  /\ turn = "none"
  /\ batch = {}
  /\ aborting = FALSE
  /\ engine = FALSE
  /\ named = FALSE
  /\ steerIds = {}
  /\ wire = {}
  /\ recorded = {}
  /\ completed = FALSE
  /\ pushes = 0
  /\ arrived = {}
  /\ cancelled = {}
  /\ context = {}
  /\ read = {}
  /\ twice = {}
  /\ early = {}
  /\ late = {}
  /\ logged = {}

\* The model of the installed session reads items.
Reads(items) ==
  /\ context' = context \cup items
  /\ read' = read \cup items
  /\ twice' = twice \cup (context \cap items)

-----------------------------------------------------------------------------
(* The claim.                                                              *)

\* Mutant: a claim outlives its session.
LiveClaimAnySession == claim

\* liveClaimed: the claim of a session that was closed or replaced is stale.
LiveClaim == IF claim.session = session THEN claim ELSE NoClaim

unclaimedQueue == queue \ LiveClaim.items

boundaryTakeable == turn \in {"sending", "running"} /\ ~aborting

\* The whole unclaimed queue, when it holds a steer and every item is eligible.
boundaryBatch(q, marks) ==
  LET items == q \ LiveClaim.items
  IN IF items \cap marks # {} /\ items \cap Members = {} THEN items ELSE {}

\* A batch the engine has taken and the office has not heard of.
Unheard == IF turn = "sending" /\ engine THEN batch ELSE {}

\* pushBoundarySteer on queue q: claims the items as pending under a fresh steer
\* id and calls steer(), which answers false at once when no turn is named.
pushBoundarySteer(q, marks) ==
  LET items == boundaryBatch(q, marks)
      id == pushes + 1
      own == IF LiveClaim = NoClaim
             THEN [NoClaim EXCEPT !.session = session, !.id = id] ELSE LiveClaim
      steer == [id |-> id, items |-> items, claim |-> own.id,
                at |-> IF named THEN "sent" ELSE "refused"]
  IN IF push /\ boundaryTakeable /\ items # {} /\ pushes < MaxSteers
     THEN /\ pushes' = id
          /\ claim' = [own EXCEPT !.items = @ \cup items,
                                  !.pending = @ \cup {[id |-> id, items |-> items]}]
          /\ wire' = wire \cup {steer}
          /\ steerIds' = IF named THEN steerIds \cup {id} ELSE steerIds
          /\ early' = IF named THEN early \cup (items \cap Unheard) ELSE early
     ELSE UNCHANGED <<pushes, claim, wire, steerIds, early>>

-----------------------------------------------------------------------------
(* What the office does.                                                   *)

\* enqueueMessage. At a busy receiver an agent's steer is marked and pushed.
EnqueueMessage(m) ==
  /\ m \notin arrived
  /\ arrived' = arrived \cup {m}
  /\ queue' = queue \cup {m}
  /\ IF m \in Steers /\ turn # "none" /\ ~aborting
     THEN /\ marked' = marked \cup {m}
          /\ pushBoundarySteer(queue', marked')
     ELSE UNCHANGED <<marked, claim, pushes, wire, steerIds, early>>
  /\ UNCHANGED <<push, session, turn, batch, aborting, engine, named, recorded,
                 completed, cancelled, context, read, twice, late, logged>>

\* Mutant: a claimed item can be cancelled.
CancelQueuedClaimed(m) ==
  /\ m \in queue
  /\ queue' = queue \ {m}
  /\ cancelled' = cancelled \cup {m}
  /\ UNCHANGED <<push, marked, session, claim, turn, batch, aborting, backend, arrived,
                 readings, logged>>

\* cancelQueued: an item delivered inside the running turn stays.
CancelQueued(m) ==
  /\ m \in unclaimedQueue
  /\ queue' = queue \ {m}
  /\ cancelled' = cancelled \cup {m}
  /\ UNCHANGED <<push, marked, session, claim, turn, batch, aborting, backend, arrived,
                 readings, logged>>

\* flushQueue takes its snapshot and enters runAgentTurn.
FlushQueue ==
  /\ turn = "none" /\ ~aborting
  /\ unclaimedQueue # {}
  /\ turn' = "presend"
  /\ batch' = unclaimedQueue
  /\ UNCHANGED <<push, queue, marked, session, claim, aborting, backend, arrived,
                 cancelled, readings, logged>>

\* createTurnDeferred, then session.send.
SendTurn ==
  /\ turn = "presend"
  /\ turn' = "sending"
  /\ UNCHANGED <<push, queue, marked, session, claim, batch, aborting, backend, arrived,
                 cancelled, readings, logged>>

\* Mutant: arrivals during the send are logged too.
SendAcceptedLogsQueue ==
  /\ turn = "sending" /\ engine
  /\ turn' = "running"
  /\ logged' = logged \cup queue
  /\ queue' = queue \ batch
  /\ batch' = {}
  /\ UNCHANGED <<push, marked, session, claim, aborting, backend, arrived, cancelled,
                 readings>>

\* onSendAccepted: the batch is logged and leaves the queue.
SendAccepted ==
  /\ turn = "sending" /\ engine
  /\ turn' = "running"
  /\ logged' = logged \cup batch
  /\ queue' = queue \ batch
  /\ batch' = {}
  /\ UNCHANGED <<push, marked, session, claim, aborting, backend, arrived, cancelled,
                 readings>>

\* A main-thread tool_call: a steer the engine could not take is pushed again.
\* The consumer drops the event while a Stop is under way.
ToolCall ==
  /\ turn = "running" /\ engine /\ ~aborting
  /\ pushBoundarySteer(queue, marked)
  /\ UNCHANGED <<push, queue, marked, session, turn, batch, aborting, engine, named,
                 recorded, completed, arrived, cancelled, context, read, twice, late,
                 logged>>

\* The PostToolBatch hook of the installed session takes the queue, and the
\* model reads what it returns.
takeToolBoundaryMessage ==
  LET items == boundaryBatch(queue, marked)
  IN /\ ~push /\ engine
     /\ turn = "running" /\ boundaryTakeable
     /\ items # {}
     /\ claim' = [LiveClaim EXCEPT !.session = session, !.items = @ \cup items]
     /\ Reads(items)
     /\ logged' = logged \cup items
     /\ UNCHANGED <<push, queue, marked, session, turn, batch, aborting, backend,
                    arrived, cancelled, early, late>>

\* A Stop in place (tryHotAbort): the turn goes on until the engine ends it.
HotAbort ==
  /\ push /\ named
  /\ turn = "running" /\ ~aborting
  /\ aborting' = TRUE
  /\ UNCHANGED <<push, queue, marked, session, claim, turn, batch, backend, arrived,
                 cancelled, readings, logged>>

\* The session is replaced: a swap, a slow Stop, a dead process. Its turn is
\* rejected before or after the send, its events are dropped, and every request
\* it has open is answered false. The flush's items stay queued, and the new
\* session has another context.
ReplaceSession ==
  /\ session < MaxSessions
  /\ session' = session + 1
  /\ turn' = "none"
  /\ batch' = {}
  /\ aborting' = FALSE
  /\ engine' = FALSE
  /\ named' = FALSE
  /\ steerIds' = {}
  /\ wire' = {[s EXCEPT !.at = "refused"] :
                s \in {s \in wire : s.at \in {"sent", "refused"}}}
  /\ recorded' = {}
  /\ completed' = FALSE
  /\ context' = {} /\ twice' = {} /\ early' = {} /\ late' = {}
  /\ UNCHANGED <<push, queue, marked, claim, pushes, arrived, cancelled, read, logged>>

-----------------------------------------------------------------------------
(* What the engine does.                                                   *)

\* The engine takes the batch as a new turn.
EngineTakes ==
  /\ turn = "sending" /\ ~engine /\ ~completed
  /\ engine' = TRUE
  /\ Reads(batch)
  /\ UNCHANGED <<push, orchestrator, named, steerIds, wire, recorded, completed, pushes,
                 arrived, cancelled, early, late, logged>>

\* turn/started: steer() has a turn to name from here on. It may come before the
\* answer to turn/start.
EngineNamesTurn ==
  /\ push /\ engine /\ ~named
  /\ named' = TRUE
  /\ UNCHANGED <<push, orchestrator, engine, steerIds, wire, recorded, completed, pushes,
                 arrived, cancelled, readings, logged>>

\* The answer to turn/steer: accepted while the turn it names runs, or refused.
EngineAnswers(s, at) ==
  /\ s.at = "sent"
  /\ wire' = (wire \ {s}) \cup {[s EXCEPT !.at = at]}
  /\ UNCHANGED <<push, orchestrator, engine, named, steerIds, recorded, completed,
                 pushes, arrived, cancelled, readings, logged>>

\* noteSteerRecorded: an event, unless the turn of the steer ended.
noteSteerRecorded(s) ==
  /\ wire' = wire \ {s}
  /\ Reads(s.items)
  /\ recorded' = recorded \cup (steerIds \cap {s.id})
  /\ steerIds' = steerIds \ {s.id}
  /\ UNCHANGED <<push, orchestrator, engine, named, completed, pushes, arrived, cancelled,
                 early, logged>>

\* The engine records an accepted steer, in the turn it named.
EngineRecords(s) ==
  /\ engine /\ s.at = "held"
  /\ noteSteerRecorded(s)
  /\ UNCHANGED late

\* The record comes after turn/completed, in the same session.
EngineRecordsLate(s) ==
  /\ s.at = "late"
  /\ noteSteerRecorded(s)
  /\ late' = late \cup s.items

\* turn/completed: what was not recorded is dropped with the turn, or recorded
\* late. A turn the provider had no capacity for is started again and reports no
\* end.
EngineEndsTurn(retry) ==
  /\ engine /\ turn = "running"
  /\ retry => push
  /\ engine' = retry
  /\ named' = FALSE
  /\ steerIds' = {}
  /\ wire' = {[s EXCEPT !.at = IF @ = "sent" THEN "refused"
                               ELSE IF @ = "held" THEN "late" ELSE @] : s \in wire}
  /\ completed' = ~retry
  /\ UNCHANGED <<push, orchestrator, recorded, pushes, arrived, cancelled, readings,
                 logged>>

-----------------------------------------------------------------------------
(* What the office hears of it.                                            *)

\* A refusal reaches releasePendingSteer: a no-op when its claim was drained or
\* replaced, or when the steer is no longer pending.
releasePendingSteer(s) ==
  /\ s.at = "refused"
  /\ wire' = wire \ {s}
  /\ steerIds' = steerIds \ {s.id}
  /\ claim' = IF claim.id = s.claim /\ \E p \in claim.pending : p.id = s.id
              THEN [claim EXCEPT !.items = @ \ s.items,
                                 !.pending = {p \in @ : p.id # s.id}]
              ELSE claim
  /\ UNCHANGED <<push, queue, marked, session, turn, batch, aborting, engine, named,
                 recorded, completed, pushes, arrived, cancelled, readings, logged>>

\* Mutant: the consumer drops steer_delivered while a Stop is under way.
onSteerDeliveredUnlessAborting(id) ==
  LET delivered == {p \in LiveClaim.pending : p.id = id /\ ~aborting}
  IN /\ recorded' = recorded \ {id}
     /\ claim' = [claim EXCEPT !.pending = @ \ delivered]
     /\ logged' = logged \cup UNION {p.items : p \in delivered}
     /\ UNCHANGED <<push, queue, marked, session, turn, batch, aborting, engine, named,
                    steerIds, wire, completed, pushes, arrived, cancelled,
                    readings>>

\* onSteerDelivered: the items of a recorded steer are no longer pending and are
\* logged. It passes the filter of a Stop (SessionManager.consume).
onSteerDelivered(id) ==
  LET delivered == {p \in LiveClaim.pending : p.id = id}
  IN /\ recorded' = recorded \ {id}
     /\ claim' = [claim EXCEPT !.pending = @ \ delivered]
     /\ logged' = logged \cup UNION {p.items : p \in delivered}
     /\ UNCHANGED <<push, queue, marked, session, turn, batch, aborting, engine, named,
                    steerIds, wire, completed, pushes, arrived, cancelled,
                    readings>>

\* Mutant: the turn's end drains what is still pending too.
drainedWithPending == LiveClaim.items

\* drainBoundaryClaim: what the turn delivered. Pending steers are released.
drained == LiveClaim.items \ UNION {p.items : p \in LiveClaim.pending}

\* turn_completed of the installed session, after its earlier events: drains the
\* claim, settles the turn and with it a Stop that waits for it.
TurnCompleted ==
  /\ completed /\ recorded = {}
  /\ turn = "running"
  /\ completed' = FALSE
  /\ queue' = queue \ drained
  /\ claim' = NoClaim
  /\ turn' = "none"
  /\ aborting' = FALSE
  /\ UNCHANGED <<push, marked, session, batch, engine, named, steerIds, wire, recorded,
                 pushes, arrived, cancelled, readings, logged>>

-----------------------------------------------------------------------------

SessionStep ==
  \/ FlushQueue
  \/ SendTurn
  \/ SendAccepted
  \/ ToolCall
  \/ takeToolBoundaryMessage
  \/ TurnCompleted
  \/ \E s \in wire : releasePendingSteer(s)
  \/ \E id \in recorded : onSteerDelivered(id)

EngineStep ==
  \/ EngineTakes
  \/ EngineNamesTurn
  \/ \E s \in wire, at \in {"held", "refused"} : EngineAnswers(s, at)
  \/ \E s \in wire : EngineRecords(s) \/ EngineRecordsLate(s)
  \/ \E retry \in BOOLEAN : EngineEndsTurn(retry)

MemberStep ==
  \/ \E m \in Msgs : EnqueueMessage(m) \/ CancelQueued(m)
  \/ HotAbort
  \/ ReplaceSession

Next == SessionStep \/ EngineStep \/ MemberStep

\* The event loop runs what is ready, and the engine ends every turn. Nothing is
\* assumed of members, of the hook or of tool calls, or that a steer is recorded.
Fairness ==
  /\ WF_vars(FlushQueue)
  /\ WF_vars(SendTurn)
  /\ WF_vars(EngineTakes)
  /\ WF_vars(SendAccepted)
  /\ WF_vars(EngineEndsTurn(FALSE))
  /\ WF_vars(\E id \in recorded : onSteerDelivered(id))
  /\ WF_vars(TurnCompleted)

Spec == Init /\ [][Next]_vars /\ Fairness

-----------------------------------------------------------------------------
(* Properties.                                                             *)

SteerIds == 1..MaxSteers
Pendings == [id : SteerIds, items : SUBSET Msgs]
Claims == [session : 0..MaxSessions, id : 0..MaxSteers, items : SUBSET Msgs,
           pending : SUBSET Pendings]
WireSteers == [id : SteerIds, items : SUBSET Msgs, claim : SteerIds,
               at : {"sent", "held", "late", "refused"}]

\* Type correctness of the claim, of the turn and of what is on the wire.
TypeOK ==
  /\ push \in PushModes
  /\ queue \subseteq Msgs
  /\ marked \subseteq Msgs
  /\ session \in 1..MaxSessions
  /\ claim \in Claims
  /\ turn \in {"none", "presend", "sending", "running"}
  /\ batch \subseteq Msgs
  /\ aborting \in BOOLEAN
  /\ engine \in BOOLEAN
  /\ named \in BOOLEAN
  /\ steerIds \subseteq SteerIds
  /\ wire \subseteq WireSteers
  /\ recorded \subseteq SteerIds
  /\ completed \in BOOLEAN
  /\ pushes \in 0..MaxSteers
  /\ arrived \subseteq Msgs
  /\ cancelled \subseteq Msgs
  /\ context \subseteq Msgs
  /\ read \subseteq Msgs
  /\ twice \subseteq Msgs
  /\ early \subseteq Msgs
  /\ late \subseteq Msgs
  /\ logged \subseteq Msgs

\* A model reads a message at most once in the life of its session, with two
\* exceptions: a steer recorded after its turn's end, which the office has
\* released and flushes again (steer-delivery-design.md 3.4: "a duplicate to the
\* model"), and a message that is pushed into the turn its own batch started,
\* where the engine names that turn before it answers turn/start.
ReadOnce == twice \subseteq early \cup late

\* An accepted message is never lost: it is queued, some model read it, or its
\* cancel succeeded. The drain takes nothing the engine dropped.
NeverLost == arrived \subseteq queue \cup read \cup cancelled

\* The chat shows nothing as delivered that no model read, and between turns
\* everything a model read is shown, is still queued or was cancelled.
ChatTellsTheTruth ==
  /\ logged \subseteq read
  /\ turn = "none" => read \subseteq logged \cup queue \cup cancelled

\* A message whose cancel succeeded is not read afterwards, except as part of a
\* batch that was on its way when it was cancelled, or of a steer recorded after
\* its turn's end.
CancelIsFinal ==
  [][\A m \in cancelled : m \in read' => m \in read \cup batch \cup late']_vars

\* No claim hides an item for good: every queued message leaves the queue.
QueueEmpties == \A m \in Msgs : m \in queue ~> m \notin queue

=============================================================================
