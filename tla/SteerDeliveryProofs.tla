------------------------ MODULE SteerDeliveryProofs ------------------------
(***************************************************************************)
(* Delivery through steers, for every set of messages and every bound:     *)
(* nothing is lost, the chat tells the truth, a cancel is final, and no    *)
(* model reads a message twice; the last two but for what an engine that   *)
(* records a steer after its turn's end (late), or names a turn before it  *)
(* answers turn/start (early), makes its model read.                       *)
(***************************************************************************)
EXTENDS SteerDelivery, TLAPS

-----------------------------------------------------------------------------
(* The inductive invariant.                                                *)

\* The claim is the installed session's.
Live == claim.session = session

\* Steer ids are used once. A steer on the wire is not recorded yet, and agrees
\* with the claim about its items.
IdsAgree ==
  /\ \A s \in wire : s.id <= pushes
  /\ \A p \in claim.pending : p.id <= pushes
  /\ \A id \in recorded \cup steerIds : id <= pushes
  /\ \A s, t \in wire : s.id = t.id => s = t
  /\ \A s \in wire : s.id \notin recorded
  /\ \A s \in wire, p \in claim.pending : p.id = s.id => p.items = s.items

\* The pending steers of a claim share no item. No claim is of a session that
\* is not installed yet.
ClaimShape ==
  /\ \A p \in claim.pending : p.items \subseteq claim.items
  /\ \A p, q \in claim.pending :
       p # q => p.id # q.id /\ p.items \cap q.items = {}
  /\ push /\ claim # NoClaim => claim.id # 0
  /\ claim.session <= session

\* Where the engine can be while the office's turn is where it is.
Phases ==
  /\ completed => turn = "running" /\ ~engine
  /\ engine => turn \in {"sending", "running"}
  /\ named => engine
  /\ turn \notin {"presend", "sending"} => batch = {}

\* A steer whose turn runs is pending in the live claim, and its record will be
\* reported. The items of one whose turn ended are queued, shown or cancelled.
Active(s) == s.at \in {"sent", "held"}

WireKnown ==
  \A s \in wire :
    /\ Active(s) => /\ named /\ Live
                    /\ s.id \in steerIds
                    /\ [id |-> s.id, items |-> s.items] \in claim.pending
    /\ s.at = "late" => s.items \subseteq queue \cup logged \cup cancelled

\* What the live claim holds: items that are pending, or that were read and
\* shown.
ClaimTruth ==
  Live =>
    /\ claim.items \subseteq queue \cup logged
    /\ claim.items \cap cancelled = {}
    /\ \A m \in claim.items :
         m \in context \cap logged \/ \E p \in claim.pending : m \in p.items
    /\ \A p \in claim.pending : p.id \in recorded => p.items \subseteq context

\* Where an arrived message can be.
Whereabouts ==
  /\ context \subseteq read
  /\ logged \subseteq read
  /\ queue \cup cancelled \cup read \subseteq arrived
  /\ arrived \subseteq queue \cup read \cup cancelled
  /\ read \subseteq logged \cup queue \cup cancelled
  /\ queue \cap cancelled = {}
  /\ batch \subseteq queue \cup cancelled
  /\ turn = "sending" /\ engine => batch \subseteq context

IInv ==
  /\ TypeOK
  /\ IdsAgree
  /\ ClaimShape
  /\ Phases
  /\ WireKnown
  /\ ClaimTruth
  /\ Whereabouts

\* Reading twice: what the session's model has read and is still queued is out of
\* reach of a flush and of a steer, but for what was recorded late or pushed early.
Once ==
  /\ ReadOnce
  /\ queue \cap context \subseteq LiveClaim.items \cup Unheard \cup late
  /\ turn \in {"presend", "sending"} /\ ~engine => batch \cap context \subseteq late
  /\ Live => \A p \in claim.pending :
       p.id \in recorded \/ p.items \cap context \cap queue \subseteq Unheard \cup late
  /\ \A s \in wire : Active(s) => s.items \cap context \subseteq early \cup late

-----------------------------------------------------------------------------
(* The claim and the push.                                                 *)

\* No claim is a claim record, of session 0.
LEMMA NoClaimTyped == NoClaim \in Claims
BY BoundsAssumption DEF Claims, NoClaim, Pendings

\* A claim of another session counts as none.
LEMMA LiveClaimIs ==
  ASSUME TypeOK
  PROVE  /\ Live => LiveClaim = claim
         /\ ~Live => LiveClaim = NoClaim
         /\ LiveClaim = NoClaim <=> ~Live
         /\ LiveClaim \in Claims
         /\ ~Live => LiveClaim.items = {} /\ LiveClaim.pending = {}
<1>1. NoClaim \in Claims /\ NoClaim.session # session
  BY NoClaimTyped, BoundsAssumption DEF TypeOK, NoClaim
<1> QED BY <1>1 DEF Live, LiveClaim, TypeOK, NoClaim

\* A push of items: a fresh id, the items claimed as pending in the live claim,
\* and the steer on the wire.
Pushed(items) ==
  /\ push /\ boundaryTakeable /\ items # {}
  /\ pushes < MaxSteers /\ pushes' = pushes + 1
  /\ claim'.session = session
  /\ claim'.id \in SteerIds
  /\ claim'.items = LiveClaim.items \cup items
  /\ claim'.pending = LiveClaim.pending \cup {[id |-> pushes + 1, items |-> items]}
  /\ claim' \in Claims
  /\ \E s \in WireSteers :
       /\ s.id = pushes + 1 /\ s.items = items
       /\ s.at = IF named THEN "sent" ELSE "refused"
       /\ wire' = wire \cup {s}
  /\ steerIds' = IF named THEN steerIds \cup {pushes + 1} ELSE steerIds
  /\ early' = IF named THEN early \cup (items \cap Unheard) ELSE early

\* pushBoundarySteer either does nothing or pushes what is not claimed yet.
LEMMA PushIs ==
  ASSUME TypeOK, ClaimShape, NEW q \in SUBSET Msgs, NEW marks,
         pushBoundarySteer(q, marks)
  PROVE  \/ UNCHANGED <<pushes, claim, wire, steerIds, early>>
         \/ Pushed(q \ LiveClaim.items)
<1> DEFINE items == boundaryBatch(q, marks)
           own == IF LiveClaim = NoClaim
                  THEN [NoClaim EXCEPT !.session = session, !.id = pushes + 1]
                  ELSE LiveClaim
           steer == [id |-> pushes + 1, items |-> items, claim |-> own.id,
                     at |-> IF named THEN "sent" ELSE "refused"]
<1>1. CASE ~(push /\ boundaryTakeable /\ items # {} /\ pushes < MaxSteers)
  BY <1>1 DEF pushBoundarySteer
<1>2. CASE push /\ boundaryTakeable /\ items # {} /\ pushes < MaxSteers
  <2>1. items = q \ LiveClaim.items /\ items \in SUBSET Msgs
    BY <1>2 DEF boundaryBatch
  <2>2. pushes + 1 \in SteerIds /\ session \in 0..MaxSessions
    BY <1>2, BoundsAssumption DEF TypeOK, SteerIds
  <2>3. own \in Claims /\ own.session = session /\ own.id \in SteerIds
        /\ own.items = LiveClaim.items /\ own.pending = LiveClaim.pending
    <3>1. CASE Live
      <4>1. own = claim /\ claim # NoClaim /\ claim.id # 0
        BY <1>2, <3>1, LiveClaimIs DEF ClaimShape
      <4> QED BY <3>1, <4>1, LiveClaimIs DEF Live, Claims, SteerIds
    <3>2. CASE ~Live
      <4>1. own = [session |-> session, id |-> pushes + 1, items |-> {},
                   pending |-> {}]
        BY <3>2, LiveClaimIs DEF NoClaim
      <4> QED BY <3>2, <4>1, <2>2, LiveClaimIs, BoundsAssumption DEF Claims,
        SteerIds
    <3> QED BY <3>1, <3>2
  <2>4. /\ pushes' = pushes + 1
        /\ claim' = [own EXCEPT
                       !.items = @ \cup items,
                       !.pending = @ \cup {[id |-> pushes + 1, items |-> items]}]
        /\ wire' = wire \cup {steer}
        /\ steerIds' = IF named THEN steerIds \cup {pushes + 1} ELSE steerIds
        /\ early' = IF named THEN early \cup (items \cap Unheard) ELSE early
    BY <1>2 DEF pushBoundarySteer
  <2>5. steer \in WireSteers
    BY <2>1, <2>2, <2>3 DEF WireSteers
  <2>6. [id |-> pushes + 1, items |-> items] \in Pendings
    BY <2>1, <2>2 DEF Pendings
  <2> HIDE DEF own, items
  <2>7. /\ claim' \in Claims /\ claim'.session = session /\ claim'.id \in SteerIds
        /\ claim'.items = LiveClaim.items \cup items
        /\ claim'.pending = LiveClaim.pending
                              \cup {[id |-> pushes + 1, items |-> items]}
    BY <2>1, <2>3, <2>4, <2>6 DEF Claims
  <2> QED BY <1>2, <2>1, <2>4, <2>5, <2>7 DEF Pushed
<1> QED BY <1>1, <1>2

\* A cancel takes an item the live claim does not hold.
LEMMA CancelQueuedKeeps ==
  ASSUME IInv, NEW m \in Msgs, CancelQueued(m)
  PROVE  IInv'
<1> USE DEF IInv
<1>1. ClaimTruth'
  BY LiveClaimIs DEF CancelQueued, unclaimedQueue, backend, readings,
     ClaimTruth, Live
<1>2. Whereabouts'
  BY DEF CancelQueued, unclaimedQueue, backend, readings, Whereabouts
<1>3. TypeOK' /\ IdsAgree' /\ ClaimShape' /\ Phases' /\ WireKnown'
  BY DEF CancelQueued, backend, readings, TypeOK, IdsAgree, ClaimShape, Phases,
     WireKnown, Live
<1> QED BY <1>1, <1>2, <1>3

\* A flush takes a batch of queued items and leaves the queue alone.
LEMMA FlushQueueKeeps ==
  ASSUME IInv, FlushQueue
  PROVE  IInv'
<1> USE DEF IInv
<1>1. Phases'
  BY DEF FlushQueue, backend, Phases
<1>2. Whereabouts'
  BY DEF FlushQueue, unclaimedQueue, readings, Whereabouts
<1>3. TypeOK' /\ IdsAgree' /\ ClaimShape' /\ WireKnown' /\ ClaimTruth'
  BY DEF FlushQueue, unclaimedQueue, backend, readings, TypeOK, IdsAgree,
     ClaimShape, WireKnown, ClaimTruth, Live
<1> QED BY <1>1, <1>2, <1>3

\* The batch goes to the engine; nothing is read yet.
LEMMA SendTurnKeeps ==
  ASSUME IInv, SendTurn
  PROVE  IInv'
<1> USE DEF IInv
<1>1. Phases'
  BY DEF SendTurn, backend, Phases
<1>2. Whereabouts'
  BY DEF SendTurn, backend, readings, Phases, Whereabouts
<1>3. TypeOK' /\ IdsAgree' /\ ClaimShape' /\ WireKnown' /\ ClaimTruth'
  BY DEF SendTurn, backend, readings, TypeOK, IdsAgree, ClaimShape,
     WireKnown, ClaimTruth, Live
<1> QED BY <1>1, <1>2, <1>3

\* The accepted batch was read: it moves from the queue to the chat.
LEMMA SendAcceptedKeeps ==
  ASSUME IInv, SendAccepted
  PROVE  IInv'
<1> USE DEF IInv
<1>1. Phases'
  BY DEF SendAccepted, backend, Phases
<1>2. ClaimTruth'
  BY DEF SendAccepted, backend, readings, ClaimTruth, Live
<1>3. Whereabouts'
  BY DEF SendAccepted, readings, Whereabouts
<1>4. TypeOK' /\ IdsAgree' /\ ClaimShape' /\ WireKnown'
  BY DEF SendAccepted, backend, readings, TypeOK, IdsAgree, ClaimShape,
     WireKnown, Live
<1> QED BY <1>1, <1>2, <1>3, <1>4

\* What the hook takes is read at once.
LEMMA HookTakesKeeps ==
  ASSUME IInv, takeToolBoundaryMessage
  PROVE  IInv'
<1> USE DEF IInv
<1>1. TypeOK'
  <2>1. boundaryBatch(queue, marked) \subseteq Msgs
    BY DEF boundaryBatch, TypeOK
  <2>2. LiveClaim \in Claims /\ session \in 0..MaxSessions
    BY LiveClaimIs, BoundsAssumption DEF TypeOK
  <2>3. claim' \in Claims
    BY <2>1, <2>2 DEF takeToolBoundaryMessage, Claims
  <2> QED BY <2>1, <2>3 DEF takeToolBoundaryMessage, TypeOK, Reads, backend
<1>2. IdsAgree'
  BY LiveClaimIs DEF takeToolBoundaryMessage, backend, IdsAgree
<1>3. ClaimShape'
  BY LiveClaimIs DEF takeToolBoundaryMessage, TypeOK, ClaimShape
<1>4. WireKnown'
  <2>1. /\ claim'.session = session /\ claim'.pending = LiveClaim.pending
        /\ logged \subseteq logged'
        /\ UNCHANGED <<queue, cancelled, named, session, wire, steerIds>>
    BY LiveClaimIs DEF takeToolBoundaryMessage, backend, Claims
  <2>2. \A s \in wire : Active(s) => LiveClaim.pending = claim.pending
    BY LiveClaimIs DEF WireKnown
  <2> QED BY <2>1, <2>2 DEF WireKnown, Active, Live
<1>5. ClaimTruth'
  BY LiveClaimIs DEF takeToolBoundaryMessage, Reads, boundaryBatch, backend,
     ClaimTruth, Whereabouts
<1>6. Whereabouts'
  BY DEF takeToolBoundaryMessage, Reads, boundaryBatch, Whereabouts
<1>7. Phases'
  BY DEF takeToolBoundaryMessage, backend, Phases
<1> QED BY <1>1, <1>2, <1>3, <1>4, <1>5, <1>6, <1>7

\* An interrupt in place changes no message and no claim.
LEMMA HotAbortKeeps ==
  ASSUME IInv, HotAbort
  PROVE  IInv'
<1> USE DEF IInv
<1>1. /\ TypeOK' /\ IdsAgree' /\ ClaimShape' /\ Phases'
      /\ WireKnown' /\ ClaimTruth' /\ Whereabouts'
  BY DEF HotAbort, backend, readings, TypeOK, IdsAgree, ClaimShape, Phases,
     WireKnown, ClaimTruth, Whereabouts, Live
<1> QED BY <1>1

\* A new session has read nothing, and the claim is not its.
LEMMA ReplaceSessionKeeps ==
  ASSUME IInv, ReplaceSession
  PROVE  IInv'
<1> USE DEF IInv
<1>1. TypeOK'
  <2>1. wire' \subseteq WireSteers
    BY DEF ReplaceSession, TypeOK, WireSteers
  <2>2. session' \in 1..MaxSessions
    BY BoundsAssumption DEF ReplaceSession, TypeOK
  <2> QED BY <2>1, <2>2 DEF ReplaceSession, TypeOK
<1>2. IdsAgree'
  BY DEF ReplaceSession, TypeOK, IdsAgree, WireSteers
<1>3. ClaimShape'
  BY DEF ReplaceSession, TypeOK, ClaimShape, Claims
<1>4. Phases'
  BY DEF ReplaceSession, Phases
<1>5. WireKnown'
  BY DEF ReplaceSession, TypeOK, WireKnown, Active, WireSteers
<1>6. ClaimTruth'
  BY DEF ReplaceSession, TypeOK, ClaimShape, ClaimTruth, Live
<1>7. Whereabouts'
  BY DEF ReplaceSession, Whereabouts
<1> QED BY <1>1, <1>2, <1>3, <1>4, <1>5, <1>6, <1>7

\* The engine reads the batch it takes: it is in the context from here on.
LEMMA EngineTakesKeeps ==
  ASSUME IInv, EngineTakes
  PROVE  IInv'
<1> USE DEF IInv
<1>1. Phases'
  BY DEF EngineTakes, orchestrator, Phases
<1>2. ClaimTruth'
  BY DEF EngineTakes, Reads, orchestrator, ClaimTruth, Live
<1>3. Whereabouts'
  BY DEF EngineTakes, Reads, orchestrator, Whereabouts
<1>4. TypeOK' /\ IdsAgree' /\ ClaimShape' /\ WireKnown'
  BY DEF EngineTakes, Reads, orchestrator, TypeOK, IdsAgree, ClaimShape,
     Phases, WireKnown
<1> QED BY <1>1, <1>2, <1>3, <1>4

\* The turn gets its id: from here on a steer can be sent into it.
LEMMA EngineNamesTurnKeeps ==
  ASSUME IInv, EngineNamesTurn
  PROVE  IInv'
<1> USE DEF IInv
<1>1. Phases'
  BY DEF EngineNamesTurn, orchestrator, Phases
<1>2. WireKnown'
  BY DEF EngineNamesTurn, orchestrator, WireKnown, Active, Live
<1>3. TypeOK' /\ IdsAgree' /\ ClaimShape' /\ ClaimTruth' /\ Whereabouts'
  BY DEF EngineNamesTurn, orchestrator, readings, TypeOK, IdsAgree, ClaimShape,
     ClaimTruth, Whereabouts, Live
<1> QED BY <1>1, <1>2, <1>3

\* An answer to a steer changes where it is, not what it carries.
LEMMA EngineAnswersKeeps ==
  ASSUME IInv, NEW s \in wire, NEW at \in {"held", "refused"},
         EngineAnswers(s, at)
  PROVE  IInv'
<1> USE DEF IInv
<1>1. TypeOK'
  BY DEF EngineAnswers, orchestrator, readings, TypeOK, WireSteers
<1>2. IdsAgree'
  BY DEF EngineAnswers, orchestrator, TypeOK, IdsAgree, WireSteers
<1>3. WireKnown'
  BY DEF EngineAnswers, orchestrator, TypeOK, WireKnown, Active, Live, WireSteers
<1>4. ClaimShape' /\ Phases' /\ ClaimTruth' /\ Whereabouts'
  BY DEF EngineAnswers, orchestrator, readings, ClaimShape, Phases, ClaimTruth,
     Whereabouts, Live
<1> QED BY <1>1, <1>2, <1>3, <1>4

\* The items of a recorded steer are read, wherever they are.
LEMMA NoteKeeps ==
  ASSUME IInv, NEW s \in wire, noteSteerRecorded(s), late' \subseteq Msgs,
         s.items \subseteq queue \cup logged \cup cancelled
  PROVE  IInv'
<1> USE DEF IInv
<1>1. TypeOK'
  BY DEF noteSteerRecorded, Reads, orchestrator, TypeOK, WireSteers
<1>2. IdsAgree'
  BY DEF noteSteerRecorded, orchestrator, IdsAgree
<1>3. WireKnown'
  BY DEF noteSteerRecorded, orchestrator, IdsAgree, WireKnown, Live
<1>4. ClaimTruth'
  BY DEF noteSteerRecorded, Reads, orchestrator, IdsAgree, ClaimTruth, Live
<1>5. Whereabouts'
  <2>1. s.items \subseteq arrived
    BY DEF Whereabouts
  <2>2. context' = context \cup s.items /\ read' = read \cup s.items
    BY DEF noteSteerRecorded, Reads
  <2>3. UNCHANGED <<queue, logged, cancelled, arrived, batch, turn, engine>>
    BY DEF noteSteerRecorded, orchestrator
  <2> QED BY <2>1, <2>2, <2>3 DEF Whereabouts
<1>6. ClaimShape' /\ Phases'
  BY DEF noteSteerRecorded, orchestrator, ClaimShape, Phases
<1> QED BY <1>1, <1>2, <1>3, <1>4, <1>5, <1>6

\* A steer recorded in its turn is pending in the live claim.
LEMMA EngineRecordsKeeps ==
  ASSUME IInv, NEW s \in wire, EngineRecords(s)
  PROVE  IInv'
<1>1. s.items \subseteq queue \cup logged \cup cancelled
  BY DEF IInv, EngineRecords, Active, WireKnown, ClaimShape, ClaimTruth
<1> QED BY <1>1, NoteKeeps DEF EngineRecords, IInv, TypeOK

LEMMA EngineRecordsLateKeeps ==
  ASSUME IInv, NEW s \in wire, EngineRecordsLate(s)
  PROVE  IInv'
<1>1. /\ s.items \subseteq queue \cup logged \cup cancelled
      /\ late' \subseteq Msgs
  BY DEF IInv, EngineRecordsLate, WireKnown, TypeOK, WireSteers
<1> QED BY <1>1, NoteKeeps DEF EngineRecordsLate

\* The engine's turn ends with the steers it held.
LEMMA EngineEndsTurnKeeps ==
  ASSUME IInv, NEW retry \in BOOLEAN, EngineEndsTurn(retry)
  PROVE  IInv'
<1> USE DEF IInv
<1>1. TypeOK'
  <2>1. wire' \subseteq WireSteers
    BY DEF EngineEndsTurn, TypeOK, WireSteers
  <2> QED BY <2>1 DEF EngineEndsTurn, TypeOK, orchestrator, readings
<1>2. IdsAgree'
  BY DEF EngineEndsTurn, orchestrator, TypeOK, IdsAgree, WireSteers
<1>3. Phases'
  BY DEF EngineEndsTurn, orchestrator, Phases
<1>4. WireKnown'
  <2>1. \A s \in wire : s.at \in {"held", "late"} =>
          s.items \subseteq queue \cup logged \cup cancelled
    BY DEF WireKnown, Active, ClaimShape, ClaimTruth
  <2>2. \A s \in wire' : s.at \in {"refused", "late"} /\ \E t \in wire :
          s.items = t.items /\ (s.at = "late" => t.at \in {"held", "late"})
    BY DEF EngineEndsTurn, TypeOK, WireSteers
  <2> QED BY <2>1, <2>2 DEF EngineEndsTurn, orchestrator, WireKnown, Active
<1>5. ClaimTruth'
  BY DEF EngineEndsTurn, orchestrator, readings, ClaimTruth, Live
<1>6. ClaimShape' /\ Whereabouts'
  BY DEF EngineEndsTurn, orchestrator, readings, ClaimShape, Whereabouts
<1> QED BY <1>1, <1>2, <1>3, <1>4, <1>5, <1>6

\* A refusal releases the items of its own steer only.
LEMMA ReleaseKeeps ==
  ASSUME IInv, NEW s \in wire, releasePendingSteer(s)
  PROVE  IInv'
<1> USE DEF IInv
<1>1. TypeOK'
  BY DEF releasePendingSteer, readings, TypeOK, Claims
<1>2. IdsAgree'
  BY DEF releasePendingSteer, IdsAgree
<1>3. ClaimShape'
  <2>1. CASE claim' = claim
    BY <2>1 DEF releasePendingSteer, ClaimShape, NoClaim
  <2>2. CASE claim' # claim
    <3>1. /\ \E p \in claim.pending : p.id = s.id /\ p.items = s.items
          /\ claim' = [claim EXCEPT !.items = @ \ s.items,
                                    !.pending = {p \in @ : p.id # s.id}]
      BY <2>2 DEF releasePendingSteer, IdsAgree
    <3>2. /\ claim'.items = claim.items \ s.items
          /\ claim'.pending = {p \in claim.pending : p.id # s.id}
          /\ claim'.id = claim.id /\ claim'.session = claim.session
      BY <3>1 DEF TypeOK, Claims
    <3>3. claim # NoClaim
      BY <3>1 DEF NoClaim
    <3> QED BY <3>1, <3>2, <3>3 DEF ClaimShape, releasePendingSteer
  <2> QED BY <2>1, <2>2
<1>4. WireKnown'
  <2>1. claim'.session = claim.session
    BY DEF releasePendingSteer, TypeOK, Claims
  <2>2. \A p \in claim.pending : p.id # s.id => p \in claim'.pending
    BY DEF releasePendingSteer, TypeOK, Claims
  <2>3. UNCHANGED <<queue, logged, cancelled, named, session>>
    BY DEF releasePendingSteer
  <2>4. /\ steerIds' = steerIds \ {s.id}
        /\ \A t \in wire' : t \in wire /\ t.id # s.id
    BY DEF releasePendingSteer, IdsAgree
  <2> QED BY <2>1, <2>2, <2>3, <2>4 DEF WireKnown, Active, Live
<1>5. ClaimTruth'
  BY DEF releasePendingSteer, readings, IdsAgree, ClaimTruth, Live
<1>6. Phases' /\ Whereabouts'
  BY DEF releasePendingSteer, readings, Phases, Whereabouts
<1> QED BY <1>1, <1>2, <1>3, <1>4, <1>5, <1>6

\* A recorded steer was read: it is shown and no longer pending.
LEMMA DeliveredKeeps ==
  ASSUME IInv, NEW id \in recorded, onSteerDelivered(id)
  PROVE  IInv'
<1> USE DEF IInv
<1>1. TypeOK'
  BY LiveClaimIs DEF onSteerDelivered, readings, TypeOK, ClaimShape, Claims
<1>2. IdsAgree'
  BY DEF onSteerDelivered, IdsAgree
<1>3. ClaimShape'
  <2>1. /\ claim'.items = claim.items /\ claim'.pending \subseteq claim.pending
        /\ claim'.id = claim.id /\ claim'.session = claim.session
    BY DEF onSteerDelivered, TypeOK, Claims
  <2>2. claim = NoClaim => claim' = NoClaim
    BY DEF onSteerDelivered, NoClaim
  <2> QED BY <2>1, <2>2 DEF ClaimShape, onSteerDelivered
<1>4. WireKnown'
  <2>1. claim'.session = claim.session
    BY DEF onSteerDelivered, TypeOK, Claims
  <2>2. \A p \in claim.pending : p.id # id => p \in claim'.pending
    BY DEF onSteerDelivered, TypeOK, Claims
  <2>3. /\ logged \subseteq logged'
        /\ UNCHANGED <<queue, cancelled, named, session, wire, steerIds>>
    BY DEF onSteerDelivered
  <2>4. \A s \in wire : s.id # id
    BY DEF IdsAgree
  <2> QED BY <2>1, <2>2, <2>3, <2>4 DEF WireKnown, Active, Live
<1>5. ClaimTruth'
  BY DEF onSteerDelivered, readings, ClaimTruth, Live
<1>6. Whereabouts'
  BY LiveClaimIs DEF onSteerDelivered, readings, ClaimTruth, Whereabouts
<1>7. Phases'
  BY DEF onSteerDelivered, Phases
<1> QED BY <1>1, <1>2, <1>3, <1>4, <1>5, <1>6, <1>7

\* The drain takes what was read and shown.
LEMMA TurnCompletedKeeps ==
  ASSUME IInv, TurnCompleted
  PROVE  IInv'
<1> USE DEF IInv
<1>1. TypeOK'
  <2>1. claim' \in Claims
    BY NoClaimTyped DEF TurnCompleted
  <2> QED BY <2>1 DEF TurnCompleted, TypeOK, readings
<1>2. IdsAgree'
  BY DEF TurnCompleted, IdsAgree, NoClaim
<1>3. ClaimShape'
  BY DEF TurnCompleted, TypeOK, ClaimShape, NoClaim
<1>4. Phases'
  BY DEF TurnCompleted, Phases
<1>5. WireKnown'
  <2>1. ~named /\ UNCHANGED <<wire, logged, cancelled>>
    BY DEF TurnCompleted, Phases
  <2>2. queue \subseteq queue' \cup logged
    BY LiveClaimIs DEF TurnCompleted, drained, ClaimTruth
  <2> QED BY <2>1, <2>2 DEF WireKnown, Active
<1>6. ClaimTruth'
  BY DEF TurnCompleted, ClaimTruth, NoClaim
<1>7. Whereabouts'
  BY LiveClaimIs DEF TurnCompleted, drained, readings, Phases, ClaimTruth,
     Whereabouts
<1> QED BY <1>1, <1>2, <1>3, <1>4, <1>5, <1>6, <1>7

\* What a push does to the claim: it takes items the live claim does not hold,
\* under an id nobody has.
LEMMA PushKeeps ==
  ASSUME IInv, Pushed(queue' \ LiveClaim.items),
         queue \subseteq queue', queue' \cap cancelled = {},
         UNCHANGED <<push, session, engine, named, recorded, cancelled, context,
                     logged>>
  PROVE  IdsAgree' /\ ClaimShape' /\ WireKnown' /\ ClaimTruth'
<1> DEFINE items == queue' \ LiveClaim.items
           p0 == [id |-> pushes + 1, items |-> items]
<1> USE DEF IInv
<1>0. PICK s0 \in WireSteers :
        /\ s0.id = pushes + 1 /\ s0.items = items
        /\ s0.at = IF named THEN "sent" ELSE "refused"
        /\ wire' = wire \cup {s0}
  BY DEF Pushed
<1>a. /\ pushes' = pushes + 1 /\ pushes \in Nat
      /\ claim'.session = session /\ claim'.id \in SteerIds
      /\ claim'.items = LiveClaim.items \cup items
      /\ claim'.pending = LiveClaim.pending \cup {p0}
      /\ steerIds' = IF named THEN steerIds \cup {pushes + 1} ELSE steerIds
  BY DEF Pushed, TypeOK
<1>b. /\ p0.id = pushes + 1 /\ p0.items = items
      /\ LiveClaim.pending \subseteq claim.pending
      /\ LiveClaim.items \cap items = {}
  BY LiveClaimIs
<1>c. \A p \in claim.pending : p.id <= pushes /\ p.id \in Nat
  BY DEF IdsAgree, TypeOK, Claims, Pendings, SteerIds
<1>d. \A s \in wire : s.id <= pushes /\ s.id \in Nat
  BY DEF IdsAgree, TypeOK, WireSteers, SteerIds
<1>e. \A id \in recorded \cup steerIds : id <= pushes /\ id \in Nat
  BY DEF IdsAgree, TypeOK, SteerIds
<1> HIDE DEF items, p0
<1>1. IdsAgree'
  BY <1>0, <1>a, <1>b, <1>c, <1>d, <1>e DEF IdsAgree
<1>2. ClaimShape'
  <2>1. \A p \in LiveClaim.pending : p.items \subseteq LiveClaim.items
    BY LiveClaimIs DEF ClaimShape
  <2>2. claim'.id # 0
    BY <1>a DEF SteerIds
  <2>3. session \in Nat
    BY DEF TypeOK
  <2> QED BY <1>a, <1>b, <1>c, <2>1, <2>2, <2>3 DEF ClaimShape
<1>3. WireKnown'
  <2>1. ASSUME NEW s \in wire, Active(s)
        PROVE  /\ named /\ s.id \in steerIds
               /\ [id |-> s.id, items |-> s.items] \in LiveClaim.pending
    BY <2>1, LiveClaimIs DEF WireKnown
  <2>2. \A s \in wire : s.at = "late" => s.items \subseteq queue' \cup logged \cup cancelled
    BY DEF WireKnown
  <2>3. Active(s0) => named
    BY <1>0 DEF Active
  <2>4. s0.at # "late"
    BY <1>0
  <2> QED BY <1>0, <1>a, <2>1, <2>2, <2>3, <2>4 DEF WireKnown, Live, Active, p0
<1>4. ClaimTruth'
  <2>1. /\ LiveClaim.items \subseteq queue \cup logged
        /\ LiveClaim.items \cap cancelled = {}
        /\ \A m \in LiveClaim.items :
             m \in context \cap logged \/ \E p \in LiveClaim.pending : m \in p.items
        /\ \A p \in LiveClaim.pending : p.id \in recorded => p.items \subseteq context
    BY LiveClaimIs DEF ClaimTruth
  <2>2. p0.id \notin recorded /\ items \subseteq queue'
    BY <1>a, <1>b, <1>e DEF items
  <2> QED BY <1>a, <1>b, <2>1, <2>2 DEF ClaimTruth, Live
<1> QED BY <1>1, <1>2, <1>3, <1>4

\* The claim, the wire and the ids stay as they are.
LEMMA NoPushKeeps ==
  ASSUME IInv, UNCHANGED <<pushes, claim, wire, steerIds, early>>,
         queue \subseteq queue',
         UNCHANGED <<push, session, engine, named, recorded, cancelled, context,
                     logged>>
  PROVE  IdsAgree' /\ ClaimShape' /\ WireKnown' /\ ClaimTruth'
BY DEF IInv, IdsAgree, ClaimShape, WireKnown, ClaimTruth, Live

\* What was pushed has its type.
LEMMA PushTyped ==
  ASSUME TypeOK, NEW items,
         UNCHANGED <<pushes, claim, wire, steerIds, early>> \/ Pushed(items)
  PROVE  /\ claim' \in Claims /\ wire' \subseteq WireSteers
         /\ steerIds' \subseteq SteerIds /\ pushes' \in 0..MaxSteers
         /\ early' \subseteq Msgs
<1>1. CASE UNCHANGED <<pushes, claim, wire, steerIds, early>>
  BY <1>1 DEF TypeOK
<1>2. CASE Pushed(items)
  <2>1. pushes' \in 0..MaxSteers /\ pushes + 1 \in SteerIds
    BY <1>2, BoundsAssumption DEF Pushed, TypeOK, SteerIds
  <2>2. early' \subseteq Msgs
    BY <1>2 DEF Pushed, TypeOK, Unheard
  <2> QED BY <1>2, <2>1, <2>2 DEF Pushed, TypeOK
<1> QED BY <1>1, <1>2

\* A message arrives: it was never read nor cancelled.
LEMMA EnqueueMessageKeeps ==
  ASSUME IInv, NEW m \in Msgs, EnqueueMessage(m)
  PROVE  IInv'
<1> USE DEF IInv
<1>0. /\ m \notin arrived /\ arrived' = arrived \cup {m}
      /\ queue' = queue \cup {m} /\ queue' \in SUBSET Msgs
      /\ queue' \cap cancelled = {}
      /\ marked' \subseteq Msgs
  BY DEF EnqueueMessage, TypeOK, Whereabouts
<1>u. UNCHANGED <<push, session, turn, batch, aborting, engine, named, recorded,
                  completed, cancelled, context, read, twice, late, logged>>
  BY DEF EnqueueMessage
<1>p. \/ UNCHANGED <<pushes, claim, wire, steerIds, early>>
      \/ Pushed(queue' \ LiveClaim.items)
  BY <1>0, PushIs DEF EnqueueMessage
<1>1. TypeOK'
  <2>1. /\ claim' \in Claims /\ wire' \subseteq WireSteers
        /\ steerIds' \subseteq SteerIds /\ pushes' \in 0..MaxSteers
        /\ early' \subseteq Msgs
    BY <1>p, PushTyped
  <2> QED BY <1>0, <1>u, <2>1 DEF TypeOK, readings
<1>2. IdsAgree' /\ ClaimShape' /\ WireKnown' /\ ClaimTruth'
  BY <1>0, <1>u, <1>p, PushKeeps, NoPushKeeps DEF readings
<1>3. Phases' /\ Whereabouts'
  BY <1>0, <1>u DEF Phases, Whereabouts, readings
<1> QED BY <1>1, <1>2, <1>3

\* A tool call pushes what waits.
LEMMA ToolCallKeeps ==
  ASSUME IInv, ToolCall
  PROVE  IInv'
<1> USE DEF IInv
<1>u. UNCHANGED <<push, queue, marked, session, turn, batch, aborting, engine,
                  named, recorded, completed, arrived, cancelled, context, read,
                  twice, late, logged>>
  BY DEF ToolCall
<1>p. \/ UNCHANGED <<pushes, claim, wire, steerIds, early>>
      \/ Pushed(queue' \ LiveClaim.items)
  BY <1>u, PushIs DEF ToolCall, TypeOK
<1>1. TypeOK'
  <2>1. /\ claim' \in Claims /\ wire' \subseteq WireSteers
        /\ steerIds' \subseteq SteerIds /\ pushes' \in 0..MaxSteers
        /\ early' \subseteq Msgs
    BY <1>p, PushTyped
  <2> QED BY <1>u, <2>1 DEF TypeOK, readings
<1>2. IdsAgree' /\ ClaimShape' /\ WireKnown' /\ ClaimTruth'
  <2>1. queue' \cap cancelled = {} /\ queue' = queue
    BY <1>u DEF Whereabouts
  <2> QED BY <1>u, <1>p, <2>1, PushKeeps, NoPushKeeps DEF readings
<1>3. Phases' /\ Whereabouts'
  BY <1>u DEF Phases, Whereabouts, readings
<1> QED BY <1>1, <1>2, <1>3

-----------------------------------------------------------------------------
(* Safety.                                                                 *)

\* Nothing has arrived and nothing is claimed.
LEMMA InitInv == Init => IInv
<1> SUFFICES ASSUME Init PROVE IInv
  OBVIOUS
<1>1. TypeOK
  <2>1. session \in 1..MaxSessions /\ pushes \in 0..MaxSteers
    BY BoundsAssumption DEF Init
  <2> QED BY <2>1, NoClaimTyped DEF Init, TypeOK
<1>2. claim.session = 0 /\ claim.pending = {} /\ ~Live
  BY DEF Init, NoClaim, Live
<1>3. IdsAgree /\ ClaimShape /\ Phases /\ WireKnown /\ ClaimTruth
  BY <1>2 DEF Init, IdsAgree, ClaimShape, Phases, WireKnown, ClaimTruth
<1>4. Whereabouts
  BY DEF Init, Whereabouts
<1> QED BY <1>1, <1>3, <1>4 DEF IInv

\* Every step keeps the invariant, with whatever engine.
LEMMA NextInv == IInv /\ [Next]_vars => IInv'
<1> SUFFICES ASSUME IInv, [Next]_vars PROVE IInv'
  OBVIOUS
<1>1. CASE SessionStep
  BY <1>1, FlushQueueKeeps, SendTurnKeeps, SendAcceptedKeeps, ToolCallKeeps,
     HookTakesKeeps, TurnCompletedKeeps, ReleaseKeeps, DeliveredKeeps
     DEF SessionStep
<1>2. CASE EngineStep
  BY <1>2, EngineTakesKeeps, EngineNamesTurnKeeps, EngineAnswersKeeps,
     EngineRecordsKeeps, EngineRecordsLateKeeps, EngineEndsTurnKeeps DEF EngineStep
<1>3. CASE MemberStep
  BY <1>3, EnqueueMessageKeeps, CancelQueuedKeeps, HotAbortKeeps,
     ReplaceSessionKeeps DEF MemberStep
<1>4. CASE UNCHANGED vars
  BY <1>4 DEF vars, orchestrator, backend, readings, IInv, TypeOK, IdsAgree,
     ClaimShape, Phases, WireKnown, ClaimTruth, Whereabouts, Live
<1> QED BY <1>1, <1>2, <1>3, <1>4 DEF Next

\* The invariant holds in every reachable state.
LEMMA AlwaysInv == Spec => []IInv
BY InitInv, NextInv, PTL DEF Spec

\* The claim, the turn and the wire keep their types.
THEOREM TypeCorrect == Spec => []TypeOK
<1>1. IInv => TypeOK
  BY DEF IInv
<1> QED BY <1>1, AlwaysInv, PTL

\* No accepted message is lost, whatever the order in which the engine answers,
\* records and ends the turn, and whenever a session is replaced.
THEOREM NothingLost == Spec => []NeverLost
<1>1. IInv => NeverLost
  BY DEF IInv, Whereabouts, NeverLost
<1> QED BY <1>1, AlwaysInv, PTL

\* The chat shows as delivered only what a model read, and loses nothing that
\* one read.
THEOREM ChatTrue == Spec => []ChatTellsTheTruth
<1>1. IInv => ChatTellsTheTruth
  BY DEF IInv, Whereabouts, ChatTellsTheTruth
<1> QED BY <1>1, AlwaysInv, PTL

\* A step reads what the engine takes or records, or the hook.
LEMMA StepReads ==
  ASSUME IInv, [Next]_vars
  PROVE  \A m \in cancelled : m \in read' => m \in read \cup batch \cup late'
<1> USE DEF IInv
<1>1. CASE EngineTakes
  BY <1>1 DEF EngineTakes, Reads
<1>2. CASE takeToolBoundaryMessage
  BY <1>2 DEF takeToolBoundaryMessage, boundaryBatch, Reads, Whereabouts
<1>3. ASSUME NEW s \in wire, EngineRecords(s)
      PROVE  \A m \in cancelled : m \in read' => m \in read \cup batch \cup late'
  <2>1. s.items \cap cancelled = {}
    BY <1>3 DEF EngineRecords, WireKnown, Active, ClaimShape, ClaimTruth
  <2> QED BY <1>3, <2>1 DEF EngineRecords, noteSteerRecorded, Reads
<1>4. ASSUME NEW s \in wire, EngineRecordsLate(s)
      PROVE  \A m \in cancelled : m \in read' => m \in read \cup batch \cup late'
  BY <1>4 DEF EngineRecordsLate, noteSteerRecorded, Reads
<1>5. CASE UNCHANGED read
  BY <1>5
<1> QED
  BY <1>1, <1>2, <1>3, <1>4, <1>5 DEF Next, SessionStep, EngineStep, MemberStep,
     vars, readings, FlushQueue, SendTurn, SendAccepted, ToolCall,
     TurnCompleted, releasePendingSteer, onSteerDelivered, EngineNamesTurn,
     EngineAnswers, EngineEndsTurn, EnqueueMessage, CancelQueued, HotAbort,
     ReplaceSession

\* A message whose cancel succeeded is not read later, except in a batch that
\* was under way or a steer recorded after its turn's end.
THEOREM CancelSafe == Spec => CancelIsFinal
<1>1. IInv /\ [Next]_vars =>
        [\A m \in cancelled : m \in read' => m \in read \cup batch \cup late']_vars
  BY StepReads
<1> QED BY <1>1, AlwaysInv, PTL DEF Spec, CancelIsFinal

-----------------------------------------------------------------------------
(* Reading once.                                                           *)

\* The steers of the running turn are pending: what they carry is claimed.
LEMMA ActiveClaimed ==
  ASSUME IInv, NEW s \in wire, Active(s)
  PROVE  /\ named /\ engine /\ Live /\ LiveClaim = claim
         /\ [id |-> s.id, items |-> s.items] \in claim.pending
         /\ s.items \subseteq claim.items
<1>1. /\ named /\ Live
      /\ [id |-> s.id, items |-> s.items] \in claim.pending
  BY DEF IInv, WireKnown
<1> QED BY <1>1, LiveClaimIs DEF IInv, Phases, ClaimShape

\* A push at a boundary takes items the model has not read, unless it has them
\* from the batch under way, which is early, or from a late record.
LEMMA PushOnce ==
  ASSUME IInv, Once, Pushed(queue' \ LiveClaim.items),
         queue \subseteq queue', queue' \cap context \subseteq queue,
         UNCHANGED <<session, turn, batch, engine, named, recorded, context, twice,
                     late>>
  PROVE  Once'
<1> DEFINE items == queue' \ LiveClaim.items
           p0 == [id |-> pushes + 1, items |-> items]
<1>0. PICK s0 \in WireSteers :
        /\ s0.items = items
        /\ s0.at = IF named THEN "sent" ELSE "refused"
        /\ wire' = wire \cup {s0}
  BY DEF Pushed
<1>a. /\ claim'.session = session
      /\ claim'.items = LiveClaim.items \cup items
      /\ claim'.pending = LiveClaim.pending \cup {p0}
      /\ early' = IF named THEN early \cup (items \cap Unheard) ELSE early
  BY DEF Pushed
<1>b. Live' /\ LiveClaim' = claim' /\ Unheard' = Unheard
  BY <1>a DEF Live, LiveClaim, Unheard
<1>c. \A p \in LiveClaim.pending :
        p.id \in recorded \/ p.items \cap context \cap queue \subseteq Unheard \cup late
  BY LiveClaimIs DEF Once, IInv
<1>d. items \cap context \subseteq Unheard \cup late
  BY DEF Once
<1>e. p0.items = items /\ items \subseteq queue'
  OBVIOUS
<1> HIDE DEF items, p0
<1>1. ReadOnce'
  BY <1>a DEF Once, ReadOnce
<1>2. queue' \cap context \subseteq claim'.items \cup Unheard \cup late
  BY <1>a, LiveClaimIs DEF Once
<1>3. \A p \in claim'.pending :
        p.id \in recorded \/ p.items \cap context \cap queue' \subseteq Unheard \cup late
  BY <1>a, <1>c, <1>d, <1>e
<1>4. \A s \in wire' : Active(s) => s.items \cap context \subseteq early' \cup late
  <2>1. \A s \in wire : Active(s) => s.items \cap context \subseteq early' \cup late
    BY <1>a DEF Once
  <2>2. Active(s0) => s0.items \cap context \subseteq early' \cup late
    BY <1>0, <1>a, <1>d DEF Active
  <2> QED BY <1>0, <2>1, <2>2
<1>5. turn \in {"presend", "sending"} /\ ~engine => batch \cap context \subseteq late
  BY DEF Once
<1> QED BY <1>b, <1>1, <1>2, <1>3, <1>4, <1>5 DEF Once, Active

\* Nothing is pushed: the claim and the wire stay.
LEMMA NoPushOnce ==
  ASSUME Once, UNCHANGED <<claim, wire, early>>,
         queue \subseteq queue', queue' \cap context \subseteq queue,
         UNCHANGED <<session, turn, batch, engine, recorded, context, twice, late>>
  PROVE  Once'
BY DEF Once, ReadOnce, Live, LiveClaim, Unheard

\* A new message is in nobody's context.
LEMMA EnqueueMessageOnce ==
  ASSUME IInv, Once, NEW m \in Msgs, EnqueueMessage(m)
  PROVE  Once'
<1>1. /\ TypeOK /\ ClaimShape /\ queue' \in SUBSET Msgs
      /\ queue' = queue \cup {m} /\ m \notin context
  BY DEF IInv, TypeOK, Whereabouts, EnqueueMessage
<1>2. \/ UNCHANGED <<pushes, claim, wire, steerIds, early>>
      \/ Pushed(queue' \ LiveClaim.items)
  BY <1>1, PushIs DEF EnqueueMessage
<1> QED BY <1>1, <1>2, PushOnce, NoPushOnce DEF EnqueueMessage

\* A push at a tool call is of queued items nobody claimed.
LEMMA ToolCallOnce ==
  ASSUME IInv, Once, ToolCall
  PROVE  Once'
<1>1. TypeOK /\ ClaimShape /\ queue \in SUBSET Msgs
  BY DEF IInv, TypeOK
<1>2. \/ UNCHANGED <<pushes, claim, wire, steerIds, early>>
      \/ Pushed(queue \ LiveClaim.items)
  BY <1>1, PushIs DEF ToolCall
<1> QED BY <1>2, PushOnce, NoPushOnce DEF ToolCall

\* A cancel takes the item away from every later flush and steer.
LEMMA CancelQueuedOnce ==
  ASSUME Once, NEW m \in Msgs, CancelQueued(m)
  PROVE  Once'
<1>1. /\ queue' \subseteq queue
      /\ UNCHANGED <<session, claim, turn, batch, engine, wire, recorded, readings>>
  BY DEF CancelQueued, backend
<1> QED BY <1>1 DEF Once, ReadOnce, Live, LiveClaim, Unheard, readings

\* A flush takes only unclaimed items: what the model has read of them was
\* recorded late.
LEMMA FlushQueueOnce ==
  ASSUME Once, FlushQueue
  PROVE  Once'
BY DEF FlushQueue, unclaimedQueue, backend, readings, Once, ReadOnce, Live,
   LiveClaim, Unheard

\* The batch on its way is not read yet.
LEMMA SendTurnOnce ==
  ASSUME IInv, Once, SendTurn
  PROVE  Once'
BY DEF SendTurn, backend, readings, IInv, Phases, Once, ReadOnce, Live, LiveClaim,
   Unheard

\* The accepted batch leaves the queue, so it is not flushed again.
LEMMA SendAcceptedOnce ==
  ASSUME Once, SendAccepted
  PROVE  Once'
BY DEF SendAccepted, backend, readings, Once, ReadOnce, Live, LiveClaim, Unheard

\* What the hook takes is claimed and in the context at once.
LEMMA HookTakesOnce ==
  ASSUME IInv, Once, takeToolBoundaryMessage
  PROVE  Once'
<1> DEFINE items == boundaryBatch(queue, marked)
<1>1. /\ turn = "running" /\ Unheard = {} /\ Unheard' = {} /\ ~(turn' = "sending")
      /\ context' = context \cup items
      /\ twice' = twice \cup (context \cap items)
      /\ UNCHANGED <<queue, session, turn, batch, engine, wire, recorded, early, late>>
  BY DEF takeToolBoundaryMessage, Reads, backend, Unheard
<1>2. /\ Live' /\ LiveClaim' = claim'
      /\ claim'.items = LiveClaim.items \cup items
      /\ claim'.pending = LiveClaim.pending
  BY LiveClaimIs DEF takeToolBoundaryMessage, IInv, Live, LiveClaim, Claims
<1>3. items \cap LiveClaim.items = {} /\ items \subseteq queue
  BY DEF boundaryBatch
<1>4. items \cap context \subseteq late
  BY <1>1, <1>3 DEF Once
<1>5. \A s \in wire : Active(s) => s.items \cap items = {}
  BY <1>3, ActiveClaimed
<1>6. \A p \in LiveClaim.pending :
        /\ p.id \in recorded \/ p.items \cap context \cap queue \subseteq late
        /\ p.items \cap items = {}
  BY <1>1, <1>3, LiveClaimIs DEF IInv, ClaimShape, Once
<1> HIDE DEF items
<1>7. ReadOnce'
  BY <1>1, <1>4 DEF Once, ReadOnce
<1>8. queue \cap context' \subseteq claim'.items \cup late
  BY <1>1, <1>2, <1>3 DEF Once
<1>9. \A p \in claim'.pending :
        p.id \in recorded \/ p.items \cap context' \cap queue \subseteq late
  BY <1>1, <1>2, <1>6
<1>10. \A s \in wire : Active(s) => s.items \cap context' \subseteq early \cup late
  BY <1>1, <1>5 DEF Once
<1>11. ~(turn' \in {"presend", "sending"})
  BY <1>1
<1> QED BY <1>1, <1>2, <1>7, <1>8, <1>9, <1>10, <1>11 DEF Once, Active

\* An interrupt in place reads nothing.
LEMMA HotAbortOnce ==
  ASSUME Once, HotAbort
  PROVE  Once'
BY DEF HotAbort, backend, readings, Once, ReadOnce, Live, LiveClaim, Unheard

\* The new session's context is empty.
LEMMA ReplaceSessionOnce ==
  ASSUME Once, ReplaceSession
  PROVE  Once'
BY DEF ReplaceSession, Once, ReadOnce

\* The engine reads a batch that was out of its context, but for late records. No
\* steer has a turn yet.
LEMMA EngineTakesOnce ==
  ASSUME IInv, Once, EngineTakes
  PROVE  Once'
<1>1. /\ turn = "sending" /\ ~engine /\ engine'
      /\ context' = context \cup batch
      /\ twice' = twice \cup (context \cap batch)
      /\ UNCHANGED <<queue, session, claim, turn, batch, wire, recorded, early, late>>
  BY DEF EngineTakes, Reads, orchestrator
<1>2. /\ Unheard' = batch /\ Unheard = {}
      /\ LiveClaim' = LiveClaim /\ Live' = Live
  BY <1>1 DEF Unheard, LiveClaim, Live
<1>3. ReadOnce'
  BY <1>1 DEF Once, ReadOnce
<1>4. \A s \in wire : ~Active(s)
  BY <1>1, ActiveClaimed
<1>5. queue \cap context' \subseteq LiveClaim.items \cup batch \cup late
  BY <1>1, <1>2 DEF Once
<1>6. Live => \A p \in claim.pending :
        p.id \in recorded \/ p.items \cap context' \cap queue \subseteq batch \cup late
  BY <1>1, <1>2 DEF Once
<1> QED BY <1>1, <1>2, <1>3, <1>4, <1>5, <1>6 DEF Once, Active

\* A name of the turn reads nothing.
LEMMA EngineNamesTurnOnce ==
  ASSUME Once, EngineNamesTurn
  PROVE  Once'
BY DEF EngineNamesTurn, orchestrator, readings, Once, ReadOnce, Live, LiveClaim,
   Unheard

\* An answer to a steer reads nothing.
LEMMA EngineAnswersOnce ==
  ASSUME IInv, Once, NEW s \in wire, NEW at \in {"held", "refused"},
         EngineAnswers(s, at)
  PROVE  Once'
<1>1. UNCHANGED <<queue, session, claim, turn, batch, engine, recorded, readings>>
  BY DEF EngineAnswers, orchestrator
<1>2. \A t \in wire' : Active(t) => \E u \in wire : Active(u) /\ u.items = t.items
  BY DEF EngineAnswers, Active, IInv, TypeOK, WireSteers
<1>3. \A t \in wire' : Active(t) => t.items \cap context \subseteq early \cup late
  BY <1>2 DEF Once
<1> QED BY <1>1, <1>3 DEF Once, ReadOnce, Live, LiveClaim, Unheard, readings, Active

\* A steer recorded in its turn: the model had read of it only what was early, or
\* late before.
LEMMA EngineRecordsOnce ==
  ASSUME IInv, Once, NEW s \in wire, EngineRecords(s)
  PROVE  Once'
<1>1. /\ engine /\ Active(s) /\ Live /\ LiveClaim = claim
      /\ [id |-> s.id, items |-> s.items] \in claim.pending
      /\ s.items \subseteq claim.items
      /\ s.id \in steerIds
  BY ActiveClaimed DEF EngineRecords, Active, IInv, WireKnown
<1>2. /\ context' = context \cup s.items
      /\ twice' = twice \cup (context \cap s.items)
      /\ recorded' = recorded \cup {s.id} /\ wire' = wire \ {s}
      /\ UNCHANGED <<queue, session, claim, turn, batch, engine, early, late>>
  BY <1>1 DEF EngineRecords, noteSteerRecorded, Reads, orchestrator
<1>3. Live' /\ LiveClaim' = claim /\ Unheard' = Unheard
  BY <1>1, <1>2 DEF Live, LiveClaim, Unheard
<1>4. ReadOnce'
  BY <1>1, <1>2 DEF Once, ReadOnce
<1>5. queue \cap context' \subseteq claim.items \cup Unheard \cup late
  BY <1>1, <1>2 DEF Once
<1>6. \A p \in claim.pending : p.id = s.id \/ p.items \cap s.items = {}
  BY <1>1 DEF IInv, ClaimShape
<1>7. \A p \in claim.pending :
        \/ p.id \in recorded'
        \/ p.items \cap context' \cap queue \subseteq Unheard \cup late
  BY <1>1, <1>2, <1>6 DEF Once
<1>8. \A t \in wire' : Active(t) => t.items \cap context' \subseteq early \cup late
  <2> SUFFICES ASSUME NEW t \in wire', Active(t)
               PROVE  t.items \cap context' \subseteq early \cup late
    OBVIOUS
  <2>1. t \in wire /\ t # s
    BY <1>2
  <2>2. t.id # s.id
    BY <2>1 DEF IInv, IdsAgree
  <2>3. [id |-> t.id, items |-> t.items] \in claim.pending
    BY <2>1, ActiveClaimed
  <2>4. t.items \cap s.items = {}
    BY <1>6, <2>2, <2>3
  <2> QED BY <1>2, <2>1, <2>4 DEF Once
<1> QED BY <1>1, <1>2, <1>3, <1>4, <1>5, <1>7, <1>8 DEF Once, Active

\* A late record: whatever it makes the model read is late from here on.
LEMMA EngineRecordsLateOnce ==
  ASSUME Once, NEW s \in wire, EngineRecordsLate(s)
  PROVE  Once'
<1>1. /\ context' = context \cup s.items
      /\ twice' = twice \cup (context \cap s.items)
      /\ late' = late \cup s.items
      /\ wire' \subseteq wire /\ recorded \subseteq recorded'
      /\ UNCHANGED <<queue, session, claim, turn, batch, engine, early>>
  BY DEF EngineRecordsLate, noteSteerRecorded, Reads, orchestrator
<1>2. LiveClaim' = LiveClaim /\ Unheard' = Unheard /\ Live' = Live
  BY <1>1 DEF Live, LiveClaim, Unheard
<1>3. ReadOnce'
  BY <1>1 DEF Once, ReadOnce
<1>4. queue \cap context' \subseteq LiveClaim.items \cup Unheard \cup late'
  BY <1>1 DEF Once
<1>5. turn \in {"presend", "sending"} /\ ~engine => batch \cap context' \subseteq late'
  BY <1>1 DEF Once
<1>6. Live => \A p \in claim.pending :
        \/ p.id \in recorded'
        \/ p.items \cap context' \cap queue \subseteq Unheard \cup late'
  BY <1>1 DEF Once
<1>7. \A t \in wire' : Active(t) => t.items \cap context' \subseteq early \cup late'
  BY <1>1 DEF Once
<1> QED BY <1>1, <1>2, <1>3, <1>4, <1>5, <1>6, <1>7 DEF Once, Active

\* The end of the engine's turn reads nothing and leaves no steer active.
LEMMA EngineEndsTurnOnce ==
  ASSUME IInv, Once, NEW retry \in BOOLEAN, EngineEndsTurn(retry)
  PROVE  Once'
<1>1. /\ turn = "running"
      /\ UNCHANGED <<queue, session, claim, turn, batch, recorded, readings>>
  BY DEF EngineEndsTurn, orchestrator
<1>2. /\ LiveClaim' = LiveClaim /\ Live' = Live /\ Unheard = {} /\ Unheard' = {}
      /\ ~(turn' \in {"presend", "sending"})
  BY <1>1 DEF Live, LiveClaim, Unheard
<1>3. \A s \in wire' : ~Active(s)
  BY DEF EngineEndsTurn, Active, IInv, TypeOK, WireSteers
<1> QED BY <1>1, <1>2, <1>3 DEF Once, ReadOnce, readings, Active

\* A released claim gives back only items that were not read.
LEMMA ReleaseOnce ==
  ASSUME IInv, Once, NEW s \in wire, releasePendingSteer(s)
  PROVE  Once'
<1>1. /\ wire' \subseteq wire
      /\ UNCHANGED <<queue, session, turn, batch, engine, recorded, readings>>
  BY DEF releasePendingSteer
<1>2. Unheard' = Unheard /\ claim'.session = claim.session /\ Live' = Live
  BY <1>1 DEF releasePendingSteer, Unheard, Live, IInv, TypeOK, Claims
<1>3. claim'.pending \subseteq claim.pending
  BY DEF releasePendingSteer, IInv, TypeOK, Claims
<1>4. queue \cap context \subseteq LiveClaim'.items \cup Unheard \cup late
  <2>1. CASE claim' = claim \/ ~Live
    BY <1>1, <1>2, <2>1 DEF Once, LiveClaim, Live
  <2>2. CASE claim' # claim /\ Live
    <3>1. PICK p \in claim.pending :
            /\ p.id = s.id /\ p.items = s.items
            /\ claim'.items = claim.items \ p.items
      BY <2>2 DEF releasePendingSteer, IInv, IdsAgree, TypeOK, Claims
    <3>2. p.id \notin recorded
      BY <3>1 DEF IInv, IdsAgree
    <3>3. LiveClaim = claim /\ LiveClaim' = claim'
      BY <1>1, <1>2, <2>2 DEF LiveClaim, Live
    <3> QED BY <2>2, <3>1, <3>2, <3>3 DEF Once
  <2> QED BY <2>1, <2>2
<1> QED BY <1>1, <1>2, <1>3, <1>4 DEF Once, ReadOnce, readings

\* A delivered steer was recorded: it is pending no more, and its items stay
\* claimed.
LEMMA DeliveredOnce ==
  ASSUME IInv, Once, NEW id \in recorded, onSteerDelivered(id)
  PROVE  Once'
<1> DEFINE delivered == {p \in LiveClaim.pending : p.id = id}
<1>1. /\ recorded' = recorded \ {id}
      /\ claim' = [claim EXCEPT !.pending = @ \ delivered]
      /\ UNCHANGED <<queue, session, turn, batch, engine, wire, readings>>
  BY DEF onSteerDelivered
<1>2. /\ claim'.items = claim.items /\ claim'.session = claim.session
      /\ claim'.pending = claim.pending \ delivered
  BY <1>1 DEF IInv, TypeOK, Claims
<1>3. /\ Unheard' = Unheard /\ Live' = Live
      /\ LiveClaim'.items = LiveClaim.items
  BY <1>1, <1>2 DEF Unheard, Live, LiveClaim
<1>4. Live => \A p \in claim'.pending : p \in claim.pending /\ p.id # id
  BY <1>2, LiveClaimIs DEF IInv
<1> HIDE DEF delivered
<1> QED BY <1>1, <1>3, <1>4 DEF Once, ReadOnce, readings

\* The completed turn gives back what no steer delivered.
LEMMA TurnCompletedOnce ==
  ASSUME IInv, Once, TurnCompleted
  PROVE  Once'
<1>1. /\ turn = "running" /\ Unheard = {} /\ recorded = {} /\ ~named
  BY DEF TurnCompleted, IInv, Phases, Unheard
<1>2. /\ claim' = NoClaim /\ turn' = "none" /\ queue' = queue \ drained
      /\ UNCHANGED <<session, batch, engine, wire, recorded, readings>>
  BY DEF TurnCompleted
<1>3. ~Live' /\ LiveClaim' = NoClaim /\ Unheard' = {}
  BY <1>2 DEF Live, LiveClaim, Unheard, NoClaim, IInv, TypeOK
<1>4. queue' \cap context \subseteq late
  <2>1. CASE ~Live
    BY <1>1, <1>2, <2>1, LiveClaimIs DEF Once, IInv
  <2>2. CASE Live
    <3>1. \A p \in claim.pending : p.items \cap context \cap queue \subseteq late
      BY <1>1, <2>2 DEF Once
    <3>2. queue \cap context \subseteq claim.items \cup late
      BY <1>1, <2>2, LiveClaimIs DEF Once, IInv
    <3> QED BY <1>2, <2>2, <3>1, <3>2, LiveClaimIs DEF drained, IInv
  <2> QED BY <2>1, <2>2
<1>5. \A s \in wire : ~Active(s)
  BY <1>1, ActiveClaimed
<1> QED BY <1>1, <1>2, <1>3, <1>4, <1>5 DEF Once, ReadOnce, readings, Active

\* Every step keeps the strengthened invariant.
LEMMA NextOnce ==
  ASSUME IInv, Once, [Next]_vars
  PROVE  Once'
<1>1. CASE SessionStep
  BY <1>1, FlushQueueOnce, SendTurnOnce, SendAcceptedOnce, ToolCallOnce,
     HookTakesOnce, TurnCompletedOnce, ReleaseOnce, DeliveredOnce
     DEF SessionStep
<1>2. CASE EngineStep
  BY <1>2, EngineTakesOnce, EngineNamesTurnOnce, EngineAnswersOnce,
     EngineRecordsOnce, EngineRecordsLateOnce, EngineEndsTurnOnce DEF EngineStep
<1>3. CASE MemberStep
  BY <1>3, EnqueueMessageOnce, CancelQueuedOnce, HotAbortOnce,
     ReplaceSessionOnce DEF MemberStep
<1>4. CASE UNCHANGED vars
  BY <1>4 DEF vars, orchestrator, backend, readings, Once, ReadOnce, Live,
     LiveClaim, Unheard
<1> QED BY <1>1, <1>2, <1>3, <1>4 DEF Next

\* A model reads a message twice only after a late record (a steer recorded after
\* its turn's end, whose items the office has released) or an early push (into the
\* turn of its own batch, named before turn/start was answered): whatever the
\* order of answers, records, turn ends, Stops and replaced sessions.
THEOREM ReadAtMostOnce == Spec => []ReadOnce
<1>1. Init => Once
  BY DEF Init, Once, ReadOnce, Live, NoClaim, Unheard, LiveClaim
<1>2. IInv /\ Once /\ [Next]_vars => Once'
  BY NextOnce
<1>3. Once => ReadOnce
  BY DEF Once
<1> QED BY <1>1, <1>2, <1>3, AlwaysInv, PTL DEF Spec

=============================================================================
