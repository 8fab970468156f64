------------------------- MODULE SessionSlotProofs -------------------------
(***************************************************************************)
(* Proofs about SessionSlot, for every number of processes, callers and    *)
(* turns, in three parts:                                                  *)
(*                                                                         *)
(*  - types, and what a slot of each kind and a call in flight hold;       *)
(*  - safety: the swap lock, no leaked process, no stranded turn, no send  *)
(*    into a session the turn never saw, drain before install, the token   *)
(*    of what is installed, and what clients see of the slot and of the    *)
(*    chat. Each is inductive beside Typed, with the strengthening its     *)
(*    section names;                                                       *)
(*  - refinement: the session slot implements its transition table         *)
(*    (SlotTable): every step is a transition of the table, or leaves the  *)
(*    slot, its process and the processes that were bound before as they   *)
(*    were.                                                                *)
(***************************************************************************)
EXTENDS SessionSlot, TLAPS

Procs == {"unbuilt", "open", "closed", "exited"}
Consumers == {"none", "reading", "done"}

TurnsOK ==
  /\ turn \in [Turns -> TurnStates]
  /\ turnSession \in [Turns -> SessionOrNone]
  /\ pendingTurn \in Turns \cup {NoTurn}

\* What a slot of each kind holds.
SlotShape ==
  /\ slot.kind = "live" => slot.session \in Sessions
  /\ slot.kind # "live" => slot.session = NoSession
  /\ slot.kind = "swapping" => slot.holder \in Callers
  /\ slot.kind # "swapping" => slot.holder = NoCaller

\* What a call in flight holds.
CallOK(call) ==
  /\ call.pc \in {"waiting", "draining"} /\ call.op # "release"
       => call.built \in Sessions
  /\ call.pc = "draining" => call.old \in Sessions
  /\ call.pc \in {"denying", "hot"} => call.op = "stop"
CallShape == \A c \in Callers : CallOK(caller[c])

Typed == TypeOK /\ SlotShape /\ CallShape

USE NullsAssumption

-----------------------------------------------------------------------------
(* Facts about the constructors and the shared steps.                      *)

\* The constructors of the slot build slots, with the fields they name.
LEMMA SlotTypes ==
  /\ \A s \in Sessions : Live(s) \in Slots
  /\ \A c \in Callers, k \in ConvOrNone, chat \in ConvOrNone, a \in BOOLEAN :
       Swapping(c, k, a, chat) \in Slots
  /\ \A r \in Reasons : Released(r) \in Slots
  /\ Dead \in Slots
<1>1. \A s \in Sessions : Live(s) \in Slots
  BY DEF Live, Slots, SessionOrNone, ConvOrNone, Reasons
<1>2. \A c \in Callers, k \in ConvOrNone, chat \in ConvOrNone, a \in BOOLEAN :
        Swapping(c, k, a, chat) \in Slots
  BY DEF Swapping, Slots, SessionOrNone, Reasons
<1>3. \A r \in Reasons : Released(r) \in Slots
  BY DEF Released, Slots, SessionOrNone, ConvOrNone
<1>4. Dead \in Slots
  BY DEF Dead, Slots, SessionOrNone, ConvOrNone, Reasons
<1> QED BY <1>1, <1>2, <1>3, <1>4

\* The fields the invariants read.
LEMMA SlotFields ==
  /\ \A s : /\ Live(s).kind = "live"
            /\ Live(s).session = s
            /\ Live(s).holder = NoCaller
  /\ \A r : /\ Released(r).kind = "released"
            /\ Released(r).session = NoSession
            /\ Released(r).holder = NoCaller
            /\ Released(r).reason = r
  /\ Dead.kind = "dead" /\ Dead.session = NoSession /\ Dead.holder = NoCaller
  /\ \A c, k, a, chat : LET sl == Swapping(c, k, a, chat)
                        IN /\ sl.kind = "swapping"
                           /\ sl.session = NoSession
                           /\ sl.holder = c
                           /\ sl.switches = a
                           /\ sl.chat = chat
BY DEF Live, Released, Dead, Swapping

\* A new call, and a call that is over, are calls.
LEMMA CallTypes ==
  /\ NoCall \in CallRecords
  /\ \A call \in CallRecords :
       /\ Finished(call) \in CallRecords
       /\ Finished(call).pc \in {"unwinding", "done"}
       /\ Finished(call).op = "none"
       /\ CallOK(Finished(call))
<1>1. NoCall \in CallRecords
  BY DEF NoCall, CallRecords, CallerStates, SessionOrNone, ConvOrNone, Reasons
<1> SUFFICES ASSUME NEW call \in CallRecords
             PROVE  /\ Finished(call) \in CallRecords
                    /\ Finished(call).pc \in {"unwinding", "done"}
                    /\ Finished(call).op = "none"
                    /\ CallOK(Finished(call))
  BY <1>1
<1>2. call.turn \in Turns \cup {NoTurn}
  BY DEF CallRecords
<1>3. Finished(call) \in CallRecords
  BY <1>1, <1>2 DEF Finished, CallRecords, CallerStates
<1>4. Finished(call).pc \in {"unwinding", "done"} /\ Finished(call).op = "none"
  BY DEF Finished, NoCall
<1> QED BY <1>3, <1>4 DEF CallOK

\* Updating one call keeps the others.
LEMMA SetCallTyped ==
  ASSUME NEW c \in Callers, NEW call \in CallRecords, CallOK(call),
         caller \in [Callers -> CallRecords], CallShape, SetCall(c, call)
  PROVE  caller' \in [Callers -> CallRecords] /\ CallShape'
BY DEF SetCall, CallShape

\* Closing a process leaves a process table, and touches no other process.
LEMMA CloseType ==
  ASSUME NEW p \in [Sessions -> Procs], NEW s
  PROVE  /\ Close(p, s) \in [Sessions -> Procs]
         /\ \A x \in Sessions : Close(p, s)[x] = "open" => p[x] = "open" /\ x # s
BY DEF Close, Procs

\* Opening a process leaves a process table, and touches no other process.
LEMMA OpenedType ==
  ASSUME proc \in [Sessions -> Procs], NEW s \in Sessions
  PROVE  /\ Opened(s) \in [Sessions -> Procs]
         /\ \A x \in Sessions : x # s => Opened(s)[x] = proc[x]
BY DEF Opened, Procs

\* Cancelling or settling turns keeps the turns' types.
LEMMA CancelTyped ==
  ASSUME NEW outcome \in TurnStates, TurnsOK, CancelTurns(outcome)
  PROVE  TurnsOK'
BY DEF CancelTurns, TurnsOK, TurnStates, BumpedAndSettled, SessionOrNone

\* Settling the installed deferred keeps the turns' types.
LEMMA SettleTyped ==
  ASSUME NEW outcome \in TurnStates, TurnsOK, SettleTurn(outcome)
  PROVE  TurnsOK'
BY DEF SettleTurn, TurnsOK, TurnStates, SessionOrNone

\* A build keeps the types of what it writes.
LEMMA BuildTyped ==
  ASSUME Typed, NEW s \in Sessions, NEW k \in ConvOrNone, Build(s, k)
  PROVE  /\ runs' \in [Sessions -> ConvOrNone]
         /\ onToken' \subseteq Sessions
         /\ onEnv' \subseteq Sessions
BY DEF Typed, TypeOK, Build

-----------------------------------------------------------------------------
(* The steps of a swap.                                                    *)

\* The part of TypeOK that a swap's steps write.
SwapTyped ==
  /\ slot \in Slots
  /\ wire \in [dormant : BOOLEAN, swapping : BOOLEAN]
  /\ conversationId \in ConvOrNone
  /\ screen \in ConvOrNone
  /\ proc \in [Sessions -> Procs]
  /\ consumer \in [Sessions -> Consumers]
  /\ caller \in [Callers -> CallRecords]
  /\ TurnsOK
  /\ SlotShape
  /\ CallShape

\* A call record that a swap may run with.
SwapCall(call) ==
  /\ call \in CallRecords
  /\ call.built \in Sessions
  /\ call.op # "release"
  /\ call.target \in ConvOrNone
  /\ call.adopt \in BOOLEAN

\* The parts of Typed that one kind of step at a time can disturb.
LEMMA TypedSplit ==
  Typed <=> /\ SwapTyped
            /\ runs \in [Sessions -> ConvOrNone]
            /\ onToken \subseteq Sessions
            /\ onEnv \subseteq Sessions
            /\ wedged \subseteq Sessions
            /\ aborting \in BOOLEAN
BY DEF Typed, TypeOK, SwapTyped, TurnsOK, Procs, Consumers

\* Typed again, from its parts after a step.
LEMMA TypedAfter ==
  ASSUME SwapTyped',
         runs' \in [Sessions -> ConvOrNone],
         onToken' \subseteq Sessions,
         onEnv' \subseteq Sessions,
         wedged' \subseteq Sessions,
         aborting' \in BOOLEAN
  PROVE  Typed'
BY DEF Typed, TypeOK, SwapTyped, TurnsOK, Procs, Consumers

\* A swap that takes the lock (replaceSession up to its drain) keeps the types.
LEMMA TakeLiveSlotTyped ==
  ASSUME SwapTyped, NEW c \in Callers, NEW call, SwapCall(call),
         NEW conv \in ConvOrNone, NEW table \in [Sessions -> Procs],
         TakeLiveSlot(c, call, conv, table)
  PROVE  SwapTyped'
<1>1. TurnsOK' /\ conversationId' \in ConvOrNone /\ screen' \in ConvOrNone
  BY CancelTyped DEF TakeLiveSlot, StartSwap, SwapTyped, SwapCall, Shown,
                     TurnStates, ConvOrNone
<1>2. slot' \in Slots /\ SlotShape'
  BY SlotTypes, SlotFields DEF TakeLiveSlot, SlotShape, SwapCall
<1>3. proc' \in [Sessions -> Procs] /\ consumer' = consumer
  BY CloseType DEF TakeLiveSlot
<1>4. wire' \in [dormant : BOOLEAN, swapping : BOOLEAN]
  BY DEF TakeLiveSlot
<1>5. slot.session \in Sessions
  BY DEF SwapTyped, SlotShape, TakeLiveSlot
<1> DEFINE new == [call EXCEPT !.pc = "draining", !.old = slot.session]
<1>6. new \in CallRecords
  BY <1>5 DEF SwapCall, CallRecords, CallerStates, SessionOrNone
<1>7. new.pc = "draining" /\ new.old = slot.session /\ new.built = call.built
  BY DEF SwapCall, CallRecords
<1>8. CallOK(new)
  BY <1>5, <1>7 DEF CallOK, SwapCall
<1>9. caller' \in [Callers -> CallRecords] /\ CallShape'
  BY <1>6, <1>8, SetCallTyped DEF TakeLiveSlot, SwapTyped
<1> QED BY <1>1, <1>2, <1>3, <1>4, <1>9 DEF SwapTyped

\* A swap refused by a dead slot keeps the types.
LEMMA RefuseDeadTyped ==
  ASSUME SwapTyped, NEW c \in Callers, NEW call, SwapCall(call),
         NEW conv \in ConvOrNone, NEW table \in [Sessions -> Procs],
         RefuseDead(c, call, conv, table)
  PROVE  SwapTyped'
<1>1. caller' \in [Callers -> CallRecords] /\ CallShape'
  BY CallTypes, SetCallTyped DEF RefuseDead, SwapTyped, SwapCall
<1>2. proc' \in [Sessions -> Procs]
  BY CloseType DEF RefuseDead
<1>3. conversationId' \in ConvOrNone /\ screen' \in ConvOrNone
  BY DEF RefuseDead, Shown, SwapTyped, ConvOrNone
<1> QED BY <1>1, <1>2, <1>3
        DEF RefuseDead, SwapTyped, SlotShape, TurnsOK, turnVars

\* The install at the end of a swap keeps the types.
LEMMA InstallInSwapTyped ==
  ASSUME SwapTyped, NEW c \in Callers, NEW call, SwapCall(call),
         NEW s \in Sessions, NEW table \in [Sessions -> Procs],
         NEW chat \in ConvOrNone, InstallInSwap(c, call, s, table, chat)
  PROVE  /\ slot' \in Slots /\ SlotShape'
         /\ wire' \in [dormant : BOOLEAN, swapping : BOOLEAN]
         /\ screen' \in ConvOrNone
         /\ proc' \in [Sessions -> Procs]
         /\ consumer' \in [Sessions -> Consumers]
         /\ caller' \in [Callers -> CallRecords] /\ CallShape'
<1>1. caller' \in [Callers -> CallRecords] /\ CallShape'
  BY CallTypes, SetCallTyped DEF InstallInSwap, SwapTyped, SwapCall
<1>2. slot' \in Slots /\ SlotShape'
  BY SlotTypes, SlotFields DEF InstallInSwap, SlotShape
<1>3. consumer' \in [Sessions -> Consumers]
  BY DEF InstallInSwap, StartConsumer, SwapTyped, Consumers
<1> QED BY <1>1, <1>2, <1>3 DEF InstallInSwap, After, SwapCall

\* So does currentReplacement: the built process, a rebuilt one or none.
LEMMA InstallReplacementTyped ==
  ASSUME Typed, NEW c \in Callers, NEW call, SwapCall(call),
         InstallReplacement(c, call)
  PROVE  /\ slot' \in Slots /\ SlotShape'
         /\ wire' \in [dormant : BOOLEAN, swapping : BOOLEAN]
         /\ screen' \in ConvOrNone
         /\ proc' \in [Sessions -> Procs]
         /\ consumer' \in [Sessions -> Consumers]
         /\ caller' \in [Callers -> CallRecords] /\ CallShape'
         /\ runs' \in [Sessions -> ConvOrNone]
         /\ onToken' \subseteq Sessions
         /\ onEnv' \subseteq Sessions
<1>t. SwapTyped /\ proc \in [Sessions -> Procs] /\ screen \in ConvOrNone
  BY TypedSplit DEF SwapTyped
<1>1. CASE call.built \in onToken
  <2>1. InstallInSwap(c, call, call.built, proc, screen)
        /\ UNCHANGED <<runs, onToken, onEnv>>
    BY <1>1 DEF InstallReplacement
  <2> QED BY <1>t, <2>1, InstallInSwapTyped DEF SwapCall, Typed, TypeOK
<1>2. CASE \E s \in Sessions :
             /\ Build(s, call.target)
             /\ InstallInSwap(c, call, s, Close(Opened(s), call.built), screen)
  <2> PICK s \in Sessions :
             /\ Build(s, call.target)
             /\ InstallInSwap(c, call, s, Close(Opened(s), call.built), screen)
    BY <1>2
  <2>1. Close(Opened(s), call.built) \in [Sessions -> Procs]
    BY <1>t, OpenedType, CloseType
  <2> QED BY <1>t, <2>1, InstallInSwapTyped, BuildTyped DEF SwapCall
<1>3. CASE /\ slot' = Released("unbuilt")
           /\ After(call, screen)
           /\ wire' = [dormant |-> TRUE, swapping |-> FALSE]
           /\ proc' = Close(proc, call.built)
           /\ SetCall(c, Finished(call))
           /\ UNCHANGED <<consumer, runs, onToken, onEnv>>
  <2>1. caller' \in [Callers -> CallRecords] /\ CallShape'
    BY <1>3, <1>t, CallTypes, SetCallTyped DEF SwapTyped, SwapCall
  <2>2. slot' \in Slots /\ SlotShape'
    BY <1>3, SlotTypes, SlotFields DEF SlotShape, Reasons
  <2>3. proc' \in [Sessions -> Procs]
    BY <1>3, <1>t, CloseType
  <2> QED BY <1>3, <1>t, <2>1, <2>2, <2>3
          DEF After, SwapCall, Typed, TypeOK, Consumers
<1> QED BY <1>1, <1>2, <1>3 DEF InstallReplacement

\* replaceWith up to its first await keeps the types.
LEMMA ReplaceWithTyped ==
  ASSUME Typed, NEW c \in Callers, NEW call, SwapCall(call),
         NEW conv \in ConvOrNone, ReplaceWith(c, call, conv)
  PROVE  Typed'
<1>t. SwapTyped /\ proc \in [Sessions -> Procs] /\ screen \in ConvOrNone
  BY TypedSplit DEF SwapTyped
<1>b. /\ runs' \in [Sessions -> ConvOrNone]
      /\ onToken' \subseteq Sessions
      /\ onEnv' \subseteq Sessions
      /\ wedged' \subseteq Sessions
      /\ aborting' \in BOOLEAN
  BY BuildTyped DEF ReplaceWith, SwapCall, Typed, TypeOK
<1>o. Opened(call.built) \in [Sessions -> Procs]
  BY <1>t, OpenedType DEF SwapCall
<1>1. CASE /\ slot.kind = "swapping"
           /\ SetCall(c, [call EXCEPT !.pc = "waiting"])
           /\ conversationId' = conv
           /\ screen' = Shown(conv)
           /\ proc' = Opened(call.built)
           /\ UNCHANGED <<slot, wire, consumer, turnVars>>
  <2> DEFINE new == [call EXCEPT !.pc = "waiting"]
  <2>1. new \in CallRecords /\ CallOK(new)
    BY DEF SwapCall, CallRecords, CallerStates, CallOK
  <2>2. caller' \in [Callers -> CallRecords] /\ CallShape'
    BY <1>1, <1>t, <2>1, SetCallTyped DEF SwapTyped
  <2>3. SwapTyped'
    BY <1>1, <1>t, <1>o, <2>2
    DEF SwapTyped, SlotShape, TurnsOK, turnVars, Shown, ConvOrNone
  <2> QED BY <1>b, <2>3, TypedAfter
<1>2. CASE RefuseDead(c, call, conv, Opened(call.built))
  BY <1>2, <1>t, <1>b, <1>o, RefuseDeadTyped, TypedAfter
<1>3. CASE TakeLiveSlot(c, call, conv, Opened(call.built))
  BY <1>3, <1>t, <1>b, <1>o, TakeLiveSlotTyped, TypedAfter
<1>4. CASE /\ StartSwap(call, conv)
           /\ InstallInSwap(c, call, call.built, Opened(call.built),
                            Shown(conv))
  <2>1. TurnsOK' /\ conversationId' \in ConvOrNone
    BY <1>4, <1>t, CancelTyped DEF StartSwap, SwapTyped, SwapCall, TurnStates
  <2>2. Shown(conv) \in ConvOrNone
    BY <1>t DEF Shown, ConvOrNone
  <2>3. SwapTyped'
    BY <1>4, <1>t, <1>o, <2>1, <2>2, InstallInSwapTyped
    DEF SwapTyped, SwapCall
  <2> QED BY <1>b, <2>3, TypedAfter
<1> QED BY <1>1, <1>2, <1>3, <1>4 DEF ReplaceWith

-----------------------------------------------------------------------------
(* A release.                                                              *)

\* closeAndDrainSession up to its drain keeps the types.
LEMMA ReleaseTyped ==
  ASSUME SwapTyped, NEW c \in Callers, NEW call \in CallRecords,
         call.op = "release", call.reason \in Reasons,
         Release(c, call),
         conversationId' \in ConvOrNone, screen' \in ConvOrNone,
         consumer' = consumer
  PROVE  SwapTyped'
<1>1. CASE slot.kind = "dead"
  <2>1. caller' \in [Callers -> CallRecords] /\ CallShape'
    BY <1>1, CallTypes, SetCallTyped DEF Release, SwapTyped
  <2> QED BY <1>1, <2>1 DEF Release, SwapTyped, SlotShape, TurnsOK, turnVars
<1>2. CASE slot.kind \in {"live", "released"}
  <2> DEFINE new == [call EXCEPT !.pc = "draining", !.old = slot.session]
  <2>1. slot' \in Slots /\ SlotShape'
    BY <1>2, SlotTypes, SlotFields DEF Release, SlotShape
  <2>2. TurnsOK' /\ proc' \in [Sessions -> Procs]
    BY <1>2, CancelTyped, CloseType DEF Release, SwapTyped, TurnStates
  <2>3. wire' \in [dormant : BOOLEAN, swapping : BOOLEAN]
    BY <1>2 DEF Release, SwapTyped
  <2>4. slot.session # NoSession => new \in CallRecords /\ CallOK(new)
    BY DEF SwapTyped, SlotShape, CallRecords, CallerStates, SessionOrNone,
           CallOK
  <2>5. caller' \in [Callers -> CallRecords] /\ CallShape'
    <3>1. CASE slot.session = NoSession
      BY <1>2, <3>1, CallTypes, SetCallTyped DEF Release, SwapTyped
    <3>2. CASE slot.session # NoSession
      BY <1>2, <3>2, <2>4, SetCallTyped DEF Release, SwapTyped
    <3> QED BY <3>1, <3>2
  <2> QED BY <2>1, <2>2, <2>3, <2>5 DEF SwapTyped
<1> QED BY <1>1, <1>2 DEF Release

-----------------------------------------------------------------------------
(* Type correctness.                                                       *)

\* The initial state is well typed.
LEMMA InitTyped == Init => Typed
<1> SUFFICES ASSUME Init PROVE Typed
  OBVIOUS
<1>1. PICK reason \in {"boot", "fresh", "none"} :
        /\ slot = Released(reason)
        /\ wire = [dormant |-> reason # "none", swapping |-> FALSE]
  BY DEF Init
<1>2. slot \in Slots /\ SlotShape
  BY <1>1, SlotTypes, SlotFields DEF SlotShape, Reasons
<1>3. caller \in [Callers -> CallRecords] /\ CallShape
  BY CallTypes DEF Init, CallShape, CallOK, NoCall
<1> QED BY <1>1, <1>2, <1>3
        DEF Init, Typed, TypeOK, ConvOrNone, TurnStates, SessionOrNone

\* Every call a caller starts keeps the types.
LEMMA CallerStartsTyped ==
  ASSUME Typed, NEW c \in Callers, CallerStarts(c)
  PROVE  Typed'
<1>t. SwapTyped
  BY TypedSplit
<1>n. NoCall \in CallRecords
  BY CallTypes
<1>1. ASSUME NEW s \in Sessions, NEW k \in ConvOrNone, NEW adopt \in BOOLEAN,
             CallReplace(c, s, adopt, k)
      PROVE  Typed'
  <2> DEFINE call == [NoCall EXCEPT !.op = "swap", !.target = k,
                                    !.adopt = adopt, !.built = s]
  <2>1. SwapCall(call)
    <3>1. call \in CallRecords
      BY <1>n DEF CallRecords, AllOps, SessionOrNone
    <3> QED BY <3>1 DEF SwapCall, NoCall
  <2>2. PICK conv \in ConvOrNone : ReplaceWith(c, call, conv)
    BY <1>1 DEF CallReplace, Typed, TypeOK
  <2> QED BY <2>1, <2>2, ReplaceWithTyped
<1>2. ASSUME NEW s \in Sessions, NEW k \in ConvOrNone, MintAndReplace(c, s, k)
      PROVE  Typed'
  <2> DEFINE call == [NoCall EXCEPT !.op = "swap", !.target = k, !.built = s]
  <2>1. SwapCall(call)
    <3>1. call \in CallRecords
      BY <1>n DEF CallRecords, AllOps, SessionOrNone
    <3> QED BY <3>1 DEF SwapCall, NoCall, ConvOrNone
  <2>2. /\ TakeLiveSlot(c, call, conversationId, Opened(s))
        /\ conversationId \in ConvOrNone
        /\ Opened(s) \in [Sessions -> Procs]
    BY <1>2, <1>t, OpenedType DEF MintAndReplace, SwapTyped
  <2>3. SwapTyped'
    BY <1>t, <2>1, <2>2, TakeLiveSlotTyped
  <2> QED BY <1>2, <2>3, TypedAfter DEF MintAndReplace, Typed, TypeOK
<1>3. ASSUME NEW reason \in ReleaseReasons, CallRelease(c, reason)
      PROVE  Typed'
  <2> DEFINE call == [NoCall EXCEPT !.op = "release", !.reason = reason]
  <2>1. call \in CallRecords /\ call.op = "release" /\ call.pc = "idle"
        /\ call.reason = reason
    BY <1>n DEF CallRecords, AllOps, ReleaseReasons, Reasons, NoCall
  <2>2. CASE slot.kind = "swapping"
    <3> DEFINE new == [call EXCEPT !.pc = "waiting"]
    <3>1. new \in CallRecords /\ CallOK(new)
      BY <2>1 DEF CallRecords, CallerStates, CallOK
    <3>2. SetCall(c, new) /\ UNCHANGED <<slot, wire, proc, turnVars>>
      BY <1>3, <2>2 DEF CallRelease, Release
    <3>3. caller' \in [Callers -> CallRecords] /\ CallShape'
      BY <1>t, <3>1, <3>2, SetCallTyped DEF SwapTyped
    <3> QED BY <1>3, <3>2, <3>3
            DEF CallRelease, Typed, TypeOK, SlotShape, turnVars, chatVars,
                ConvOrNone
  <2>3. CASE Release(c, call)
    <3>1. reason \in Reasons /\ proc \in [Sessions -> Procs]
      BY <1>t DEF ReleaseReasons, Reasons, SwapTyped
    <3>2. SwapTyped' BY <1>3, <1>t, <2>1, <2>3, <3>1, ReleaseTyped
      DEF CallRelease, chatVars, SwapTyped, ConvOrNone
    <3> QED BY <1>3, <3>2, TypedAfter DEF CallRelease, Typed, TypeOK
  <2> QED BY <1>3, <2>2, <2>3 DEF CallRelease
<1>4. CASE CallStop(c)
  <2>1. \A p \in {"joining", "denying"}, t \in Turns \cup {NoTurn} :
          [NoCall EXCEPT !.op = "stop", !.pc = p, !.turn = t] \in CallRecords
    BY <1>n DEF CallRecords, CallerStates, AllOps
  <2>2. \A p \in {"joining", "denying"}, t \in Turns \cup {NoTurn} :
          CallOK([NoCall EXCEPT !.op = "stop", !.pc = p, !.turn = t])
    BY DEF CallOK, NoCall
  <2>3. ASSUME pendingTurn # NoTurn, aborting
        PROVE  aborting' \in BOOLEAN /\ caller' \in [Callers -> CallRecords]
               /\ CallShape'
    <3> DEFINE call == [NoCall EXCEPT !.op = "stop", !.pc = "joining"]
    <3>1. call \in CallRecords /\ CallOK(call)
      BY <1>n DEF CallRecords, CallerStates, AllOps, CallOK, NoCall
    <3>2. SetCall(c, call) /\ UNCHANGED aborting
      BY <1>4, <2>3 DEF CallStop
    <3>3. aborting' \in BOOLEAN
      BY <3>2 DEF Typed, TypeOK
    <3> QED BY <1>t, <3>1, <3>2, <3>3, SetCallTyped DEF SwapTyped
  <2>4. ASSUME ~(pendingTurn # NoTurn /\ aborting)
        PROVE  aborting' \in BOOLEAN /\ caller' \in [Callers -> CallRecords]
               /\ CallShape'
    <3> DEFINE call == [NoCall EXCEPT !.op = "stop", !.pc = "denying",
                                      !.turn = pendingTurn]
    <3>1. call \in CallRecords /\ CallOK(call)
      BY <1>t, <2>1, <2>2 DEF SwapTyped, TurnsOK
    <3>2. SetCall(c, call)
      BY <1>4, <2>4 DEF CallStop
    <3>3. aborting' \in BOOLEAN
      BY <1>4, <2>4 DEF CallStop, Typed, TypeOK
    <3> QED BY <1>t, <3>1, <3>2, <3>3, SetCallTyped DEF SwapTyped
  <2>5. TurnsOK'
    BY <1>4, <1>t DEF CallStop, Bumped, SwapTyped, TurnsOK, TurnStates,
                      SessionOrNone
  <2>6. aborting' \in BOOLEAN /\ caller' \in [Callers -> CallRecords]
        /\ CallShape'
    BY <2>3, <2>4
  <2> QED BY <1>4, <2>5, <2>6
          DEF CallStop, Typed, TypeOK, TurnsOK, SlotShape, sessionVars,
              chatVars
<1> QED BY <1>1, <1>2, <1>3, <1>4 DEF CallerStarts

\* Every later step of a call keeps the types.
LEMMA CallerStepTyped ==
  ASSUME Typed, NEW c \in Callers, CallerStep(c)
  PROVE  Typed'
<1>t. SwapTyped /\ caller[c] \in CallRecords /\ CallOK(caller[c])
  BY TypedSplit DEF SwapTyped, CallShape
<1>f. ASSUME NEW call \in CallRecords, CallOK(call), SetCall(c, call),
             UNCHANGED <<slot, wire, chatVars, proc, consumer, turnVars>>
      PROVE  SwapTyped'
  <2>1. caller' \in [Callers -> CallRecords] /\ CallShape'
    BY <1>f, <1>t, SetCallTyped DEF SwapTyped
  <2> QED BY <1>f, <1>t, <2>1
          DEF SwapTyped, SlotShape, TurnsOK, chatVars, turnVars
<1>d. ASSUME NEW pc \in {"hot", "done"}, pc = "hot" => caller[c].op = "stop"
      PROVE  /\ [caller[c] EXCEPT !.pc = pc] \in CallRecords
             /\ CallOK([caller[c] EXCEPT !.pc = pc])
  BY <1>d, <1>t DEF CallRecords, CallerStates, CallOK
<1>1. CASE SwapProceeds(c)
  <2>1. SwapCall(caller[c])
    BY <1>1, <1>t DEF SwapProceeds, SwapCall, CallOK, CallRecords
  <2>2. conversationId \in ConvOrNone /\ proc \in [Sessions -> Procs]
    BY <1>t DEF SwapTyped
  <2>3. CASE /\ RefuseDead(c, caller[c], conversationId, proc)
             /\ UNCHANGED <<runs, onToken, onEnv>>
    <3>1. SwapTyped'
      BY <1>t, <2>1, <2>2, <2>3, RefuseDeadTyped
    <3> QED BY <1>1, <2>3, <3>1, TypedAfter DEF SwapProceeds, Typed, TypeOK
  <2>4. CASE /\ TakeLiveSlot(c, caller[c], conversationId, proc)
             /\ UNCHANGED <<runs, onToken, onEnv>>
    <3>1. SwapTyped'
      BY <1>t, <2>1, <2>2, <2>4, TakeLiveSlotTyped
    <3> QED BY <1>1, <2>4, <3>1, TypedAfter DEF SwapProceeds, Typed, TypeOK
  <2>5. CASE /\ StartSwap(caller[c], conversationId)
             /\ InstallReplacement(c, caller[c])
    <3>1. TurnsOK' /\ conversationId' \in ConvOrNone
      BY <1>t, <2>1, <2>2, <2>5, CancelTyped
      DEF StartSwap, SwapTyped, SwapCall, TurnStates
    <3>2. SwapTyped' /\ runs' \in [Sessions -> ConvOrNone]
          /\ onToken' \subseteq Sessions /\ onEnv' \subseteq Sessions
      BY <2>1, <2>5, <3>1, InstallReplacementTyped DEF SwapTyped
    <3> QED BY <1>1, <3>2, TypedAfter DEF SwapProceeds, Typed, TypeOK
  <2> QED BY <1>1, <2>3, <2>4, <2>5 DEF SwapProceeds
<1>2. CASE SwapDrained(c)
  <2>1. SwapCall(caller[c]) /\ caller[c].old \in Sessions
    BY <1>2, <1>t DEF SwapDrained, DrainOver, SwapCall, CallOK, CallRecords
  <2>2. wedged' \subseteq Sessions
    BY <1>2, <2>1 DEF SwapDrained, DrainOver, Typed, TypeOK
  <2>3. CASE slot.holder = c
    <3>1. InstallReplacement(c, caller[c])
      BY <1>2, <2>3 DEF SwapDrained
    <3>2. SwapTyped' /\ runs' \in [Sessions -> ConvOrNone]
          /\ onToken' \subseteq Sessions /\ onEnv' \subseteq Sessions
      BY <1>2, <1>t, <2>1, <3>1, InstallReplacementTyped
      DEF SwapDrained, SwapTyped, TurnsOK, turnVars
    <3> QED BY <1>2, <2>2, <3>2, TypedAfter DEF SwapDrained, Typed, TypeOK
  <2>4. CASE slot.holder # c
    <3>1. caller' \in [Callers -> CallRecords] /\ CallShape'
      BY <1>2, <1>t, <2>4, CallTypes, SetCallTyped DEF SwapDrained, SwapTyped
    <3>2. proc' \in [Sessions -> Procs]
      BY <1>2, <1>t, <2>4, CloseType DEF SwapDrained, SwapTyped
    <3>3. SwapTyped'
      BY <1>2, <1>t, <2>4, <3>1, <3>2
      DEF SwapDrained, SwapTyped, SlotShape, TurnsOK, turnVars
    <3> QED BY <1>2, <2>2, <2>4, <3>3, TypedAfter
            DEF SwapDrained, Typed, TypeOK
  <2> QED BY <2>3, <2>4
<1>3. CASE ReleaseProceeds(c)
  <2>1. SwapTyped'
    BY <1>3, <1>t, ReleaseTyped
    DEF ReleaseProceeds, CallRecords, SwapTyped, chatVars
  <2> QED BY <1>3, <2>1, TypedAfter DEF ReleaseProceeds, Typed, TypeOK
<1>4. CASE ReleaseDrained(c)
  <2>1. wedged' \subseteq Sessions
    BY <1>4, <1>t DEF ReleaseDrained, DrainOver, CallOK, Typed, TypeOK
  <2>2. SwapTyped'
    BY <1>4, <1>t, <1>f, CallTypes DEF ReleaseDrained
  <2> QED BY <1>4, <2>1, <2>2, TypedAfter DEF ReleaseDrained, Typed, TypeOK
<1>5. CASE \/ StopNothing(c) \/ StopHotSettled(c) \/ StopBuildThrows(c)
  <2>1. SetCall(c, Finished(caller[c]))
        /\ UNCHANGED <<slot, wire, chatVars, sessionVars, turnVars, aborting>>
    BY <1>5 DEF StopNothing, StopHotSettled, StopBuildThrows
  <2>2. SwapTyped'
    BY <1>t, <1>f, <2>1, CallTypes DEF sessionVars
  <2> QED BY <2>1, <2>2, TypedAfter DEF sessionVars, Typed, TypeOK
<1>6. CASE StopHot(c)
  <2>1. SwapTyped'
    BY <1>6, <1>t, <1>f, <1>d DEF StopHot, sessionVars, CallOK
  <2> QED BY <1>6, <2>1, TypedAfter DEF StopHot, sessionVars, Typed, TypeOK
<1>7. ASSUME NEW s \in Sessions, NEW k \in ConvOrNone, StopReplaces(c, s, k)
      PROVE  Typed'
  <2> DEFINE call == [caller[c] EXCEPT !.target = k, !.built = s]
  <2>1. call \in CallRecords
    BY <1>t DEF CallRecords, SessionOrNone
  <2>2. call.built = s /\ call.op = caller[c].op
    BY <1>t DEF CallRecords
  <2>3. SwapCall(call)
    BY <1>7, <1>t, <2>1, <2>2 DEF SwapCall, StopReplaces, CallOK, CallRecords
  <2> QED BY <1>7, <2>3, ReplaceWithTyped DEF StopReplaces
<1>8. CASE StopDone(c) \/ StopJoined(c)
  <2>1. SwapTyped'
    BY <1>8, <1>t, <1>f, <1>d DEF StopDone, StopJoined, sessionVars
  <2> QED BY <1>8, <2>1, TypedAfter
          DEF StopDone, StopJoined, sessionVars, Typed, TypeOK
<1> QED BY <1>1, <1>2, <1>3, <1>4, <1>5, <1>6, <1>7, <1>8 DEF CallerStep

\* installSession, into a released slot or refused, keeps the types.
LEMMA InstallTyped ==
  ASSUME Typed, NEW s \in Sessions, NEW k \in ConvOrNone, InstallSession(s, k)
  PROVE  Typed'
<1>1. /\ Opened(s) \in [Sessions -> Procs]
      /\ Close(Opened(s), s) \in [Sessions -> Procs]
  BY OpenedType, CloseType, TypedSplit DEF SwapTyped
<1>2. proc' \in [Sessions -> Procs]
  BY <1>1 DEF InstallSession
<1>3. slot' \in Slots /\ SlotShape'
  BY SlotTypes, SlotFields DEF InstallSession, SlotShape, Typed, TypeOK
<1>4. consumer' \in [Sessions -> Consumers]
  BY DEF InstallSession, StartConsumer, Typed, TypeOK, Consumers
<1>5. conversationId' \in ConvOrNone /\ screen' \in ConvOrNone
  BY DEF InstallSession, Shown, Typed, TypeOK, chatVars, ConvOrNone
<1>6. wire' \in [dormant : BOOLEAN, swapping : BOOLEAN]
  BY DEF InstallSession, Typed, TypeOK
<1> QED BY <1>2, <1>3, <1>4, <1>5, <1>6, BuildTyped
        DEF InstallSession, Typed, TypeOK, CallShape, turnVars, Procs,
            Consumers

\* What a backend's stream reports keeps the types.
LEMMA BackendTyped ==
  ASSUME Typed, NEW s \in Sessions, BackendStep(s)
  PROVE  Typed'
<1>t. TurnsOK
  BY DEF Typed, TypeOK, TurnsOK
<1>1. CASE StreamEnds(s)
  <2>1. TurnsOK'
    BY <1>1, <1>t, CancelTyped
    DEF StreamEnds, TurnsOK, turnVars, TurnStates
  <2>2. slot' \in Slots /\ SlotShape'
    BY <1>1, SlotTypes, SlotFields
    DEF StreamEnds, SlotShape, Typed, TypeOK, Reasons
  <2>3. wire' \in [dormant : BOOLEAN, swapping : BOOLEAN]
    BY <1>1 DEF StreamEnds, Typed, TypeOK
  <2> QED BY <1>1, <2>1, <2>2, <2>3
          DEF StreamEnds, Typed, TypeOK, TurnsOK, CallShape, chatVars
<1>2. CASE StreamThrows(s)
  <2>1. TurnsOK'
    BY <1>2, <1>t, SettleTyped
    DEF StreamThrows, TurnsOK, turnVars, TurnStates
  <2> QED BY <1>2, <2>1
          DEF StreamThrows, Typed, TypeOK, TurnsOK, SlotShape, CallShape,
              chatVars
<1>3. ASSUME NEW outcome \in {"ok", "failed"}, TurnEnds(s, outcome)
      PROVE  Typed'
  <2>1. TurnsOK'
    BY <1>3, <1>t, SettleTyped DEF TurnEnds, TurnStates
  <2> QED BY <1>3, <2>1
          DEF TurnEnds, Typed, TypeOK, TurnsOK, SlotShape, CallShape,
              chatVars, sessionVars
<1>4. ASSUME NEW k \in Convs, SystemInit(s, k)
      PROVE  Typed'
  BY <1>4 DEF SystemInit, Typed, TypeOK, SlotShape, CallShape, turnVars,
              ConvOrNone
<1> QED BY <1>1, <1>2, <1>3, <1>4 DEF BackendStep

\* Every step of runAgentTurn keeps the types.
LEMMA TurnTyped ==
  ASSUME Typed, NEW t \in Turns, TurnStep(t)
  PROVE  Typed'
<1>t. TurnsOK /\ slot.session \in SessionOrNone
  BY DEF Typed, TypeOK, TurnsOK, Slots
<1>1. TurnsOK'
  <2>1. CASE BeginTurn(t)
    BY <2>1, <1>t DEF BeginTurn, TurnsOK, TurnStates
  <2>2. CASE BailTurn(t)
    BY <2>2, <1>t DEF BailTurn, TurnsOK, TurnStates
  <2>3. CASE SendTurn(t)
    BY <2>3, <1>t DEF SendTurn, TurnsOK, TurnStates, SessionOrNone
  <2>4. CASE SendThrows(t)
    BY <2>4, <1>t, SettleTyped DEF SendThrows, TurnStates
  <2> QED BY <2>1, <2>2, <2>3, <2>4 DEF TurnStep
<1>2. UNCHANGED <<slot, wire, chatVars, sessionVars, caller, aborting>>
  BY DEF TurnStep, BeginTurn, BailTurn, SendTurn, SendThrows
<1> QED BY <1>1, <1>2
        DEF Typed, TypeOK, TurnsOK, SlotShape, CallShape, chatVars, sessionVars

\* kill, envChanged and the mints keep the types.
LEMMA OtherTyped ==
  ASSUME Typed, Kill \/ EnvChanged \/ MintToken \/ MintBuildThrows
  PROVE  Typed'
<1>1. CASE Kill
  <2>1. TurnsOK' /\ proc' \in [Sessions -> Procs]
    BY <1>1, CancelTyped, CloseType
    DEF Kill, Typed, TypeOK, TurnsOK, TurnStates, Procs
  <2>2. slot' \in Slots /\ SlotShape'
    BY <1>1, SlotTypes, SlotFields DEF Kill, SlotShape
  <2> QED BY <1>1, <2>1, <2>2
          DEF Kill, Typed, TypeOK, TurnsOK, CallShape, chatVars, Procs
<1>2. CASE EnvChanged
  <2>1. /\ slot' \in Slots
        /\ slot'.kind = slot.kind
        /\ slot'.session = slot.session
        /\ slot'.holder = slot.holder
    BY <1>2 DEF EnvChanged, Typed, TypeOK, Slots
  <2> QED BY <1>2, <2>1
          DEF EnvChanged, Typed, TypeOK, SlotShape, CallShape, chatVars,
              turnVars
<1>3. CASE MintToken \/ MintBuildThrows
  BY <1>3 DEF MintToken, MintBuildThrows, Typed, TypeOK, SlotShape, CallShape,
              chatVars, turnVars
<1> QED BY <1>1, <1>2, <1>3

\* Typed is inductive.
LEMMA NextTyped == Typed /\ [Next]_vars => Typed'
<1> SUFFICES ASSUME Typed, [Next]_vars PROVE Typed'
  OBVIOUS
<1>1. CASE Next
  BY <1>1, CallerStartsTyped, CallerStepTyped, InstallTyped, BackendTyped,
     TurnTyped, OtherTyped
  DEF Next
<1>2. CASE UNCHANGED vars
  BY <1>2 DEF vars, sessionVars, turnVars, chatVars, Typed, TypeOK, SlotShape,
              CallShape
<1> QED BY <1>1, <1>2

\* Every state of the session manager is well typed: a slot holds what its kind
\* says, and a call in flight still has its replacement and its old process.
THEOREM TypeCorrect == Spec => []TypeOK
<1>1. Typed => TypeOK
  BY DEF Typed
<1> QED BY <1>1, InitTyped, NextTyped, PTL DEF Spec

-----------------------------------------------------------------------------
(* Turns follow the slot.                                                  *)

TurnsFollow == NoStrandedTurn /\ PresendKeepsSession

\* How a turn can end.
Outcomes == {"ok", "swapped", "failed", "killed"}

\* Whoever cancels the turns may do with the slot what he likes.
LEMMA TurnsCancelled ==
  ASSUME TurnsOK, TurnsFollow, NEW outcome \in Outcomes, CancelTurns(outcome)
  PROVE  TurnsFollow'
BY DEF TurnsOK, TurnsFollow, NoStrandedTurn, PresendKeepsSession, Outcomes,
       CancelTurns, BumpedAndSettled

\* A slot with no process has no turn that depends on it.
LEMMA TurnsAside ==
  ASSUME Typed, TurnsFollow, slot.kind # "live", UNCHANGED turnVars
  PROVE  TurnsFollow'
BY DEF Typed, SlotShape, TurnsFollow, NoStrandedTurn, PresendKeepsSession,
       turnVars

\* Settling the installed turn is safe while the slot keeps its process.
LEMMA TurnsSettled ==
  ASSUME TurnsOK, TurnsFollow, NEW outcome \in Outcomes, SettleTurn(outcome),
         UNCHANGED slot
  PROVE  TurnsFollow'
BY DEF TurnsOK, TurnsFollow, NoStrandedTurn, PresendKeepsSession, Outcomes,
       SettleTurn

\* So is leaving both alone.
LEMMA TurnsKept ==
  ASSUME TurnsFollow, UNCHANGED turnVars,
         slot'.kind = slot.kind, slot'.session = slot.session
  PROVE  TurnsFollow'
BY DEF TurnsFollow, NoStrandedTurn, PresendKeepsSession, turnVars

\* replaceWith cancels the turns when it takes the slot, and leaves them alone
\* when it waits or finds the agent killed.
LEMMA ReplaceWithFollows ==
  ASSUME Typed, TurnsFollow, NEW c \in Callers, NEW call, NEW conv,
         ReplaceWith(c, call, conv)
  PROVE  TurnsFollow'
<1>t. TurnsOK
  BY DEF Typed, TypeOK, TurnsOK
<1>1. CASE UNCHANGED <<slot, wire, consumer, turnVars>>
  BY <1>1, TurnsKept
<1>2. CASE CancelTurns("swapped")
  BY <1>2, <1>t, TurnsCancelled DEF Outcomes
<1> QED BY <1>1, <1>2
        DEF ReplaceWith, RefuseDead, TakeLiveSlot, StartSwap

\* A release does the same.
LEMMA ReleaseFollows ==
  ASSUME Typed, TurnsFollow, NEW c, NEW call, Release(c, call)
  PROVE  TurnsFollow'
<1>t. TurnsOK
  BY DEF Typed, TypeOK, TurnsOK
<1>1. CASE UNCHANGED <<slot, wire, proc, turnVars>>
  BY <1>1, TurnsKept
<1>2. CASE CancelTurns("swapped")
  BY <1>2, <1>t, TurnsCancelled DEF Outcomes
<1> QED BY <1>1, <1>2 DEF Release

\* A call's start, one case per operation.
LEMMA CallerStartsFollows ==
  ASSUME Typed, TurnsFollow, NEW c \in Callers, CallerStarts(c)
  PROVE  TurnsFollow'
<1>t. TurnsOK
  BY DEF Typed, TypeOK, TurnsOK
<1>1. ASSUME NEW s \in Sessions, NEW k \in ConvOrNone, NEW adopt \in BOOLEAN,
             CallReplace(c, s, adopt, k)
      PROVE  TurnsFollow'
  BY <1>1, ReplaceWithFollows DEF CallReplace
<1>2. ASSUME NEW s \in Sessions, NEW k \in ConvOrNone, MintAndReplace(c, s, k)
      PROVE  TurnsFollow'
  <2>1. CancelTurns("swapped")
    BY <1>2 DEF MintAndReplace, TakeLiveSlot, StartSwap
  <2> QED BY <1>t, <2>1, TurnsCancelled DEF Outcomes
<1>3. ASSUME NEW reason \in ReleaseReasons, CallRelease(c, reason)
      PROVE  TurnsFollow'
  <2>1. CASE UNCHANGED <<slot, wire, proc, turnVars>>
    BY <2>1, TurnsKept
  <2>2. CASE Release(c, [NoCall EXCEPT !.op = "release", !.reason = reason])
    BY <2>2, ReleaseFollows
  <2> QED BY <1>3, <2>1, <2>2 DEF CallRelease
<1>4. CASE CallStop(c)
  BY <1>4, <1>t DEF CallStop, Bumped, TurnsOK, TurnsFollow, NoStrandedTurn,
                    PresendKeepsSession
<1> QED BY <1>1, <1>2, <1>3, <1>4 DEF CallerStarts

\* A call's later steps. A swap that installs finds no turn to strand: the slot
\* had no process since its start.
LEMMA CallerStepFollows ==
  ASSUME Typed, TurnsFollow, NEW c \in Callers, CallerStep(c)
  PROVE  TurnsFollow'
<1>t. TurnsOK
  BY DEF Typed, TypeOK, TurnsOK
<1>1. CASE SwapProceeds(c)
  <2>1. CASE UNCHANGED <<slot, wire, consumer, turnVars>>
    BY <2>1, TurnsKept
  <2>2. CASE CancelTurns("swapped")
    BY <1>t, <2>2, TurnsCancelled DEF Outcomes
  <2> QED BY <1>1, <2>1, <2>2
          DEF SwapProceeds, RefuseDead, TakeLiveSlot, StartSwap
<1>2. CASE SwapDrained(c)
  <2>1. CASE slot.holder = c
    <3>1. slot.kind # "live"
      BY <2>1, NullsAssumption DEF Typed, SlotShape
    <3> QED BY <1>2, <3>1, TurnsAside DEF SwapDrained
  <2>2. CASE slot.holder # c
    BY <1>2, <2>2, TurnsKept DEF SwapDrained
  <2> QED BY <2>1, <2>2
<1>3. CASE ReleaseProceeds(c)
  BY <1>3, ReleaseFollows DEF ReleaseProceeds
<1>4. ASSUME NEW s \in Sessions, NEW k \in ConvOrNone, StopReplaces(c, s, k)
      PROVE  TurnsFollow'
  BY <1>4, ReplaceWithFollows DEF StopReplaces
<1>5. CASE UNCHANGED <<slot, turnVars>>
  BY <1>5, TurnsKept
<1> QED BY <1>1, <1>2, <1>3, <1>4, <1>5
        DEF CallerStep, ReleaseDrained, StopNothing, StopHot, StopHotSettled,
            StopBuildThrows, StopDone, StopJoined

\* Every step keeps the turns behind the slot.
LEMMA NextFollows == Typed /\ TurnsFollow /\ [Next]_vars => TurnsFollow'
<1> SUFFICES ASSUME Typed, TurnsFollow, [Next]_vars PROVE TurnsFollow'
  OBVIOUS
<1>t. TurnsOK
  BY DEF Typed, TypeOK, TurnsOK
<1>1. ASSUME NEW s \in Sessions, BackendStep(s)
      PROVE  TurnsFollow'
  <2>1. CASE StreamEnds(s)
    <3>1. CASE CancelTurns("failed")
      BY <1>t, <3>1, TurnsCancelled DEF Outcomes
    <3>2. CASE UNCHANGED <<slot, wire, turnVars>>
      BY <3>2, TurnsKept
    <3> QED BY <2>1, <3>1, <3>2 DEF StreamEnds
  <2>2. CASE StreamThrows(s)
    <3>1. CASE SettleTurn("failed")
      BY <1>t, <2>2, <3>1, TurnsSettled DEF Outcomes, StreamThrows
    <3>2. CASE UNCHANGED turnVars
      BY <2>2, <3>2, TurnsKept DEF StreamThrows
    <3> QED BY <2>2, <3>1, <3>2 DEF StreamThrows
  <2>3. ASSUME NEW outcome \in {"ok", "failed"}, TurnEnds(s, outcome)
        PROVE  TurnsFollow'
    BY <1>t, <2>3, TurnsSettled DEF Outcomes, TurnEnds
  <2>4. ASSUME NEW k \in Convs, SystemInit(s, k)
        PROVE  TurnsFollow'
    BY <2>4, TurnsKept DEF SystemInit
  <2> QED BY <1>1, <2>1, <2>2, <2>3, <2>4 DEF BackendStep
<1>2. ASSUME NEW s \in Sessions, NEW k \in ConvOrNone, InstallSession(s, k)
      PROVE  TurnsFollow'
  <2>1. CASE slot.kind = "released"
    BY <1>2, <2>1, TurnsAside DEF InstallSession
  <2>2. CASE slot.kind # "released"
    BY <1>2, <2>2, TurnsKept DEF InstallSession
  <2> QED BY <2>1, <2>2
<1>3. ASSUME NEW t \in Turns, TurnStep(t)
      PROVE  TurnsFollow'
  <2>1. CASE BeginTurn(t)
    BY <1>t, <2>1 DEF BeginTurn, TurnsOK, TurnsFollow, NoStrandedTurn,
                      PresendKeepsSession
  <2>2. CASE BailTurn(t)
    BY <1>t, <2>2 DEF BailTurn, TurnsOK, TurnsFollow, NoStrandedTurn,
                      PresendKeepsSession
  <2>3. CASE SendTurn(t)
    <3>1. slot.session # NoSession => slot.kind = "live"
      BY DEF Typed, SlotShape
    <3> QED BY <1>t, <2>3, <3>1
            DEF SendTurn, TurnsOK, TurnsFollow, NoStrandedTurn,
                PresendKeepsSession
  <2>4. CASE SendThrows(t)
    BY <1>t, <2>4, TurnsSettled DEF Outcomes, SendThrows
  <2> QED BY <1>3, <2>1, <2>2, <2>3, <2>4 DEF TurnStep
<1>4. CASE Kill
  BY <1>t, <1>4, TurnsCancelled DEF Kill, Outcomes
<1>5. CASE EnvChanged
  <2>1. slot'.kind = slot.kind /\ slot'.session = slot.session
    BY <1>5 DEF EnvChanged, Typed, TypeOK, Slots
  <2> QED BY <1>5, <2>1, TurnsKept DEF EnvChanged
<1>6. CASE MintToken \/ MintBuildThrows
  BY <1>6, TurnsKept DEF MintToken, MintBuildThrows
<1>7. CASE UNCHANGED vars
  BY <1>7, TurnsKept DEF vars
<1> QED BY <1>1, <1>2, <1>3, <1>4, <1>5, <1>6, <1>7, CallerStartsFollows,
           CallerStepFollows
        DEF Next

\* Typed holds in every reachable state.
LEMMA AlwaysTyped == Spec => []Typed
BY InitTyped, NextTyped, PTL DEF Spec

\* The initial state has no turn.
LEMMA InitFollows == Init => TurnsFollow
BY DEF Init, TurnsFollow, NoStrandedTurn, PresendKeepsSession

\* No turn waits on a process that left the slot (its deferred would never
\* settle): every close settles the installed turn (teardown, kill, consume).
THEOREM NoTurnStranded == Spec => []NoStrandedTurn
<1>1. TurnsFollow => NoStrandedTurn
  BY DEF TurnsFollow
<1> QED BY <1>1, InitFollows, NextFollows, AlwaysTyped, PTL DEF Spec

\* No turn that may still send outlives the session it saw at its entry: every
\* close moves the cancel token (turnCancelToken, checkCancelled).
THEOREM PresendSafe == Spec => []PresendKeepsSession
<1>1. TurnsFollow => PresendKeepsSession
  BY DEF TurnsFollow
<1> QED BY <1>1, InitFollows, NextFollows, AlwaysTyped, PTL DEF Spec

-----------------------------------------------------------------------------
(* The lock has one holder, and no process leaks.                          *)

Guarded == SwapLock /\ NoLeakedProcess

\* A call that will install or close its replacement, and one that holds (or
\* held, before a kill) the lock.
Carries(call) == call.pc \in {"waiting", "draining"} /\ call.op # "release"
Drains(call) == call.pc = "draining" /\ call.op # "release"

\* A step that opens no process.
OpensNone == \A x \in Sessions : proc'[x] = "open" => proc[x] = "open"

\* Two calls are told apart after one of them moved.
LEMMA CallsAfter ==
  ASSUME caller \in [Callers -> CallRecords], NEW c \in Callers, NEW call,
         SetCall(c, call)
  PROVE  /\ caller'[c] = call
         /\ \A d \in Callers : d # c => caller'[d] = caller[d]
BY DEF SetCall

\* The invariants in terms of Carries and Drains.
LEMMA GuardedSplit ==
  Guarded <=>
    /\ slot.kind = "swapping" =>
         slot.holder \in Callers /\ Drains(caller[slot.holder])
    /\ \A c \in Callers : Drains(caller[c]) =>
         slot.holder = c \/ slot.kind = "dead"
    /\ \A s \in Sessions : proc[s] = "open" =>
         \/ slot.session = s
         \/ \E c \in Callers : Carries(caller[c]) /\ caller[c].built = s
BY DEF Guarded, SwapLock, NoLeakedProcess, HoldsReplacement, Carries, Drains

\* The same, after a step.
LEMMA GuardedAfter ==
  ASSUME slot'.kind = "swapping" =>
           slot'.holder \in Callers /\ Drains(caller'[slot'.holder]),
         \A c \in Callers : Drains(caller'[c]) =>
           slot'.holder = c \/ slot'.kind = "dead",
         \A s \in Sessions : proc'[s] = "open" =>
           \/ slot'.session = s
           \/ \E c \in Callers : Carries(caller'[c]) /\ caller'[c].built = s
  PROVE  Guarded'
BY DEF Guarded, SwapLock, NoLeakedProcess, HoldsReplacement, Carries, Drains

\* Nobody drains a swap while the slot is live or released.
LEMMA FreeLock ==
  ASSUME Typed, Guarded, slot.kind \in {"live", "released"}
  PROVE  \A c \in Callers : ~Drains(caller[c])
BY GuardedSplit, NullsAssumption DEF Typed, SlotShape

\* A step of a call that carries no replacement, before or after, with the slot
\* left alone.
LEMMA GuardedQuiet ==
  ASSUME Typed, Guarded, NEW c \in Callers, NEW call, SetCall(c, call),
         ~Carries(caller[c]), ~Carries(call), UNCHANGED slot, OpensNone
  PROVE  Guarded'
<1>1. caller'[c] = call /\ \A d \in Callers : d # c => caller'[d] = caller[d]
  BY CallsAfter DEF Typed, TypeOK
<1>2. ~Drains(caller[c]) /\ ~Drains(call)
  BY DEF Carries, Drains
<1> QED BY <1>1, <1>2, GuardedSplit, GuardedAfter DEF OpensNone

\* A step of no call, with the slot left alone.
LEMMA GuardedKept ==
  ASSUME Guarded, UNCHANGED caller, OpensNone, slot'.kind = slot.kind,
         slot'.holder = slot.holder, slot'.session = slot.session
  PROVE  Guarded'
BY GuardedSplit, GuardedAfter DEF OpensNone

\* A finished call carries nothing.
LEMMA FinishedCarries ==
  ASSUME NEW call \in CallRecords
  PROVE  ~Carries(Finished(call))
BY CallTypes DEF Carries

\* A swap takes the lock: the process it closes is the one the slot bound, and
\* its replacement stays with it.
LEMMA TakeLiveSlotGuards ==
  ASSUME Typed, Guarded, NEW c \in Callers, NEW call, SwapCall(call),
         NEW conv, NEW table \in [Sessions -> Procs],
         \A x \in Sessions :
           table[x] = "open" => proc[x] = "open" \/ x = call.built,
         Carries(caller[c]) => caller[c].built = call.built,
         TakeLiveSlot(c, call, conv, table)
  PROVE  Guarded'
<1> DEFINE new == [call EXCEPT !.pc = "draining", !.old = slot.session]
<1>1. new.pc = "draining" /\ new.op = call.op /\ new.built = call.built
  BY DEF SwapCall, CallRecords
<1>2. Drains(new) /\ Carries(new)
  BY <1>1 DEF Drains, Carries, SwapCall
<1>3. caller'[c] = new /\ \A d \in Callers : d # c => caller'[d] = caller[d]
  BY CallsAfter DEF TakeLiveSlot, Typed, TypeOK
<1>4. slot'.kind = "swapping" /\ slot'.holder = c
  BY SlotFields DEF TakeLiveSlot
<1>5. \A d \in Callers : ~Drains(caller[d])
  BY FreeLock DEF TakeLiveSlot
<1>6. \A x \in Sessions : proc'[x] = "open" =>
        x # slot.session /\ (proc[x] = "open" \/ x = call.built)
  BY CloseType DEF TakeLiveSlot
<1>7. \A x \in Sessions : proc'[x] = "open" =>
        \E d \in Callers : Carries(caller'[d]) /\ caller'[d].built = x
  <2> HIDE DEF new
  <2> TAKE x \in Sessions
  <2> HAVE proc'[x] = "open"
  <2>1. CASE x = call.built
    BY <1>1, <1>2, <1>3, <2>1
  <2>2. CASE x # call.built
    <3>1. proc[x] = "open" /\ slot.session # x
      BY <1>6, <2>2
    <3>2. PICK d \in Callers : Carries(caller[d]) /\ caller[d].built = x
      BY <3>1, GuardedSplit
    <3>3. caller'[d] = caller[d]
      BY <1>3, <2>2, <3>2
    <3> QED BY <3>2, <3>3
  <2> QED BY <2>1, <2>2
<1> QED BY <1>2, <1>3, <1>4, <1>5, <1>7, GuardedAfter

\* A swap that finds the agent killed closes its replacement.
LEMMA RefuseDeadGuards ==
  ASSUME Typed, Guarded, NEW c \in Callers, NEW call, SwapCall(call),
         NEW conv, NEW table \in [Sessions -> Procs],
         \A x \in Sessions :
           table[x] = "open" => proc[x] = "open" \/ x = call.built,
         Carries(caller[c]) => caller[c].built = call.built,
         RefuseDead(c, call, conv, table)
  PROVE  Guarded'
<1>1. caller'[c] = Finished(call)
      /\ \A d \in Callers : d # c => caller'[d] = caller[d]
  BY CallsAfter DEF RefuseDead, Typed, TypeOK
<1>2. ~Carries(Finished(call)) /\ ~Drains(Finished(call))
  BY FinishedCarries DEF SwapCall, Carries, Drains
<1>3. \A x \in Sessions : proc'[x] = "open" =>
        x # call.built /\ proc[x] = "open"
  BY CloseType DEF RefuseDead
<1> QED BY <1>1, <1>2, <1>3, GuardedSplit, GuardedAfter DEF RefuseDead

\* A call leaves a slot that nobody else drains: it installs `s`, or nothing.
LEMMA InstallGuards ==
  ASSUME Typed, Guarded, NEW c \in Callers, NEW call, SwapCall(call),
         Carries(caller[c]) => caller[c].built = call.built,
         slot.session = NoSession,
         \A d \in Callers : d # c => ~Drains(caller[d]),
         SetCall(c, Finished(call)),
         slot'.kind # "swapping",
         \A x \in Sessions : proc'[x] = "open" =>
           x = slot'.session \/ (proc[x] = "open" /\ x # call.built)
  PROVE  Guarded'
<1>1. caller'[c] = Finished(call)
      /\ \A d \in Callers : d # c => caller'[d] = caller[d]
  BY CallsAfter DEF Typed, TypeOK
<1>2. ~Carries(Finished(call)) /\ ~Drains(Finished(call))
  BY FinishedCarries DEF SwapCall, Carries, Drains
<1>3. \A d \in Callers : ~Drains(caller'[d])
  BY <1>1, <1>2
<1>4. \A x \in Sessions : proc[x] = "open" =>
        \E d \in Callers : Carries(caller[d]) /\ caller[d].built = x
  BY GuardedSplit, NullsAssumption
<1>5. \A x \in Sessions : proc'[x] = "open" =>
        \/ slot'.session = x
        \/ \E d \in Callers : Carries(caller'[d]) /\ caller'[d].built = x
  BY <1>1, <1>4
<1> QED BY <1>3, <1>5, GuardedAfter

\* currentReplacement installs the built process, or closes it.
LEMMA InstallReplacementGuards ==
  ASSUME Typed, Guarded, NEW c \in Callers, NEW call, SwapCall(call),
         Carries(caller[c]) => caller[c].built = call.built,
         slot.session = NoSession,
         \A d \in Callers : d # c => ~Drains(caller[d]),
         InstallReplacement(c, call)
  PROVE  Guarded'
<1>t. proc \in [Sessions -> Procs] /\ call.built \in Sessions
  BY TypedSplit DEF SwapTyped, SwapCall
<1>1. CASE InstallInSwap(c, call, call.built, proc, screen)
  <2>1. /\ SetCall(c, Finished(call))
        /\ slot'.kind # "swapping" /\ slot'.session = call.built
        /\ proc' = proc
    BY <1>1, SlotFields DEF InstallInSwap
  <2> QED BY <2>1, InstallGuards
<1>2. ASSUME NEW s \in Sessions, Build(s, call.target),
             InstallInSwap(c, call, s, Close(Opened(s), call.built), screen)
      PROVE  Guarded'
  <2>1. /\ SetCall(c, Finished(call))
        /\ slot'.kind # "swapping" /\ slot'.session = s
        /\ proc' = Close(Opened(s), call.built)
    BY <1>2, SlotFields DEF InstallInSwap
  <2>2. Opened(s) \in [Sessions -> Procs]
    BY <1>t, OpenedType
  <2>3. \A x \in Sessions : proc'[x] = "open" =>
          x = s \/ (proc[x] = "open" /\ x # call.built)
    BY <1>t, <2>1, <2>2, OpenedType, CloseType
  <2> QED BY <2>1, <2>3, InstallGuards
<1>3. CASE /\ slot' = Released("unbuilt")
           /\ proc' = Close(proc, call.built)
           /\ SetCall(c, Finished(call))
  <2>1. slot'.kind # "swapping"
    BY <1>3, SlotFields
  <2>2. \A x \in Sessions : proc'[x] = "open" =>
          proc[x] = "open" /\ x # call.built
    BY <1>t, <1>3, CloseType
  <2> QED BY <1>3, <2>1, <2>2, InstallGuards
<1> QED BY <1>1, <1>2, <1>3 DEF InstallReplacement

\* replaceWith: its replacement waits, is refused, takes the lock or goes in.
LEMMA ReplaceWithGuards ==
  ASSUME Typed, Guarded, NEW c \in Callers, NEW call, SwapCall(call),
         NEW conv, ~Carries(caller[c]), ReplaceWith(c, call, conv)
  PROVE  Guarded'
<1>t. proc \in [Sessions -> Procs] /\ call.built \in Sessions
  BY TypedSplit DEF SwapTyped, SwapCall
<1>o. /\ Opened(call.built) \in [Sessions -> Procs]
      /\ \A x \in Sessions : Opened(call.built)[x] = "open" =>
           proc[x] = "open" \/ x = call.built
  BY <1>t, OpenedType
<1>1. CASE /\ slot.kind = "swapping"
           /\ SetCall(c, [call EXCEPT !.pc = "waiting"])
           /\ proc' = Opened(call.built)
           /\ UNCHANGED slot
  <2> DEFINE new == [call EXCEPT !.pc = "waiting"]
  <2>1. new.pc = "waiting" /\ new.op = call.op /\ new.built = call.built
    BY DEF SwapCall, CallRecords
  <2>2. Carries(new) /\ ~Drains(new) /\ ~Drains(caller[c])
    BY <2>1 DEF Carries, Drains, SwapCall
  <2>3. caller'[c] = new /\ \A d \in Callers : d # c => caller'[d] = caller[d]
    BY <1>1, CallsAfter DEF Typed, TypeOK
  <2> HIDE DEF new
  <2>4. ASSUME NEW x \in Sessions, proc'[x] = "open", slot.session # x
        PROVE  \E d \in Callers : Carries(caller'[d]) /\ caller'[d].built = x
    <3>1. CASE x = call.built
      BY <2>1, <2>2, <2>3, <3>1
    <3>2. CASE x # call.built
      <4>1. PICK d \in Callers : Carries(caller[d]) /\ caller[d].built = x
        BY <1>1, <1>o, <2>4, <3>2, GuardedSplit
      <4> QED BY <2>3, <4>1
    <3> QED BY <3>1, <3>2
  <2>5. slot.holder \in Callers /\ Drains(caller[slot.holder])
    BY <1>1, GuardedSplit
  <2>6. Drains(caller'[slot.holder])
    BY <2>2, <2>3, <2>5
  <2>7. \A d \in Callers : Drains(caller'[d]) => slot.holder = d
                                              \/ slot.kind = "dead"
    BY <2>2, <2>3, GuardedSplit
  <2> QED BY <1>1, <2>4, <2>5, <2>6, <2>7, GuardedAfter
<1>2. CASE RefuseDead(c, call, conv, Opened(call.built))
  BY <1>2, <1>o, RefuseDeadGuards
<1>3. CASE TakeLiveSlot(c, call, conv, Opened(call.built))
  BY <1>3, <1>o, TakeLiveSlotGuards
<1>4. CASE /\ slot.kind = "released"
           /\ InstallInSwap(c, call, call.built, Opened(call.built),
                            Shown(conv))
  <2>1. /\ SetCall(c, Finished(call))
        /\ slot'.kind # "swapping" /\ slot'.session = call.built
        /\ proc' = Opened(call.built)
    BY <1>4, SlotFields DEF InstallInSwap
  <2>2. slot.session = NoSession /\ \A d \in Callers : ~Drains(caller[d])
    BY <1>4, FreeLock DEF Typed, SlotShape
  <2> QED BY <1>o, <2>1, <2>2, InstallGuards
<1> QED BY <1>1, <1>2, <1>3, <1>4 DEF ReplaceWith

\* A release: it closes what the slot bound, and its own drain needs no lock.
LEMMA ReleaseGuards ==
  ASSUME Typed, Guarded, NEW c \in Callers, NEW call \in CallRecords,
         call.op = "release", ~Carries(caller[c]), Release(c, call)
  PROVE  Guarded'
<1>t. proc \in [Sessions -> Procs]
  BY TypedSplit DEF SwapTyped
<1>f. ~Carries(Finished(call))
  BY FinishedCarries
<1>1. CASE slot.kind = "dead"
  BY <1>1, <1>f, GuardedQuiet DEF Release, OpensNone
<1>2. CASE slot.kind \in {"live", "released"}
  <2> DEFINE new == IF slot.session = NoSession THEN Finished(call)
                    ELSE [call EXCEPT !.pc = "draining", !.old = slot.session]
  <2>1. ~Carries(new) /\ ~Drains(new)
    BY <1>f DEF Carries, Drains, CallRecords
  <2>2. caller'[c] = new /\ \A d \in Callers : d # c => caller'[d] = caller[d]
    BY <1>2, CallsAfter DEF Release, Typed, TypeOK
  <2> HIDE DEF new
  <2>3. slot'.kind = "released"
    BY <1>2, SlotFields DEF Release
  <2>4. \A d \in Callers : ~Drains(caller'[d])
    BY <1>2, <2>1, <2>2, FreeLock
  <2>5. \A x \in Sessions : proc'[x] = "open" =>
          proc[x] = "open" /\ x # slot.session
    BY <1>2, <1>t, CloseType DEF Release
  <2>6. \A x \in Sessions : proc'[x] = "open" =>
          \E d \in Callers : Carries(caller'[d]) /\ caller'[d].built = x
    BY <2>1, <2>2, <2>5, GuardedSplit
  <2> QED BY <2>3, <2>4, <2>6, GuardedAfter
<1> QED BY <1>1, <1>2 DEF Release

\* A call's start keeps the lock and leaks nothing.
LEMMA CallerStartsGuards ==
  ASSUME Typed, Guarded, NEW c \in Callers, CallerStarts(c)
  PROVE  Guarded'
<1>n. NoCall \in CallRecords
  BY CallTypes
<1>t. proc \in [Sessions -> Procs]
  BY TypedSplit DEF SwapTyped
<1>1. ASSUME NEW s \in Sessions, NEW k \in ConvOrNone, NEW adopt \in BOOLEAN,
             CallReplace(c, s, adopt, k)
      PROVE  Guarded'
  <2> DEFINE call == [NoCall EXCEPT !.op = "swap", !.target = k,
                                    !.adopt = adopt, !.built = s]
  <2>1. call \in CallRecords
    BY <1>n DEF CallRecords, AllOps, SessionOrNone
  <2>2. SwapCall(call)
    BY <2>1 DEF SwapCall, NoCall
  <2>3. ~Carries(caller[c]) /\ \E conv : ReplaceWith(c, call, conv)
    BY <1>1 DEF CallReplace, Carries
  <2> QED BY <2>2, <2>3, ReplaceWithGuards
<1>2. ASSUME NEW s \in Sessions, NEW k \in ConvOrNone, MintAndReplace(c, s, k)
      PROVE  Guarded'
  <2> DEFINE call == [NoCall EXCEPT !.op = "swap", !.target = k, !.built = s]
  <2>1. call \in CallRecords
    BY <1>n DEF CallRecords, AllOps, SessionOrNone
  <2>2. SwapCall(call) /\ call.built = s
    BY <2>1 DEF SwapCall, NoCall, ConvOrNone
  <2>3. /\ ~Carries(caller[c])
        /\ TakeLiveSlot(c, call, conversationId, Opened(s))
    BY <1>2 DEF MintAndReplace, Carries
  <2>4. /\ Opened(s) \in [Sessions -> Procs]
        /\ \A x \in Sessions : Opened(s)[x] = "open" =>
             proc[x] = "open" \/ x = s
    BY <1>t, OpenedType
  <2> HIDE DEF call
  <2> QED BY <2>2, <2>3, <2>4, TakeLiveSlotGuards
<1>3. ASSUME NEW reason \in ReleaseReasons, CallRelease(c, reason)
      PROVE  Guarded'
  <2> DEFINE call == [NoCall EXCEPT !.op = "release", !.reason = reason]
  <2>1. call \in CallRecords /\ call.op = "release"
    BY <1>n DEF CallRecords, AllOps, ReleaseReasons, Reasons, NoCall
  <2>2. ~Carries(caller[c])
    BY <1>3 DEF CallRelease, Carries
  <2>3. CASE slot.kind = "swapping"
    <3>1. /\ SetCall(c, [call EXCEPT !.pc = "waiting"])
          /\ UNCHANGED <<slot, wire, proc, turnVars>>
      BY <1>3, <2>3 DEF CallRelease, Release
    <3>2. ~Carries([call EXCEPT !.pc = "waiting"])
      BY <2>1 DEF Carries, CallRecords
    <3> QED BY <2>2, <3>1, <3>2, GuardedQuiet DEF OpensNone
  <2>4. CASE Release(c, call)
    BY <2>1, <2>2, <2>4, ReleaseGuards
  <2> QED BY <1>3, <2>3, <2>4 DEF CallRelease
<1>4. CASE CallStop(c)
  <2> DEFINE joins == [NoCall EXCEPT !.op = "stop", !.pc = "joining"]
             denies == [NoCall EXCEPT !.op = "stop", !.pc = "denying",
                                      !.turn = pendingTurn]
  <2>0. joins.pc = "joining" /\ denies.pc = "denying"
    BY DEF NoCall
  <2>1. PICK call : SetCall(c, call) /\ call.pc \in {"joining", "denying"}
    <3>1. SetCall(c, joins) \/ SetCall(c, denies)
      BY <1>4 DEF CallStop
    <3> HIDE DEF joins, denies
    <3> QED BY <2>0, <3>1
  <2>2. ~Carries(caller[c]) /\ ~Carries(call)
    BY <1>4, <2>1 DEF CallStop, Carries
  <2>3. UNCHANGED slot /\ OpensNone
    BY <1>4 DEF CallStop, sessionVars, OpensNone
  <2> QED BY <2>1, <2>2, <2>3, GuardedQuiet
<1> QED BY <1>1, <1>2, <1>3, <1>4 DEF CallerStarts

\* So do its later steps: a drained swap installs only while it holds the lock,
\* and closes its replacement when a kill took the lock away.
LEMMA CallerStepGuards ==
  ASSUME Typed, Guarded, NEW c \in Callers, CallerStep(c)
  PROVE  Guarded'
<1>t. /\ proc \in [Sessions -> Procs]
      /\ caller[c] \in CallRecords
      /\ CallOK(caller[c])
  BY TypedSplit DEF SwapTyped, CallShape
<1>f. ~Carries(Finished(caller[c]))
  BY <1>t, FinishedCarries
<1>1. CASE SwapProceeds(c)
  <2>1. SwapCall(caller[c]) /\ ~Drains(caller[c])
    BY <1>1, <1>t DEF SwapProceeds, SwapCall, CallOK, CallRecords, Drains
  <2>2. CASE RefuseDead(c, caller[c], conversationId, proc)
    BY <1>t, <2>1, <2>2, RefuseDeadGuards
  <2>3. CASE TakeLiveSlot(c, caller[c], conversationId, proc)
    BY <1>t, <2>1, <2>3, TakeLiveSlotGuards
  <2>4. CASE slot.kind = "released" /\ InstallReplacement(c, caller[c])
    <3>1. slot.session = NoSession /\ \A d \in Callers : ~Drains(caller[d])
      BY <2>4, FreeLock DEF Typed, SlotShape
    <3> QED BY <2>1, <2>4, <3>1, InstallReplacementGuards
  <2> QED BY <1>1, <2>2, <2>3, <2>4 DEF SwapProceeds
<1>2. CASE SwapDrained(c)
  <2>1. SwapCall(caller[c]) /\ Drains(caller[c])
    BY <1>2, <1>t DEF SwapDrained, DrainOver, SwapCall, CallOK, CallRecords,
                      Drains
  <2>2. CASE slot.holder = c
    <3>1. slot.kind = "swapping" /\ slot.session = NoSession
      BY <2>2, NullsAssumption DEF Typed, SlotShape
    <3>2. \A d \in Callers : d # c => ~Drains(caller[d])
      BY <2>2, <3>1, GuardedSplit
    <3>3. InstallReplacement(c, caller[c])
      BY <1>2, <2>2 DEF SwapDrained
    <3> QED BY <2>1, <3>1, <3>2, <3>3, InstallReplacementGuards
  <2>3. CASE slot.holder # c
    <3>1. slot.kind = "dead" /\ slot.session = NoSession
      BY <2>1, <2>3, GuardedSplit DEF Typed, SlotShape
    <3>2. /\ caller'[c] = Finished(caller[c])
          /\ \A d \in Callers : d # c => caller'[d] = caller[d]
      BY <1>2, <2>3, CallsAfter DEF SwapDrained, Typed, TypeOK
    <3>3. slot' = slot /\ \A x \in Sessions : proc'[x] = "open" =>
            proc[x] = "open" /\ x # caller[c].built
      BY <1>2, <1>t, <2>3, CloseType DEF SwapDrained
    <3> QED BY <1>f, <3>1, <3>2, <3>3, GuardedSplit, GuardedAfter
            DEF Carries, Drains
  <2> QED BY <2>2, <2>3
<1>3. CASE ReleaseProceeds(c)
  BY <1>3, <1>t, ReleaseGuards DEF ReleaseProceeds, Carries
<1>4. CASE ReleaseDrained(c)
  <2>1. ~Carries(caller[c])
    BY <1>4 DEF ReleaseDrained, Carries
  <2> QED BY <1>4, <1>f, <2>1, GuardedQuiet DEF ReleaseDrained, OpensNone
<1>5. ASSUME NEW s \in Sessions, NEW k \in ConvOrNone, StopReplaces(c, s, k)
      PROVE  Guarded'
  <2> DEFINE call == [caller[c] EXCEPT !.target = k, !.built = s]
  <2>1. call \in CallRecords /\ call.built = s /\ call.op = caller[c].op
    BY <1>t DEF CallRecords, SessionOrNone
  <2>2. SwapCall(call)
    BY <1>5, <1>t, <2>1 DEF SwapCall, StopReplaces, CallOK, CallRecords
  <2>3. ~Carries(caller[c]) /\ ReplaceWith(c, call, k)
    BY <1>5 DEF StopReplaces, Carries
  <2> QED BY <2>2, <2>3, ReplaceWithGuards
<1>6. CASE \/ StopNothing(c) \/ StopHot(c) \/ StopHotSettled(c)
           \/ StopBuildThrows(c) \/ StopDone(c) \/ StopJoined(c)
  <2>1. ~Carries(caller[c])
    BY <1>6 DEF StopNothing, StopHot, StopHotSettled, StopBuildThrows,
                StopDone, StopJoined, Carries
  <2>2. \A pc \in {"hot", "done"} : ~Carries([caller[c] EXCEPT !.pc = pc])
    BY <1>t DEF Carries, CallRecords
  <2>3. PICK call : SetCall(c, call) /\ ~Carries(call)
    BY <1>6, <1>f, <2>2 DEF StopNothing, StopHot, StopHotSettled,
       StopBuildThrows, StopDone, StopJoined
  <2>4. UNCHANGED slot /\ OpensNone
    BY <1>6 DEF StopNothing, StopHot, StopHotSettled, StopBuildThrows,
                StopDone, StopJoined, sessionVars, OpensNone
  <2> QED BY <2>1, <2>3, <2>4, GuardedQuiet
<1> QED BY <1>1, <1>2, <1>3, <1>4, <1>5, <1>6 DEF CallerStep

\* Every step keeps the lock and leaks nothing.
LEMMA NextGuards == Typed /\ Guarded /\ [Next]_vars => Guarded'
<1> SUFFICES ASSUME Typed, Guarded, [Next]_vars PROVE Guarded'
  OBVIOUS
<1>t. proc \in [Sessions -> Procs]
  BY TypedSplit DEF SwapTyped
<1>1. ASSUME NEW s \in Sessions, StreamEnds(s)
      PROVE  Guarded'
  <2>1. UNCHANGED caller /\ OpensNone /\ proc'[s] # "open"
    BY <1>1, <1>t DEF StreamEnds, OpensNone
  <2>2. CASE slot.kind = "live" /\ slot.session = s /\ ~aborting
    <3>1. slot'.kind = "released"
      BY <1>1, <2>2, SlotFields DEF StreamEnds
    <3>2. \A d \in Callers : ~Drains(caller[d])
      BY <2>2, FreeLock
    <3> QED BY <2>1, <2>2, <3>1, <3>2, GuardedSplit, GuardedAfter
            DEF OpensNone
  <2>3. CASE ~(slot.kind = "live" /\ slot.session = s /\ ~aborting)
    BY <1>1, <2>1, <2>3, GuardedKept DEF StreamEnds
  <2> QED BY <2>2, <2>3
<1>2. ASSUME NEW s \in Sessions, BackendStep(s), ~StreamEnds(s)
      PROVE  Guarded'
  <2>1. UNCHANGED <<slot, caller>> /\ OpensNone
    BY <1>2, <1>t DEF BackendStep, StreamThrows, TurnEnds, SystemInit,
                      sessionVars, OpensNone
  <2> QED BY <2>1, GuardedKept
<1>3. ASSUME NEW s \in Sessions, NEW k \in ConvOrNone, InstallSession(s, k)
      PROVE  Guarded'
  <2>1. CASE slot.kind = "released"
    <3>1. /\ slot'.kind = "live" /\ slot'.session = s /\ slot'.holder = NoCaller
          /\ UNCHANGED caller
      BY <1>3, <2>1, SlotFields DEF InstallSession
    <3>2. \A d \in Callers : ~Drains(caller[d])
      BY <2>1, FreeLock
    <3>3. \A x \in Sessions : proc'[x] = "open" => x = s \/ proc[x] = "open"
      BY <1>3, <1>t, <2>1, OpenedType DEF InstallSession
    <3>4. slot.session = NoSession
      BY <2>1 DEF Typed, SlotShape
    <3> QED BY <3>1, <3>2, <3>3, <3>4, NullsAssumption, GuardedSplit,
               GuardedAfter
  <2>2. CASE slot.kind # "released"
    <3>1. Opened(s) \in [Sessions -> Procs]
      BY <1>t, OpenedType
    <3>2. OpensNone
      BY <1>3, <1>t, <2>2, <3>1, OpenedType, CloseType
      DEF InstallSession, OpensNone
    <3> QED BY <1>3, <2>2, <3>2, GuardedKept DEF InstallSession
  <2> QED BY <2>1, <2>2
<1>4. ASSUME NEW t \in Turns, TurnStep(t)
      PROVE  Guarded'
  <2>1. UNCHANGED <<slot, caller>> /\ OpensNone
    BY <1>4 DEF TurnStep, BeginTurn, BailTurn, SendTurn, SendThrows,
                sessionVars, OpensNone
  <2> QED BY <2>1, GuardedKept
<1>5. CASE Kill
  <2>1. slot'.kind = "dead" /\ UNCHANGED caller
    BY <1>5, SlotFields DEF Kill
  <2>2. \A x \in Sessions : proc'[x] = "open" =>
          proc[x] = "open" /\ x # slot.session
    BY <1>5, <1>t, CloseType DEF Kill
  <2> QED BY <2>1, <2>2, GuardedSplit, GuardedAfter
<1>6. CASE EnvChanged
  <2>1. /\ slot'.kind = slot.kind /\ slot'.session = slot.session
        /\ slot'.holder = slot.holder
    BY <1>6 DEF EnvChanged, Typed, TypeOK, Slots
  <2> QED BY <1>6, <2>1, GuardedKept DEF EnvChanged, OpensNone
<1>7. CASE MintToken \/ MintBuildThrows
  BY <1>7, GuardedKept DEF MintToken, MintBuildThrows, OpensNone
<1>8. CASE UNCHANGED vars
  BY <1>8, GuardedKept DEF vars, sessionVars, OpensNone
<1> QED BY <1>1, <1>2, <1>3, <1>4, <1>5, <1>6, <1>7, <1>8, CallerStartsGuards,
           CallerStepGuards
        DEF Next

\* The initial state has no swap and no process.
LEMMA InitGuards == Init => Guarded
BY SlotFields DEF Init, Guarded, SwapLock, NoLeakedProcess, HoldsReplacement,
                  NoCall

\* The swap lock: while the slot is swapping exactly its holder drains a swap,
\* however many swaps, releases, stops and kills overlap (replaceSession's wait
\* and its check after the drain).
THEOREM LockHeldOnce == Spec => []SwapLock
<1>1. Guarded => SwapLock
  BY DEF Guarded
<1> QED BY <1>1, InitGuards, NextGuards, AlwaysTyped, PTL DEF Spec

\* No process leaks: whatever is open is bound by the slot, or is the
\* replacement of a swap in flight that will install or close it.
THEOREM NoProcessLeaks == Spec => []NoLeakedProcess
<1>1. Guarded => NoLeakedProcess
  BY DEF Guarded
<1> QED BY <1>1, InitGuards, NextGuards, AlwaysTyped, PTL DEF Spec

-----------------------------------------------------------------------------
(* Who still reads a stream, and the token of what is installed.           *)

DrainsOf(call, s) == call.pc = "draining" /\ call.old = s

\* Every process that may still write its transcript is bound, is drained by a
\* call, was given up by a drain, or outlived a kill.
Readers ==
  \A s \in Sessions : consumer[s] = "reading" =>
    \/ slot.session = s
    \/ slot.kind = "dead"
    \/ s \in wedged
    \/ \E c \in Callers : DrainsOf(caller[c], s)

\* A step starts at most the consumer of the process it binds.
StartsBound ==
  \A s \in Sessions : consumer'[s] = "reading" =>
    consumer[s] = "reading" \/ slot'.session = s

\* Dead is final.
DeadStays == slot.kind = "dead" => slot'.kind = "dead"

\* A step of no call: the bound process stays, ends, or is killed.
LEMMA ReadersAlone ==
  ASSUME Readers, UNCHANGED caller, StartsBound, DeadStays,
         \A s \in Sessions : s \in wedged /\ consumer'[s] = "reading" => s \in wedged',
         \A s \in Sessions : slot.session = s /\ consumer'[s] = "reading" =>
           slot'.session = s \/ slot'.kind = "dead"
  PROVE  Readers'
BY DEF Readers, StartsBound, DeadStays

\* A step of a call that drained nothing: what it takes from the slot it drains.
LEMMA ReadersCall ==
  ASSUME Typed, Readers, NEW c \in Callers, NEW call, SetCall(c, call),
         caller[c].pc # "draining", StartsBound, DeadStays, UNCHANGED wedged,
         \/ slot.session \in {slot'.session, NoSession}
         \/ DrainsOf(call, slot.session)
  PROVE  Readers'
<1>1. caller'[c] = call /\ \A d \in Callers : d # c => caller'[d] = caller[d]
  BY CallsAfter DEF Typed, TypeOK
<1>2. \A d \in Callers, s \in Sessions :
        DrainsOf(caller[d], s) => DrainsOf(caller'[d], s)
  BY <1>1 DEF DrainsOf
<1> QED BY <1>1, <1>2, NullsAssumption DEF Readers, StartsBound, DeadStays

\* The end of a drain: the old process is done or given up.
LEMMA ReadersDrained ==
  ASSUME Typed, Readers, NEW c \in Callers, NEW call, SetCall(c, call),
         DrainOver(c), StartsBound, DeadStays,
         slot.session \in {slot'.session, NoSession}
  PROVE  Readers'
<1>1. \A d \in Callers : d # c => caller'[d] = caller[d]
  BY CallsAfter DEF Typed, TypeOK
<1>2. \A s \in Sessions : s \in wedged => s \in wedged'
  BY DEF DrainOver
<1>3. \A s \in Sessions :
        DrainsOf(caller[c], s) /\ consumer[s] = "reading" => s \in wedged'
  BY DEF DrainOver, DrainsOf
<1> QED BY <1>1, <1>2, <1>3, NullsAssumption DEF Readers, StartsBound, DeadStays

\* An install starts the consumer of the process it binds, and finishes the
\* call; a replacement that cannot be built again leaves the slot empty.
LEMMA InstallStarts ==
  ASSUME Typed, NEW c, NEW call, InstallReplacement(c, call)
  PROVE  SetCall(c, Finished(call)) /\ StartsBound
<1>1. ASSUME NEW s, NEW table, NEW chat, InstallInSwap(c, call, s, table, chat)
      PROVE  SetCall(c, Finished(call)) /\ StartsBound
  BY <1>1, SlotFields
     DEF InstallInSwap, StartConsumer, StartsBound, Typed, TypeOK
<1> QED BY <1>1 DEF InstallReplacement, StartsBound

\* replaceWith up to its first await.
LEMMA ReplaceWithReads ==
  ASSUME Typed, Readers, NEW c \in Callers, NEW call, SwapCall(call), NEW conv,
         caller[c].pc # "draining", ReplaceWith(c, call, conv)
  PROVE  Readers'
<1>w. UNCHANGED wedged
  BY DEF ReplaceWith
<1>1. CASE UNCHANGED <<slot, consumer>> /\ \E new : SetCall(c, new)
  BY <1>1, <1>w, ReadersCall DEF StartsBound, DeadStays
<1>2. CASE TakeLiveSlot(c, call, conv, Opened(call.built))
  <2> DEFINE new == [call EXCEPT !.pc = "draining", !.old = slot.session]
  <2>1. DrainsOf(new, slot.session)
    BY DEF DrainsOf, SwapCall, CallRecords
  <2>2. SetCall(c, new) /\ UNCHANGED consumer /\ slot.kind = "live"
    BY <1>2 DEF TakeLiveSlot
  <2> HIDE DEF new
  <2> QED BY <1>w, <2>1, <2>2, ReadersCall DEF StartsBound, DeadStays
<1>3. CASE /\ slot.kind = "released"
           /\ InstallInSwap(c, call, call.built, Opened(call.built),
                            Shown(conv))
  <2>1. SetCall(c, Finished(call)) /\ StartsBound
    BY <1>3, SlotFields
       DEF InstallInSwap, StartConsumer, StartsBound, Typed, TypeOK
  <2>2. slot.session = NoSession
    BY <1>3 DEF Typed, SlotShape
  <2> QED BY <1>3, <1>w, <2>1, <2>2, ReadersCall DEF DeadStays
<1> QED BY <1>1, <1>2, <1>3 DEF ReplaceWith, RefuseDead

\* A release drains what it took from the slot.
LEMMA ReleaseReads ==
  ASSUME Typed, Readers, NEW c \in Callers, NEW call \in CallRecords,
         caller[c].pc # "draining", Release(c, call), UNCHANGED <<consumer, wedged>>
  PROVE  Readers'
<1>s. StartsBound
  BY DEF StartsBound
<1>1. CASE slot.kind = "dead"
  BY <1>1, <1>s, ReadersCall DEF Release, DeadStays
<1>2. CASE slot.kind # "dead" /\ slot.session = NoSession
  BY <1>2, <1>s, ReadersCall DEF Release, DeadStays
<1>3. CASE slot.kind # "dead" /\ slot.session # NoSession
  <2> DEFINE new == [call EXCEPT !.pc = "draining", !.old = slot.session]
  <2>1. DrainsOf(new, slot.session)
    BY DEF DrainsOf, CallRecords
  <2>2. SetCall(c, new)
    BY <1>3 DEF Release
  <2> HIDE DEF new
  <2> QED BY <1>3, <1>s, <2>1, <2>2, ReadersCall DEF DeadStays
<1> QED BY <1>1, <1>2, <1>3

\* A call's start.
LEMMA CallerStartsReads ==
  ASSUME Typed, Readers, NEW c \in Callers, CallerStarts(c)
  PROVE  Readers'
<1>n. NoCall \in CallRecords
  BY CallTypes
<1>1. ASSUME NEW s \in Sessions, NEW k \in ConvOrNone, NEW adopt \in BOOLEAN,
             CallReplace(c, s, adopt, k)
      PROVE  Readers'
  <2> DEFINE call == [NoCall EXCEPT !.op = "swap", !.target = k,
                                    !.adopt = adopt, !.built = s]
  <2>1. call \in CallRecords
    BY <1>n DEF CallRecords, AllOps, SessionOrNone
  <2>2. SwapCall(call)
    BY <2>1 DEF SwapCall, NoCall
  <2>3. caller[c].pc # "draining" /\ \E conv : ReplaceWith(c, call, conv)
    BY <1>1 DEF CallReplace
  <2> QED BY <2>2, <2>3, ReplaceWithReads
<1>2. ASSUME NEW s \in Sessions, NEW k \in ConvOrNone, MintAndReplace(c, s, k)
      PROVE  Readers'
  <2> DEFINE call == [NoCall EXCEPT !.op = "swap", !.target = k, !.built = s]
             new == [call EXCEPT !.pc = "draining", !.old = slot.session]
  <2>1. call \in CallRecords
    BY <1>n DEF CallRecords, AllOps, SessionOrNone
  <2> HIDE DEF call
  <2>2. DrainsOf(new, slot.session)
    BY <2>1 DEF DrainsOf, CallRecords
  <2>3. /\ SetCall(c, new) /\ UNCHANGED <<consumer, wedged>>
        /\ caller[c].pc # "draining" /\ slot.kind = "live"
    BY <1>2 DEF MintAndReplace, TakeLiveSlot, call
  <2> HIDE DEF new
  <2> QED BY <2>2, <2>3, ReadersCall DEF StartsBound, DeadStays
<1>3. ASSUME NEW reason \in ReleaseReasons, CallRelease(c, reason)
      PROVE  Readers'
  <2> DEFINE call == [NoCall EXCEPT !.op = "release", !.reason = reason]
  <2>1. call \in CallRecords
    BY <1>n DEF CallRecords, AllOps, ReleaseReasons, Reasons, NoCall
  <2>2. caller[c].pc # "draining" /\ UNCHANGED <<consumer, wedged>>
    BY <1>3 DEF CallRelease
  <2>3. CASE UNCHANGED slot /\ SetCall(c, [call EXCEPT !.pc = "waiting"])
    BY <2>2, <2>3, ReadersCall DEF StartsBound, DeadStays
  <2>4. CASE Release(c, call)
    BY <2>1, <2>2, <2>4, ReleaseReads
  <2> QED BY <1>3, <2>3, <2>4 DEF CallRelease
<1>4. CASE CallStop(c)
  <2>1. PICK new : SetCall(c, new)
    BY <1>4 DEF CallStop
  <2> QED BY <1>4, <2>1, ReadersCall
          DEF CallStop, sessionVars, StartsBound, DeadStays
<1> QED BY <1>1, <1>2, <1>3, <1>4 DEF CallerStarts

\* A call's later steps: a swap that installs has drained the old process, or
\* has given it up.
LEMMA CallerStepReads ==
  ASSUME Typed, Guarded, Readers, NEW c \in Callers, CallerStep(c)
  PROVE  Readers'
<1>t. caller[c] \in CallRecords /\ CallOK(caller[c])
  BY TypedSplit DEF SwapTyped, CallShape
<1>1. CASE SwapProceeds(c)
  <2>1. caller[c].pc # "draining" /\ UNCHANGED wedged
    BY <1>1 DEF SwapProceeds
  <2>2. CASE UNCHANGED <<slot, consumer>> /\ \E new : SetCall(c, new)
    BY <2>1, <2>2, ReadersCall DEF StartsBound, DeadStays
  <2>3. CASE TakeLiveSlot(c, caller[c], conversationId, proc)
    <3> DEFINE new == [caller[c] EXCEPT !.pc = "draining", !.old = slot.session]
    <3>1. DrainsOf(new, slot.session)
      BY <1>t DEF DrainsOf, CallRecords
    <3>2. SetCall(c, new) /\ UNCHANGED consumer /\ slot.kind = "live"
      BY <2>3 DEF TakeLiveSlot
    <3> HIDE DEF new
    <3> QED BY <2>1, <3>1, <3>2, ReadersCall DEF StartsBound, DeadStays
  <2>4. CASE slot.kind = "released" /\ InstallReplacement(c, caller[c])
    <3>1. slot.session = NoSession
      BY <2>4 DEF Typed, SlotShape
    <3> QED BY <2>1, <2>4, <3>1, InstallStarts, ReadersCall DEF DeadStays
  <2> QED BY <1>1, <2>2, <2>3, <2>4 DEF SwapProceeds, RefuseDead
<1>2. CASE SwapDrained(c)
  <2>1. CASE slot.holder = c
    <3>1. slot.kind = "swapping" /\ slot.session = NoSession
      BY <2>1, NullsAssumption DEF Typed, SlotShape
    <3>2. DrainOver(c) /\ InstallReplacement(c, caller[c])
      BY <1>2, <2>1 DEF SwapDrained
    <3> QED BY <3>1, <3>2, InstallStarts, ReadersDrained DEF DeadStays
  <2>2. CASE slot.holder # c
    BY <1>2, <2>2, ReadersDrained DEF SwapDrained, StartsBound, DeadStays
  <2> QED BY <2>1, <2>2
<1>3. CASE ReleaseProceeds(c)
  BY <1>3, <1>t, ReleaseReads DEF ReleaseProceeds
<1>4. CASE ReleaseDrained(c)
  BY <1>4, ReadersDrained DEF ReleaseDrained, StartsBound, DeadStays
<1>5. ASSUME NEW s \in Sessions, NEW k \in ConvOrNone, StopReplaces(c, s, k)
      PROVE  Readers'
  <2> DEFINE call == [caller[c] EXCEPT !.target = k, !.built = s]
  <2>1. call \in CallRecords /\ call.built = s /\ call.op = caller[c].op
    BY <1>t DEF CallRecords, SessionOrNone
  <2>2. SwapCall(call)
    BY <1>5, <1>t, <2>1 DEF SwapCall, StopReplaces, CallOK, CallRecords
  <2>3. caller[c].pc # "draining" /\ ReplaceWith(c, call, k)
    BY <1>5 DEF StopReplaces
  <2> QED BY <2>2, <2>3, ReplaceWithReads
<1>6. CASE \/ StopNothing(c) \/ StopHot(c) \/ StopHotSettled(c)
           \/ StopBuildThrows(c) \/ StopDone(c) \/ StopJoined(c)
  <2>1. /\ caller[c].pc # "draining" /\ UNCHANGED <<slot, consumer, wedged>>
        /\ \E new : SetCall(c, new)
    BY <1>6 DEF StopNothing, StopHot, StopHotSettled, StopBuildThrows,
                StopDone, StopJoined, sessionVars
  <2> QED BY <2>1, ReadersCall DEF StartsBound, DeadStays
<1> QED BY <1>1, <1>2, <1>3, <1>4, <1>5, <1>6 DEF CallerStep

\* Every step accounts for every reader.
LEMMA NextReads == Typed /\ Guarded /\ Readers /\ [Next]_vars => Readers'
<1> SUFFICES ASSUME Typed, Guarded, Readers, [Next]_vars PROVE Readers'
  OBVIOUS
<1>1. ASSUME NEW s \in Sessions, BackendStep(s)
      PROVE  Readers'
  <2>1. CASE StreamEnds(s) \/ StreamThrows(s)
    <3>1. \A x \in Sessions : consumer'[x] = "reading" =>
            consumer[x] = "reading" /\ x # s
      BY <2>1 DEF StreamEnds, StreamThrows, Typed, TypeOK
    <3>2. /\ UNCHANGED caller /\ wedged' = wedged \ {s}
          /\ slot' = slot \/ (slot.kind = "live" /\ slot.session = s)
      BY <2>1 DEF StreamEnds, StreamThrows
    <3> QED BY <3>1, <3>2, ReadersAlone DEF StartsBound, DeadStays
  <2>2. CASE UNCHANGED <<slot, caller, consumer, wedged>>
    BY <2>2, ReadersAlone DEF StartsBound, DeadStays
  <2> QED BY <1>1, <2>1, <2>2 DEF BackendStep, TurnEnds, SystemInit, sessionVars
<1>2. ASSUME NEW s \in Sessions, NEW k \in ConvOrNone, InstallSession(s, k)
      PROVE  Readers'
  <2>1. CASE slot.kind = "released"
    <3>1. slot.session = NoSession /\ slot'.session = s
      BY <1>2, <2>1, SlotFields DEF InstallSession, Typed, SlotShape
    <3>2. StartsBound
      BY <1>2, <2>1, <3>1
         DEF InstallSession, StartConsumer, StartsBound, Typed, TypeOK
    <3> QED BY <1>2, <2>1, <3>1, <3>2, NullsAssumption, ReadersAlone
            DEF InstallSession, DeadStays
  <2>2. CASE slot.kind # "released"
    BY <1>2, <2>2, ReadersAlone DEF InstallSession, StartsBound, DeadStays
  <2> QED BY <2>1, <2>2
<1>3. ASSUME NEW t \in Turns, TurnStep(t)
      PROVE  Readers'
  BY <1>3, ReadersAlone
     DEF TurnStep, BeginTurn, BailTurn, SendTurn, SendThrows, sessionVars,
         StartsBound, DeadStays
<1>4. CASE Kill
  BY <1>4, SlotFields, ReadersAlone DEF Kill, StartsBound, DeadStays
<1>5. CASE EnvChanged
  <2>1. slot'.kind = slot.kind /\ slot'.session = slot.session
    BY <1>5 DEF EnvChanged, Typed, TypeOK, Slots
  <2> QED BY <1>5, <2>1, ReadersAlone DEF EnvChanged, StartsBound, DeadStays
<1>6. CASE MintToken \/ MintBuildThrows \/ UNCHANGED vars
  BY <1>6, ReadersAlone
     DEF MintToken, MintBuildThrows, vars, sessionVars, StartsBound, DeadStays
<1> QED BY <1>1, <1>2, <1>3, <1>4, <1>5, <1>6, CallerStartsReads,
           CallerStepReads
        DEF Next

\* Two processes write one transcript only when a drain timed out or a release
\* is still draining, however many swaps, releases, stops and kills overlap.
THEOREM DrainsFirst == Spec => []DrainBeforeInstall
<1>1. Init => Readers
  BY DEF Init, Readers
<1>2. Typed /\ Guarded /\ Readers => DrainBeforeInstall
  <2> SUFFICES ASSUME Typed, Guarded, Readers,
                      NEW s \in Sessions, NEW other \in Sessions,
                      slot.session = s, other # s, consumer[other] = "reading",
                      other \notin wedged
               PROVE  \E c \in Callers : /\ caller[c].op = "release"
                                         /\ caller[c].pc = "draining"
                                         /\ caller[c].old = other
    BY DEF DrainBeforeInstall
  <2>1. slot.kind = "live"
    BY NullsAssumption DEF Typed, SlotShape
  <2>2. PICK c \in Callers : DrainsOf(caller[c], other)
    BY <2>1 DEF Readers
  <2>3. ~Drains(caller[c])
    BY <2>1, FreeLock
  <2> QED BY <2>2, <2>3 DEF DrainsOf, Drains
<1> QED BY <1>1, <1>2, NextReads, InitGuards, NextGuards, AlwaysTyped, PTL
        DEF Spec

\* An install takes a process that is on the current token.
LEMMA InstallsCurrent ==
  ASSUME Typed, NEW c, NEW call, InstallReplacement(c, call)
  PROVE  slot'.session = NoSession \/ slot'.session \in onToken'
BY SlotFields DEF InstallReplacement, InstallInSwap, Build

\* So does replaceWith, which has just built it.
LEMMA ReplaceWithCurrent ==
  ASSUME Typed, NEW c, NEW call, NEW conv, ReplaceWith(c, call, conv)
  PROVE  slot'.session \in {slot.session, NoSession} \/ slot'.session \in onToken'
BY SlotFields DEF ReplaceWith, RefuseDead, TakeLiveSlot, InstallInSwap, Build

\* The step keeps the process of the slot, empties it, or binds a process on
\* the current token.
BindsCurrent ==
  slot'.session \in {slot.session, NoSession} \/ slot'.session \in onToken'

\* Taking the lock and releasing empty the slot; refusing keeps it.
LEMMA UnbindingSteps ==
  ASSUME NEW c, NEW call
  PROVE  /\ \A conv, table : TakeLiveSlot(c, call, conv, table) => BindsCurrent
         /\ \A conv, table : RefuseDead(c, call, conv, table) => BindsCurrent
         /\ Release(c, call) => BindsCurrent
BY SlotFields DEF TakeLiveSlot, RefuseDead, Release, BindsCurrent

\* Every step that binds another process binds one on the current token.
LEMMA StepBindsCurrent ==
  ASSUME Typed, [Next]_vars
  PROVE  BindsCurrent
<1>1. ASSUME NEW c \in Callers, CallerStarts(c)
      PROVE  BindsCurrent
  <2>1. ASSUME NEW s \in Sessions, NEW k \in ConvOrNone, NEW adopt \in BOOLEAN,
               CallReplace(c, s, adopt, k)
        PROVE  BindsCurrent
    BY <2>1, ReplaceWithCurrent DEF CallReplace, BindsCurrent
  <2>2. ASSUME NEW s \in Sessions, NEW k \in ConvOrNone, MintAndReplace(c, s, k)
        PROVE  BindsCurrent
    BY <2>2, UnbindingSteps DEF MintAndReplace
  <2>3. ASSUME NEW reason \in ReleaseReasons, CallRelease(c, reason)
        PROVE  BindsCurrent
    BY <2>3, UnbindingSteps DEF CallRelease, BindsCurrent
  <2>4. CASE CallStop(c)
    BY <2>4 DEF CallStop, BindsCurrent
  <2> QED BY <1>1, <2>1, <2>2, <2>3, <2>4 DEF CallerStarts
<1>2. ASSUME NEW c \in Callers, CallerStep(c)
      PROVE  BindsCurrent
  <2>1. CASE SwapProceeds(c)
    BY <2>1, UnbindingSteps, InstallsCurrent DEF SwapProceeds, BindsCurrent
  <2>2. CASE SwapDrained(c)
    BY <2>2, InstallsCurrent DEF SwapDrained, BindsCurrent
  <2>3. CASE ReleaseProceeds(c)
    BY <2>3, UnbindingSteps DEF ReleaseProceeds
  <2>4. ASSUME NEW s \in Sessions, NEW k \in ConvOrNone, StopReplaces(c, s, k)
        PROVE  BindsCurrent
    BY <2>4, ReplaceWithCurrent DEF StopReplaces, BindsCurrent
  <2>5. CASE \/ ReleaseDrained(c) \/ StopNothing(c) \/ StopHot(c)
             \/ StopHotSettled(c) \/ StopBuildThrows(c) \/ StopDone(c)
             \/ StopJoined(c)
    BY <2>5 DEF ReleaseDrained, StopNothing, StopHot, StopHotSettled,
                StopBuildThrows, StopDone, StopJoined, BindsCurrent
  <2> QED BY <1>2, <2>1, <2>2, <2>3, <2>4, <2>5 DEF CallerStep
<1>3. ASSUME NEW s \in Sessions, NEW k \in ConvOrNone, InstallSession(s, k)
      PROVE  BindsCurrent
  BY <1>3, SlotFields DEF InstallSession, Build, BindsCurrent
<1>4. ASSUME NEW s \in Sessions, BackendStep(s)
      PROVE  BindsCurrent
  BY <1>4, SlotFields
     DEF BackendStep, StreamEnds, StreamThrows, TurnEnds, SystemInit,
         BindsCurrent
<1>5. ASSUME NEW t \in Turns, TurnStep(t)
      PROVE  BindsCurrent
  BY <1>5
     DEF TurnStep, BeginTurn, BailTurn, SendTurn, SendThrows, BindsCurrent
<1>6. CASE Kill \/ EnvChanged
  BY <1>6, SlotFields DEF Kill, EnvChanged, Typed, TypeOK, Slots, BindsCurrent
<1>7. CASE MintToken \/ MintBuildThrows \/ UNCHANGED vars
  BY <1>7 DEF MintToken, MintBuildThrows, vars, BindsCurrent
<1> QED BY <1>1, <1>2, <1>3, <1>4, <1>5, <1>6, <1>7 DEF Next

\* A process that takes the slot is on the agent's current token, also when a
\* new token was minted while its swap waited or drained (currentReplacement).
THEOREM InstallsCurrentToken == Spec => InstallsOnCurrentToken
<1>1. Typed /\ [Next]_vars =>
        [slot'.session \in Sessions /\ slot'.session # slot.session
           => slot'.session \in onToken']_vars
  BY StepBindsCurrent, NullsAssumption DEF BindsCurrent
<1> QED BY <1>1, AlwaysTyped, PTL DEF Spec, InstallsOnCurrentToken

-----------------------------------------------------------------------------
(* What clients see of the slot.                                           *)

\* A release has a reason, which makes the agent dormant on the wire.
Reasoned == \A c \in Callers : caller[c].op = "release" => caller[c].reason # "none"

WireFits == WireFollowsSlot /\ Reasoned

\* A call that is a release with a reason, or no release.
Tells(call) == call.op = "release" => call.reason # "none"

\* A step of one call.
LEMMA ReasonedCall ==
  ASSUME Typed, Reasoned, NEW c \in Callers, NEW call, Tells(call),
         SetCall(c, call)
  PROVE  Reasoned'
BY CallsAfter DEF Reasoned, Tells, Typed, TypeOK

\* The wire is written with the slot, or neither is.
LEMMA WireKept ==
  ASSUME WireFollowsSlot, UNCHANGED wire,
         slot' = slot \/ slot'.kind = "dead"
  PROVE  WireFollowsSlot'
BY DEF WireFollowsSlot, DormantOnWire

\* A process is installed, or its rebuild failed.
LEMMA WireInstalls ==
  ASSUME NEW c, NEW call
  PROVE  /\ \A s, table, chat :
              InstallInSwap(c, call, s, table, chat) => WireFollowsSlot'
         /\ InstallReplacement(c, call) => WireFollowsSlot'
<1>1. ASSUME NEW s, NEW table, NEW chat, InstallInSwap(c, call, s, table, chat)
      PROVE  WireFollowsSlot'
  BY <1>1, SlotFields DEF InstallInSwap, WireFollowsSlot, DormantOnWire
<1>2. ASSUME slot' = Released("unbuilt"),
             wire' = [dormant |-> TRUE, swapping |-> FALSE]
      PROVE  WireFollowsSlot'
  BY <1>2, SlotFields DEF WireFollowsSlot, DormantOnWire
<1> QED BY <1>1, <1>2 DEF InstallReplacement

\* A swap takes the lock.
LEMMA WireTakes ==
  ASSUME NEW c, NEW call, NEW conv, NEW table, TakeLiveSlot(c, call, conv, table)
  PROVE  WireFollowsSlot'
<1>1. slot'.kind = "swapping"
  BY SlotFields DEF TakeLiveSlot
<1>2. wire'.dormant = TRUE /\ wire'.swapping = TRUE
  BY DEF TakeLiveSlot
<1> QED BY <1>1, <1>2 DEF WireFollowsSlot, DormantOnWire

\* The calls these steps leave behind are the call, further on, or over.
LEMMA TellsOn ==
  ASSUME NEW call \in CallRecords, Tells(call)
  PROVE  /\ Tells(Finished(call))
         /\ \A old : Tells([call EXCEPT !.pc = "draining", !.old = old])
         /\ \A pc : Tells([call EXCEPT !.pc = pc])
<1>1. Tells(Finished(call))
  BY CallTypes DEF Tells
<1> QED BY <1>1 DEF Tells, CallRecords

\* replaceWith up to its first await.
LEMMA ReplaceWithWire ==
  ASSUME Typed, WireFits, NEW c \in Callers, NEW call \in CallRecords,
         call.op # "release", NEW conv, ReplaceWith(c, call, conv)
  PROVE  WireFits'
<1>1. Reasoned'
  BY TellsOn, ReasonedCall
     DEF WireFits, Tells, ReplaceWith, RefuseDead, TakeLiveSlot, InstallInSwap
<1>2. WireFollowsSlot'
  BY WireKept, WireTakes, WireInstalls DEF WireFits, ReplaceWith, RefuseDead
<1> QED BY <1>1, <1>2 DEF WireFits

\* A release with a reason.
LEMMA ReleaseWire ==
  ASSUME Typed, WireFits, NEW c \in Callers, NEW call \in CallRecords,
         call.op = "release", call.reason # "none", Release(c, call)
  PROVE  WireFits'
<1>1. Reasoned'
  BY TellsOn, ReasonedCall DEF WireFits, Tells, Release
<1>2. WireFollowsSlot'
  <2>1. CASE slot.kind = "dead"
    BY <2>1, WireKept DEF WireFits, Release
  <2>2. CASE slot.kind # "dead"
    <3>1. slot'.kind = "released" /\ slot'.reason = call.reason
      BY <2>2, SlotFields DEF Release
    <3>2. wire.swapping = FALSE
      BY <2>2 DEF Release, WireFits, WireFollowsSlot
    <3>3. wire'.dormant = TRUE /\ wire'.swapping = FALSE
      BY <2>2, <3>2 DEF Release, Typed, TypeOK
    <3> QED BY <3>1, <3>3 DEF WireFollowsSlot, DormantOnWire
  <2> QED BY <2>1, <2>2
<1> QED BY <1>1, <1>2 DEF WireFits


\* A call's start.
LEMMA CallerStartsWire ==
  ASSUME Typed, WireFits, NEW c \in Callers, CallerStarts(c)
  PROVE  WireFits'
<1>n. NoCall \in CallRecords
  BY CallTypes
<1>1. ASSUME NEW s \in Sessions, NEW k \in ConvOrNone, NEW adopt \in BOOLEAN,
             CallReplace(c, s, adopt, k)
      PROVE  WireFits'
  <2> DEFINE call == [NoCall EXCEPT !.op = "swap", !.target = k,
                                    !.adopt = adopt, !.built = s]
  <2>1. call \in CallRecords /\ call.op # "release"
    BY <1>n DEF CallRecords, AllOps, SessionOrNone, NoCall
  <2>2. \E conv : ReplaceWith(c, call, conv)
    BY <1>1 DEF CallReplace
  <2> QED BY <2>1, <2>2, ReplaceWithWire
<1>2. ASSUME NEW s \in Sessions, NEW k \in ConvOrNone, MintAndReplace(c, s, k)
      PROVE  WireFits'
  <2> DEFINE call == [NoCall EXCEPT !.op = "swap", !.target = k, !.built = s]
  <2>1. call \in CallRecords /\ Tells(call)
    BY <1>n DEF CallRecords, AllOps, SessionOrNone, NoCall, Tells
  <2>2. TakeLiveSlot(c, call, conversationId, Opened(s))
    BY <1>2 DEF MintAndReplace
  <2> HIDE DEF call
  <2>3. Reasoned'
    BY <2>1, <2>2, TellsOn, ReasonedCall DEF WireFits, TakeLiveSlot
  <2> QED BY <2>2, <2>3, WireTakes DEF WireFits
<1>3. ASSUME NEW reason \in ReleaseReasons, CallRelease(c, reason)
      PROVE  WireFits'
  <2> DEFINE call == [NoCall EXCEPT !.op = "release", !.reason = reason]
  <2>1. /\ call \in CallRecords /\ call.op = "release"
        /\ call.reason # "none" /\ Tells(call)
    BY <1>n DEF CallRecords, AllOps, ReleaseReasons, Reasons, NoCall, Tells
  <2>2. CASE /\ SetCall(c, [call EXCEPT !.pc = "waiting"])
             /\ UNCHANGED <<slot, wire, proc, turnVars>>
    <3> HIDE DEF call
    <3> QED BY <2>1, <2>2, TellsOn, ReasonedCall, WireKept DEF WireFits
  <2>3. CASE Release(c, call)
    BY <2>1, <2>3, ReleaseWire
  <2> QED BY <1>3, <2>2, <2>3 DEF CallRelease
<1>4. CASE CallStop(c)
  <2>1. PICK call : SetCall(c, call) /\ Tells(call)
    <3>1. /\ Tells([NoCall EXCEPT !.op = "stop", !.pc = "joining"])
          /\ Tells([NoCall EXCEPT !.op = "stop", !.pc = "denying",
                                  !.turn = pendingTurn])
      BY DEF Tells, NoCall
    <3> QED BY <1>4, <3>1 DEF CallStop
  <2> QED BY <1>4, <2>1, ReasonedCall, WireKept DEF CallStop, WireFits
<1> QED BY <1>1, <1>2, <1>3, <1>4 DEF CallerStarts

\* A call's later steps. A swap that a kill preempted writes the wire of an
\* agent that is gone.
LEMMA CallerStepWire ==
  ASSUME Typed, Guarded, WireFits, NEW c \in Callers, CallerStep(c)
  PROVE  WireFits'
<1>t. caller[c] \in CallRecords /\ CallOK(caller[c]) /\ Tells(caller[c])
  BY TypedSplit DEF SwapTyped, CallShape, WireFits, Reasoned, Tells
<1>1. CASE SwapProceeds(c)
  <2>1. Reasoned'
    BY <1>1, <1>t, TellsOn, ReasonedCall
       DEF WireFits, SwapProceeds, RefuseDead, TakeLiveSlot, InstallReplacement,
           InstallInSwap
  <2>2. WireFollowsSlot'
    BY <1>1, WireKept, WireTakes, WireInstalls
       DEF WireFits, SwapProceeds, RefuseDead
  <2> QED BY <2>1, <2>2 DEF WireFits
<1>2. CASE SwapDrained(c)
  <2>1. Reasoned'
    BY <1>2, <1>t, TellsOn, ReasonedCall
       DEF WireFits, SwapDrained, InstallReplacement, InstallInSwap
  <2>2. CASE slot.holder = c
    BY <1>2, <2>1, <2>2, WireInstalls DEF SwapDrained, WireFits
  <2>3. CASE slot.holder # c
    <3>1. slot.kind = "dead"
      BY <1>2, <2>3, GuardedSplit DEF SwapDrained, DrainOver, Drains
    <3>2. slot' = slot
      BY <1>2, <2>3 DEF SwapDrained
    <3> QED BY <2>1, <3>1, <3>2 DEF WireFits, WireFollowsSlot
  <2> QED BY <2>2, <2>3
<1>3. CASE ReleaseProceeds(c)
  BY <1>3, <1>t, ReleaseWire DEF ReleaseProceeds, Tells
<1>4. ASSUME NEW s \in Sessions, NEW k \in ConvOrNone, StopReplaces(c, s, k)
      PROVE  WireFits'
  <2> DEFINE call == [caller[c] EXCEPT !.target = k, !.built = s]
  <2>1. call \in CallRecords /\ call.op = caller[c].op
    BY <1>t DEF CallRecords, SessionOrNone
  <2>2. call.op # "release" /\ ReplaceWith(c, call, k)
    BY <1>4, <1>t, <2>1 DEF StopReplaces, CallOK
  <2> HIDE DEF call
  <2> QED BY <2>1, <2>2, ReplaceWithWire
<1>5. CASE \/ ReleaseDrained(c) \/ StopNothing(c) \/ StopHot(c)
           \/ StopHotSettled(c) \/ StopBuildThrows(c) \/ StopDone(c)
           \/ StopJoined(c)
  <2>1. PICK call : SetCall(c, call) /\ Tells(call)
    BY <1>5, <1>t, TellsOn
       DEF ReleaseDrained, StopNothing, StopHot, StopHotSettled,
           StopBuildThrows, StopDone, StopJoined
  <2>2. UNCHANGED <<slot, wire>>
    BY <1>5 DEF ReleaseDrained, StopNothing, StopHot, StopHotSettled,
                StopBuildThrows, StopDone, StopJoined
  <2> QED BY <2>1, <2>2, ReasonedCall, WireKept DEF WireFits
<1> QED BY <1>1, <1>2, <1>3, <1>4, <1>5 DEF CallerStep

\* Every step leaves clients with the slot as it is.
LEMMA NextWire == Typed /\ Guarded /\ WireFits /\ [Next]_vars => WireFits'
<1> SUFFICES ASSUME Typed, Guarded, WireFits, [Next]_vars PROVE WireFits'
  OBVIOUS
<1>r. UNCHANGED caller => Reasoned'
  BY DEF WireFits, Reasoned
<1>1. ASSUME NEW s \in Sessions, BackendStep(s)
      PROVE  WireFits'
  <2>1. CASE StreamEnds(s) /\ slot.kind = "live" /\ slot.session = s /\ ~aborting
    <3>1. slot'.kind = "released" /\ slot'.reason = "stream-ended"
      BY <2>1, SlotFields DEF StreamEnds
    <3>2. wire.swapping = FALSE
      BY <2>1 DEF WireFits, WireFollowsSlot
    <3>3. wire'.dormant = TRUE /\ wire'.swapping = FALSE
      BY <2>1, <3>2 DEF StreamEnds, Typed, TypeOK
    <3> QED BY <1>r, <2>1, <3>1, <3>3
            DEF StreamEnds, WireFits, WireFollowsSlot, DormantOnWire
  <2>2. CASE UNCHANGED <<slot, wire, caller>>
    BY <1>r, <2>2, WireKept DEF WireFits
  <2> QED BY <1>1, <2>1, <2>2
          DEF BackendStep, StreamEnds, StreamThrows, TurnEnds, SystemInit
<1>2. ASSUME NEW s \in Sessions, NEW k \in ConvOrNone, InstallSession(s, k)
      PROVE  WireFits'
  <2>1. CASE slot.kind = "released"
    <3>0. wire.swapping = FALSE
      BY <2>1 DEF WireFits, WireFollowsSlot
    <3>1. slot'.kind = "live"
      BY <1>2, <2>1, SlotFields DEF InstallSession
    <3>2. wire'.dormant = FALSE /\ wire'.swapping = FALSE
      BY <1>2, <2>1, <3>0 DEF InstallSession, Typed, TypeOK
    <3> QED BY <1>2, <1>r, <3>1, <3>2
            DEF InstallSession, WireFits, WireFollowsSlot, DormantOnWire
  <2>2. CASE slot.kind # "released"
    BY <1>2, <1>r, <2>2, WireKept DEF InstallSession, WireFits
  <2> QED BY <2>1, <2>2
<1>3. ASSUME NEW t \in Turns, TurnStep(t)
      PROVE  WireFits'
  BY <1>3, <1>r, WireKept
     DEF TurnStep, BeginTurn, BailTurn, SendTurn, SendThrows, WireFits
<1>4. CASE Kill
  BY <1>4, <1>r, SlotFields, WireKept DEF Kill, WireFits
<1>5. CASE EnvChanged
  <2>1. slot'.kind = slot.kind /\ slot'.reason = slot.reason
    BY <1>5 DEF EnvChanged, Typed, TypeOK, Slots
  <2> QED BY <1>5, <1>r, <2>1
          DEF EnvChanged, WireFits, WireFollowsSlot, DormantOnWire
<1>6. CASE MintToken \/ MintBuildThrows \/ UNCHANGED vars
  BY <1>6, <1>r, WireKept DEF MintToken, MintBuildThrows, vars, WireFits
<1> QED BY <1>1, <1>2, <1>3, <1>4, <1>5, <1>6, CallerStartsWire,
           CallerStepWire
        DEF Next

\* The two flags clients draw the desk by are those of the slot, whatever
\* swaps, releases, stops, wakes and dead streams overlap (emitChanges writes
\* them from the slot; the code says that `dormant' is a function of it).
THEOREM WireIsSlot == Spec => []WireFollowsSlot
<1>1. Init => WireFits
  <2>1. Init => Reasoned
    BY DEF Init, Reasoned, NoCall
  <2>2. Init => WireFollowsSlot
    <3> SUFFICES ASSUME Init PROVE WireFollowsSlot
      OBVIOUS
    <3>1. PICK reason : /\ slot = Released(reason)
                        /\ wire = [dormant |-> reason # "none",
                                   swapping |-> FALSE]
      BY DEF Init
    <3> QED BY ZenonT(40), <3>1, SlotFields DEF WireFollowsSlot, DormantOnWire
  <2> QED BY <2>1, <2>2 DEF WireFits
<1>2. WireFits => WireFollowsSlot
  BY DEF WireFits
<1> QED BY <1>1, <1>2, NextWire, InitGuards, NextGuards, AlwaysTyped, PTL
        DEF Spec


-----------------------------------------------------------------------------
(* Whose chat is on screen.                                                *)

\* A caller drops the agent's conversation (dropUnresumableSession) while a
\* swap that switched to it still drains.
DropsInSwitch ==
  slot.kind = "swapping" /\ slot.switches /\ conversationId' # conversationId

\* The chat on screen is the one chatSessionId names, and the swap that holds
\* the lock switches as its slot says, to the agent's conversation.
ChatFits ==
  /\ ChatNamesScreen
  /\ slot.kind = "swapping" =>
       /\ caller[slot.holder].adopt = slot.switches
       /\ slot.switches => caller[slot.holder].target = conversationId

\* A step that leaves the slot, the chat and the lock's holder alone.
LEMMA ChatKept ==
  ASSUME ChatFits, UNCHANGED chatVars,
         \/ slot'.kind = "dead"
         \/ /\ slot' = slot
            /\ slot.kind = "swapping" => UNCHANGED caller[slot.holder]
  PROVE  ChatFits'
BY DEF ChatFits, ChatNamesScreen, chatSessionId, chatVars

\* A step of a call that does not hold the lock.
LEMMA ChatOther ==
  ASSUME Typed, ChatFits, NEW c \in Callers, NEW call, SetCall(c, call),
         UNCHANGED <<slot, chatVars>>, slot.holder # c
  PROVE  ChatFits'
<1>1. slot.kind = "swapping" => UNCHANGED caller[slot.holder]
  BY CallsAfter DEF Typed, TypeOK, SlotShape
<1> QED BY <1>1, ChatKept

\* A free slot's chat is the agent's conversation.
LEMMA ChatFree ==
  /\ ChatFits /\ slot.kind \in {"live", "released"} => screen = conversationId
  /\ slot'.kind \in {"live", "released"} /\ screen' = conversationId'
       => ChatFits'
BY DEF ChatFits, ChatNamesScreen, chatSessionId

\* A swap takes the lock. The chat it leaves stays on screen, or goes with a
\* conversation that its caller dropped.
LEMMA ChatTakes ==
  ASSUME Typed, ChatFits, NEW c \in Callers, NEW call \in CallRecords,
         NEW conv \in {conversationId, NoConv}, NEW table,
         TakeLiveSlot(c, call, conv, table)
  PROVE  ChatFits'
<1> DEFINE new == [call EXCEPT !.pc = "draining", !.old = slot.session]
<1>1. new.adopt = call.adopt /\ new.target = call.target
  BY DEF CallRecords
<1>2. caller'[c] = new
  BY CallsAfter DEF TakeLiveSlot, Typed, TypeOK
<1> HIDE DEF new
<1>3. /\ slot'.kind = "swapping" /\ slot'.holder = c
      /\ slot'.switches = call.adopt /\ slot'.chat = conv
  BY SlotFields DEF TakeLiveSlot
<1>4. screen = conversationId
  BY ChatFree DEF TakeLiveSlot
<1>5. /\ screen' = conv
      /\ conversationId' = IF call.adopt THEN call.target ELSE conv
  BY <1>4 DEF TakeLiveSlot, StartSwap, Shown
<1>6. call.adopt \in BOOLEAN
  BY DEF CallRecords
<1> QED BY <1>1, <1>2, <1>3, <1>5, <1>6
        DEF ChatFits, ChatNamesScreen, chatSessionId

\* An install replays the target of a switching swap. `chat' is on screen
\* before it.
LEMMA ChatInstalls ==
  ASSUME Typed, NEW c, NEW call, call.adopt \in BOOLEAN,
         NEW chat,
         conversationId' = IF call.adopt THEN call.target ELSE chat
  PROVE  /\ \A s, table :
              InstallInSwap(c, call, s, table, chat) => ChatFits'
         /\ chat = screen /\ InstallReplacement(c, call) => ChatFits'
<1>1. ASSUME After(call, chat) PROVE screen' = conversationId'
  BY <1>1 DEF After
<1>2. ASSUME NEW s, NEW table, InstallInSwap(c, call, s, table, chat)
      PROVE  ChatFits'
  BY <1>1, <1>2, SlotFields, ChatFree DEF InstallInSwap
<1>3. ASSUME slot' = Released("unbuilt"), After(call, chat) PROVE ChatFits'
  BY <1>1, <1>3, SlotFields, ChatFree
<1> QED BY <1>2, <1>3 DEF InstallReplacement

\* replaceWith up to its first await. A drop in a swap that switches is
\* excluded.
LEMMA ReplaceWithChat ==
  ASSUME Typed, Guarded, ChatFits, ~DropsInSwitch,
         NEW c \in Callers, NEW call \in CallRecords,
         ~Drains(caller[c]),
         NEW conv \in {conversationId, NoConv}, ReplaceWith(c, call, conv)
  PROVE  ChatFits'
<1>0. call.adopt \in BOOLEAN
  BY DEF CallRecords
<1>1. CASE slot.kind = "swapping"
  <2>1. /\ SetCall(c, [call EXCEPT !.pc = "waiting"])
        /\ conversationId' = conv /\ screen' = Shown(conv) /\ slot' = slot
    BY <1>1 DEF ReplaceWith, RefuseDead, TakeLiveSlot
  <2>2. slot.holder \in Callers /\ slot.holder # c
    BY <1>1, GuardedSplit
  <2>3. caller'[slot.holder] = caller[slot.holder]
    BY <2>1, <2>2, CallsAfter DEF Typed, TypeOK
  <2>4. CASE slot.switches
    <3>1. conversationId' = conversationId
      BY <1>1, <2>4 DEF DropsInSwitch
    <3>2. screen' = screen
      BY <2>1, <3>1 DEF Shown
    <3> QED BY <1>1, <2>1, <2>3, <3>1, <3>2, ChatKept DEF chatVars
  <2>5. CASE ~slot.switches
    <3>1. screen = conversationId
      BY <1>1, <2>5 DEF ChatFits, ChatNamesScreen, chatSessionId
    <3>2. screen' = conversationId'
      BY <2>1, <3>1 DEF Shown
    <3> QED BY <1>1, <2>1, <2>3, <2>5, <3>2
            DEF ChatFits, ChatNamesScreen, chatSessionId
  <2> QED BY <2>4, <2>5
<1>2. CASE slot.kind = "dead"
  BY <1>2 DEF ReplaceWith, RefuseDead, TakeLiveSlot, ChatFits, ChatNamesScreen
<1>3. CASE slot.kind = "live"
  BY <1>3, ChatTakes DEF ReplaceWith, RefuseDead
<1>4. CASE slot.kind = "released"
  <2>1. /\ StartSwap(call, conv)
        /\ InstallInSwap(c, call, call.built, Opened(call.built), Shown(conv))
    BY <1>4 DEF ReplaceWith, RefuseDead, TakeLiveSlot
  <2>2. Shown(conv) = conv
    BY <1>4, ChatFree DEF Shown
  <2> QED BY <1>0, <2>1, <2>2, ChatInstalls DEF StartSwap
<1> QED BY <1>1, <1>2, <1>3, <1>4 DEF Typed, TypeOK, Slots

\* A release keeps the conversation, and the chat with it, or drops both.
LEMMA ReleaseChat ==
  ASSUME Typed, ChatFits, NEW c, NEW call, Release(c, call),
         \/ UNCHANGED chatVars
         \/ conversationId' = NoConv /\ screen' = NoConv
  PROVE  ChatFits'
<1>1. CASE slot.kind = "dead"
  BY <1>1 DEF Release, ChatFits, ChatNamesScreen
<1>2. CASE slot.kind # "dead"
  <2>1. slot.kind \in {"live", "released"} /\ slot'.kind = "released"
    BY <1>2, SlotFields DEF Release
  <2> QED BY <2>1, ChatFree DEF chatVars
<1> QED BY <1>1, <1>2

\* A call's start.
LEMMA CallerStartsChat ==
  ASSUME Typed, Guarded, ChatFits, ~DropsInSwitch, NEW c \in Callers,
         CallerStarts(c)
  PROVE  ChatFits'
<1>n. NoCall \in CallRecords
  BY CallTypes
<1>h. caller[c].pc = "idle" => slot.holder # c /\ ~Drains(caller[c])
  BY NullsAssumption, GuardedSplit DEF Drains, Typed, SlotShape
<1>1. ASSUME NEW s \in Sessions, NEW k \in ConvOrNone, NEW adopt \in BOOLEAN,
             CallReplace(c, s, adopt, k)
      PROVE  ChatFits'
  <2> DEFINE call == [NoCall EXCEPT !.op = "swap", !.target = k,
                                    !.adopt = adopt, !.built = s]
  <2>1. call \in CallRecords
    BY <1>n DEF CallRecords, AllOps, SessionOrNone
  <2>2. \E conv \in {conversationId, NoConv} : ReplaceWith(c, call, conv)
    BY <1>1 DEF CallReplace
  <2>3. ~Drains(caller[c])
    BY <1>1, <1>h DEF CallReplace
  <2> HIDE DEF call
  <2> QED BY <2>1, <2>2, <2>3, ReplaceWithChat
<1>2. ASSUME NEW s \in Sessions, NEW k \in ConvOrNone, MintAndReplace(c, s, k)
      PROVE  ChatFits'
  <2> DEFINE call == [NoCall EXCEPT !.op = "swap", !.target = k, !.built = s]
  <2>1. call \in CallRecords
    BY <1>n DEF CallRecords, AllOps, SessionOrNone
  <2>2. TakeLiveSlot(c, call, conversationId, Opened(s))
    BY <1>2 DEF MintAndReplace
  <2> HIDE DEF call
  <2> QED BY <2>1, <2>2, ChatTakes
<1>3. ASSUME NEW reason \in ReleaseReasons, CallRelease(c, reason)
      PROVE  ChatFits'
  <2> DEFINE call == [NoCall EXCEPT !.op = "release", !.reason = reason]
  <2>1. CASE /\ SetCall(c, [call EXCEPT !.pc = "waiting"])
             /\ UNCHANGED <<slot, wire, proc, turnVars>> /\ reason # "fresh"
    <3>1. UNCHANGED chatVars /\ caller[c].pc = "idle"
      BY <1>3, <2>1 DEF CallRelease
    <3> QED BY <1>h, <2>1, <3>1, ChatOther
  <2>2. CASE Release(c, call)
    BY <1>3, <2>2, ReleaseChat DEF CallRelease
  <2> QED BY <1>3, <2>1, <2>2 DEF CallRelease
<1>4. CASE CallStop(c)
  <2>1. PICK call : SetCall(c, call)
    BY <1>4 DEF CallStop
  <2> QED BY <1>4, <1>h, <2>1, ChatOther DEF CallStop
<1> QED BY <1>1, <1>2, <1>3, <1>4 DEF CallerStarts

\* A call's later steps: the swap that drained replays the conversation the
\* agent has.
LEMMA CallerStepChat ==
  ASSUME Typed, Guarded, ChatFits, ~DropsInSwitch, NEW c \in Callers,
         CallerStep(c)
  PROVE  ChatFits'
<1>t. /\ caller[c] \in CallRecords /\ CallOK(caller[c])
      /\ caller[c].adopt \in BOOLEAN
  BY TypedSplit DEF SwapTyped, CallShape, CallRecords
<1>h. ~Drains(caller[c]) => slot.holder # c
  BY NullsAssumption, GuardedSplit DEF Typed, SlotShape
<1>1. CASE SwapProceeds(c)
  <2>1. CASE slot.kind = "released"
    <3>1. conversationId' = IF caller[c].adopt THEN caller[c].target ELSE screen
      BY <1>1, <2>1, ChatFree
         DEF SwapProceeds, RefuseDead, TakeLiveSlot, StartSwap
    <3>2. InstallReplacement(c, caller[c])
      BY <1>1, <2>1 DEF SwapProceeds, RefuseDead, TakeLiveSlot
    <3> QED BY <1>t, <3>1, <3>2, ChatInstalls
  <2>2. CASE TakeLiveSlot(c, caller[c], conversationId, proc)
    BY <1>t, <2>2, ChatTakes
  <2>3. CASE RefuseDead(c, caller[c], conversationId, proc)
    BY <2>3 DEF RefuseDead, ChatFits, ChatNamesScreen
  <2> QED BY <1>1, <2>1, <2>2, <2>3 DEF SwapProceeds
<1>2. CASE SwapDrained(c)
  <2>1. CASE slot.holder = c
    <3>1. slot.kind = "swapping"
      BY <2>1, NullsAssumption DEF Typed, SlotShape
    <3>2. conversationId' = IF caller[c].adopt THEN caller[c].target ELSE screen
      BY <1>2, <2>1, <3>1
         DEF SwapDrained, ChatFits, ChatNamesScreen, chatSessionId
    <3> QED BY <1>2, <1>t, <2>1, <3>2, ChatInstalls DEF SwapDrained
  <2>2. CASE slot.holder # c
    BY <1>2, <2>2, ChatOther DEF SwapDrained, chatVars
  <2> QED BY <2>1, <2>2
<1>3. CASE ReleaseProceeds(c)
  BY <1>3, ReleaseChat DEF ReleaseProceeds
<1>4. ASSUME NEW s \in Sessions, NEW k \in ConvOrNone, StopReplaces(c, s, k)
      PROVE  ChatFits'
  <2> DEFINE call == [caller[c] EXCEPT !.target = k, !.built = s]
  <2>1. call \in CallRecords
    BY <1>t DEF CallRecords, SessionOrNone
  <2>2. /\ ~Drains(caller[c]) /\ k \in {conversationId, NoConv}
        /\ ReplaceWith(c, call, k)
    BY <1>4 DEF StopReplaces, Drains
  <2> HIDE DEF call
  <2> QED BY <2>1, <2>2, ReplaceWithChat
<1>5. CASE \/ ReleaseDrained(c) \/ StopNothing(c) \/ StopHot(c)
           \/ StopHotSettled(c) \/ StopBuildThrows(c) \/ StopDone(c)
           \/ StopJoined(c)
  <2>1. ~Drains(caller[c])
    BY <1>5 DEF ReleaseDrained, StopNothing, StopHot, StopHotSettled,
                StopBuildThrows, StopDone, StopJoined, Drains
  <2>2. UNCHANGED <<slot, chatVars>> /\ \E call : SetCall(c, call)
    BY <1>5 DEF ReleaseDrained, StopNothing, StopHot, StopHotSettled,
                StopBuildThrows, StopDone, StopJoined
  <2> QED BY <1>h, <2>1, <2>2, ChatOther
<1> QED BY <1>1, <1>2, <1>3, <1>4, <1>5 DEF CallerStep

\* Every step but a drop in a swap that switches keeps the chat named.
LEMMA NextChat ==
  Typed /\ Guarded /\ ChatFits /\ [Next]_vars /\ [~DropsInSwitch]_vars
    => ChatFits'
<1> SUFFICES ASSUME Typed, Guarded, ChatFits, [Next]_vars,
                    [~DropsInSwitch]_vars
             PROVE  ChatFits'
  OBVIOUS
<1>u. CASE UNCHANGED vars
  BY <1>u, ChatKept DEF vars
<1>d. CASE ~DropsInSwitch /\ Next
  <2>1. ASSUME NEW s \in Sessions, BackendStep(s)
        PROVE  ChatFits'
    <3>1. CASE StreamEnds(s) /\ slot.kind = "live" /\ slot.session = s
                 /\ ~aborting
      <4>1. slot'.kind = "released" /\ UNCHANGED chatVars
        BY <3>1, SlotFields DEF StreamEnds
      <4> QED BY <3>1, <4>1, ChatFree DEF chatVars
    <3>2. ASSUME NEW k, SystemInit(s, k) PROVE ChatFits'
      <4>1. slot.kind = "live" /\ slot' = slot /\ screen' = conversationId'
        BY <3>2, NullsAssumption DEF SystemInit, Typed, SlotShape
      <4> QED BY <4>1, ChatFree
    <3>3. CASE UNCHANGED <<slot, chatVars, caller>>
      BY <3>3, ChatKept
    <3> QED BY <2>1, <3>1, <3>2, <3>3
            DEF BackendStep, StreamEnds, StreamThrows, TurnEnds
  <2>2. ASSUME NEW s \in Sessions, NEW k \in ConvOrNone, InstallSession(s, k)
        PROVE  ChatFits'
    <3>1. CASE slot.kind = "released"
      <4>1. slot'.kind = "live" /\ conversationId' = k /\ screen' = Shown(k)
        BY <2>2, <3>1, SlotFields DEF InstallSession
      <4>2. Shown(k) = k
        BY <2>2, <3>1, ChatFree DEF InstallSession, Shown
      <4> QED BY <4>1, <4>2, ChatFree
    <3>2. CASE slot.kind # "released"
      BY <2>2, <3>2, ChatKept DEF InstallSession
    <3> QED BY <3>1, <3>2
  <2>3. ASSUME NEW t \in Turns, TurnStep(t)
        PROVE  ChatFits'
    BY <2>3, ChatKept DEF TurnStep, BeginTurn, BailTurn, SendTurn, SendThrows
  <2>4. CASE Kill
    BY <2>4, SlotFields, ChatKept DEF Kill
  <2>5. CASE EnvChanged
    <3>1. /\ slot'.kind = slot.kind /\ slot'.holder = slot.holder
          /\ slot'.switches = slot.switches /\ slot'.chat = slot.chat
      BY <2>5 DEF EnvChanged, Typed, TypeOK, Slots
    <3> QED BY <2>5, <3>1
            DEF EnvChanged, ChatFits, ChatNamesScreen, chatSessionId, chatVars
  <2>6. CASE MintToken \/ MintBuildThrows
    BY <2>6, ChatKept DEF MintToken, MintBuildThrows
  <2> QED BY <1>d, <2>1, <2>2, <2>3, <2>4, <2>5, <2>6, CallerStartsChat,
             CallerStepChat
          DEF Next
<1> QED BY <1>u, <1>d DEF vars

\* As long as no caller drops the agent's conversation under a swap that
\* switched to it, a write about the chat on screen goes to the conversation the
\* chat belongs to (the getter chatSessionId), also while the swap drains and
\* its target is already the agent's conversation.
THEOREM ChatIsNamed ==
  Spec /\ [][~DropsInSwitch]_vars => []ChatNamesScreen
<1>1. Init => ChatFits
  BY SlotFields DEF Init, ChatFits, ChatNamesScreen, chatSessionId
<1>2. ChatFits => ChatNamesScreen
  BY DEF ChatFits
<1> QED BY <1>1, <1>2, NextChat, InitGuards, NextGuards, AlwaysTyped, PTL
        DEF Spec

-----------------------------------------------------------------------------
(* A replacement was never bound.                                          *)

\* A process is bound at most once: what a call carries has no consumer yet,
\* and no two calls carry the same process.
NeverBound ==
  /\ \A s \in Sessions : proc[s] = "unbuilt" => consumer[s] = "none"
  /\ slot.kind = "live" => consumer[slot.session] # "none"
  /\ \A c \in Callers : Carries(caller[c]) =>
       /\ consumer[caller[c].built] = "none"
       /\ proc[caller[c].built] # "unbuilt"
  /\ \A c \in Callers, d \in Callers :
       c # d /\ Carries(caller[c]) /\ Carries(caller[d])
         => caller[c].built # caller[d].built

\* A process that caller c alone may have: a new one, or the one it carries.
Own(c, s) == proc[s] = "unbuilt" \/ (Carries(caller[c]) /\ caller[c].built = s)

\* No process goes back to being unbuilt.
KeepsBuilt == \A x \in Sessions : proc[x] # "unbuilt" => proc'[x] # "unbuilt"

\* Only a process of c's own gets a consumer, and it is built by then.
StartsOwn(c) ==
  \A x \in Sessions : consumer'[x] # consumer[x] =>
    Own(c, x) /\ consumer'[x] = "reading" /\ proc'[x] # "unbuilt"

\* The slot binds nothing new, or what it binds has its consumer.
BindsRead ==
  slot'.kind = "live" =>
    \/ slot.kind = "live" /\ slot'.session = slot.session
    \/ slot'.session \in Sessions /\ consumer'[slot'.session] = "reading"

\* What a call carries after its step is its own, built and not yet read.
CarriesOwn(c, call) ==
  Carries(call) => /\ call.built \in Sessions
                   /\ Own(c, call.built)
                   /\ consumer'[call.built] = "none"
                   /\ proc'[call.built] # "unbuilt"

\* A step of a call that keeps to its own processes.
LEMMA NeverBoundStep ==
  ASSUME Typed, NeverBound, NEW c \in Callers, NEW call, SetCall(c, call),
         KeepsBuilt, StartsOwn(c), BindsRead, CarriesOwn(c, call)
  PROVE  NeverBound'
<1>1. caller'[c] = call /\ \A d \in Callers : d # c => caller'[d] = caller[d]
  BY CallsAfter DEF Typed, TypeOK
<1>2. \A d \in Callers : Carries(caller[d]) => caller[d].built \in Sessions
  BY DEF Typed, CallShape, CallOK, Carries
<1>3. slot.kind = "live" => slot.session \in Sessions
  BY DEF Typed, SlotShape
<1>4. \A s \in Sessions : proc'[s] = "unbuilt" => consumer'[s] = "none"
  BY DEF NeverBound, KeepsBuilt, StartsOwn
<1>5. slot'.kind = "live" => consumer'[slot'.session] # "none"
  BY <1>3 DEF NeverBound, BindsRead, StartsOwn
<1>6. ASSUME NEW d \in Callers, d # c, Carries(caller[d])
      PROVE  /\ ~Own(c, caller[d].built)
             /\ consumer'[caller[d].built] = "none"
             /\ proc'[caller[d].built] # "unbuilt"
  <2>1. ~Own(c, caller[d].built)
    BY <1>6 DEF NeverBound, Own
  <2> QED BY <1>2, <1>6, <2>1 DEF NeverBound, KeepsBuilt, StartsOwn
<1>7. \A d \in Callers : Carries(caller'[d]) =>
        /\ consumer'[caller'[d].built] = "none"
        /\ proc'[caller'[d].built] # "unbuilt"
  BY <1>1, <1>6 DEF CarriesOwn
<1>8. \A d \in Callers : d # c /\ Carries(call) /\ Carries(caller[d])
        => call.built # caller[d].built
  BY <1>6 DEF CarriesOwn
<1>9. \A d \in Callers, e \in Callers :
        d # e /\ Carries(caller'[d]) /\ Carries(caller'[e])
          => caller'[d].built # caller'[e].built
  BY <1>1, <1>8 DEF NeverBound
<1> QED BY <1>4, <1>5, <1>7, <1>9 DEF NeverBound, Carries

\* A step of no call.
LEMMA NeverBoundKept ==
  ASSUME Typed, NeverBound, UNCHANGED caller, KeepsBuilt,
         \A x \in Sessions : proc'[x] = "unbuilt" => consumer'[x] = "none",
         \A x \in Sessions : \/ (consumer'[x] = "none") = (consumer[x] = "none")
                             \/ proc[x] = "unbuilt",
         BindsRead
  PROVE  NeverBound'
<1>2. \A d \in Callers : Carries(caller[d]) => caller[d].built \in Sessions
  BY DEF Typed, CallShape, CallOK, Carries
<1>3. slot.kind = "live" => slot.session \in Sessions
  BY DEF Typed, SlotShape
<1>5. slot'.kind = "live" => consumer'[slot'.session] # "none"
  BY <1>3 DEF NeverBound, BindsRead
<1>6. \A d \in Callers : Carries(caller[d]) =>
        /\ consumer'[caller[d].built] = "none"
        /\ proc'[caller[d].built] # "unbuilt"
  BY <1>2 DEF NeverBound, KeepsBuilt
<1> QED BY <1>5, <1>6 DEF NeverBound, Carries

\* Closing and opening leave what is built built.
LEMMA ProcFacts ==
  ASSUME NEW p \in [Sessions -> Procs], proc \in [Sessions -> Procs],
         NEW s \in Sessions
  PROVE  /\ \A x \in Sessions : \A y : p[x] # "unbuilt" => Close(p, y)[x] # "unbuilt"
         /\ Opened(s)[s] # "unbuilt"
         /\ \A x \in Sessions : proc[x] # "unbuilt" => Opened(s)[x] # "unbuilt"
BY DEF Close, Opened, Procs

-----------------------------------------------------------------------------
(* The transitions of the table.                                           *)

TableStep == [Table!Next]_(Table!tableVars)

\* Whether a process has had a consumer did not change.
SameRead ==
  \A x \in Sessions : (consumer'[x] # "none") <=> (consumer[x] # "none")

\* A stutter of the table.
LEMMA MapStutter ==
  ASSUME SameRead, slot'.kind = slot.kind, slot'.session = slot.session
  PROVE  TableStep
BY DEF TableStep, SameRead, Table!tableVars

\* An install: the slot had no process and the new one had no consumer.
LEMMA MapBind ==
  ASSUME Typed, NEW s \in Sessions, slot.kind \in {"released", "swapping"},
         consumer[s] = "none", slot'.kind = "live", slot'.session = s,
         consumer' = [consumer EXCEPT ![s] = "reading"]
  PROVE  TableStep
<1>1. slot.session = NoSession
  BY DEF Typed, SlotShape
<1>2. {x \in Sessions : consumer'[x] # "none"} \ {s}
        = {x \in Sessions : consumer[x] # "none"} \ {slot.session}
  BY <1>1, NullsAssumption DEF Typed, TypeOK
<1> QED BY <1>2 DEF TableStep, Table!Next, Table!Bind

\* The slot lets its process go.
LEMMA MapUnbind ==
  ASSUME Typed, NeverBound, SameRead, slot.kind = "live",
         slot'.kind \in {"swapping", "released"}, slot'.session = NoSession
  PROVE  TableStep
<1>1. slot.session \in Sessions /\ consumer[slot.session] # "none"
  BY DEF Typed, SlotShape, NeverBound
<1>2. {x \in Sessions : consumer'[x] # "none"} \ {slot'.session}
        = ({x \in Sessions : consumer[x] # "none"} \ {slot.session})
            \cup {slot.session}
  BY <1>1, NullsAssumption DEF SameRead
<1> QED BY <1>2 DEF TableStep, Table!Next, Table!Unbind

\* A swap that could not build its replacement frees the slot.
LEMMA MapUnbuilt ==
  ASSUME Typed, UNCHANGED consumer, slot.kind = "swapping",
         slot'.kind = "released", slot'.session = NoSession
  PROVE  TableStep
BY DEF Typed, SlotShape, TableStep, Table!Next, Table!Unbuilt

\* A kill.
LEMMA MapKill ==
  ASSUME Typed, NeverBound, UNCHANGED consumer, slot.kind # "dead",
         slot'.kind = "dead", slot'.session = NoSession
  PROVE  TableStep
<1>1. CASE slot.kind = "live"
  <2>1. slot.session \in Sessions /\ consumer[slot.session] # "none"
    BY <1>1 DEF Typed, SlotShape, NeverBound
  <2>2. {x \in Sessions : consumer'[x] # "none"} \ {slot'.session}
          = ({x \in Sessions : consumer[x] # "none"} \ {slot.session})
              \cup {slot.session}
    BY <2>1, NullsAssumption
  <2> QED BY <2>1, <2>2, NullsAssumption DEF TableStep, Table!Next, Table!Kill
<1>2. CASE slot.kind # "live"
  BY <1>2 DEF Typed, SlotShape, TableStep, Table!Next, Table!Kill
<1> QED BY <1>1, <1>2

-----------------------------------------------------------------------------
(* The operations.                                                         *)

Refines == NeverBound' /\ TableStep

\* A step of a call that starts no consumer, carries nothing new and leaves the
\* slot alone.
LEMMA QuietRefines ==
  ASSUME Typed, NeverBound, NEW c \in Callers, NEW call, SetCall(c, call),
         ~Carries(call), UNCHANGED <<slot, consumer>>, KeepsBuilt
  PROVE  Refines
<1>1. StartsOwn(c) /\ BindsRead /\ CarriesOwn(c, call) /\ SameRead
  BY DEF StartsOwn, BindsRead, CarriesOwn, SameRead
<1> QED BY <1>1, NeverBoundStep, MapStutter DEF Refines

\* A swap that takes the lock unbinds, with a replacement of its own.
LEMMA TakeLiveSlotRefines ==
  ASSUME Typed, NeverBound, NEW c \in Callers, NEW call, SwapCall(call),
         NEW conv, NEW table \in [Sessions -> Procs],
         \A x \in Sessions : proc[x] # "unbuilt" => table[x] # "unbuilt",
         Own(c, call.built), table[call.built] # "unbuilt",
         TakeLiveSlot(c, call, conv, table)
  PROVE  Refines
<1> DEFINE new == [call EXCEPT !.pc = "draining", !.old = slot.session]
<1>1. new.built = call.built /\ SetCall(c, new)
  BY DEF SwapCall, CallRecords, TakeLiveSlot
<1> HIDE DEF new
<1>2. /\ slot.kind = "live"
      /\ slot'.kind = "swapping" /\ slot'.session = NoSession
      /\ UNCHANGED consumer
      /\ proc' = Close(table, slot.session)
  BY SlotFields DEF TakeLiveSlot
<1>3. \A x \in Sessions : table[x] # "unbuilt" => proc'[x] # "unbuilt"
  BY <1>2 DEF Close, Procs
<1>4. call.built \in Sessions /\ consumer[call.built] = "none"
  BY DEF SwapCall, Own, NeverBound
<1>5. KeepsBuilt /\ StartsOwn(c) /\ BindsRead /\ SameRead
  BY <1>2, <1>3 DEF KeepsBuilt, StartsOwn, BindsRead, SameRead
<1>6. CarriesOwn(c, new)
  BY <1>1, <1>2, <1>3, <1>4 DEF CarriesOwn
<1> QED BY <1>1, <1>2, <1>5, <1>6, NeverBoundStep, MapUnbind DEF Refines

\* An install of a process of the call's own.
LEMMA InstallRefines ==
  ASSUME Typed, NeverBound, NEW c \in Callers, NEW call, SwapCall(call),
         NEW s \in Sessions, Own(c, s), NEW table, NEW chat,
         \A x \in Sessions : proc[x] # "unbuilt" => table[x] # "unbuilt",
         table[s] # "unbuilt",
         slot.kind \in {"released", "swapping"},
         InstallInSwap(c, call, s, table, chat)
  PROVE  Refines
<1>1. /\ SetCall(c, Finished(call))
      /\ slot'.kind = "live" /\ slot'.session = s
      /\ consumer' = [consumer EXCEPT ![s] = "reading"]
      /\ proc' = table
  BY SlotFields DEF InstallInSwap, StartConsumer
<1>2. consumer[s] = "none"
  BY DEF Own, NeverBound
<1>3. ~Carries(Finished(call))
  BY FinishedCarries DEF SwapCall
<1>4. consumer \in [Sessions -> Consumers]
  BY TypedSplit DEF SwapTyped
<1>5. KeepsBuilt /\ StartsOwn(c) /\ BindsRead /\ CarriesOwn(c, Finished(call))
  BY <1>1, <1>3, <1>4 DEF KeepsBuilt, StartsOwn, BindsRead, CarriesOwn
<1> QED BY <1>1, <1>2, <1>5, NeverBoundStep, MapBind DEF Refines

\* currentReplacement: the built process, one built again, or none.
LEMMA InstallReplacementRefines ==
  ASSUME Typed, NeverBound, NEW c \in Callers, NEW call, SwapCall(call),
         Own(c, call.built), proc[call.built] # "unbuilt",
         slot.kind \in {"released", "swapping"},
         InstallReplacement(c, call)
  PROVE  Refines
<1>t. proc \in [Sessions -> Procs] /\ call.built \in Sessions
  BY TypedSplit DEF SwapTyped, SwapCall
<1>1. CASE InstallInSwap(c, call, call.built, proc, screen)
  BY <1>1, <1>t, InstallRefines
<1>2. ASSUME NEW s \in Sessions, Build(s, call.target),
             InstallInSwap(c, call, s, Close(Opened(s), call.built), screen)
      PROVE  Refines
  <2>1. Own(c, s)
    BY <1>2 DEF Build, Fresh, Own
  <2>2. Opened(s) \in [Sessions -> Procs]
    BY <1>t, OpenedType
  <2>3. /\ Close(Opened(s), call.built)[s] # "unbuilt"
        /\ \A x \in Sessions : proc[x] # "unbuilt" =>
             Close(Opened(s), call.built)[x] # "unbuilt"
    BY <1>t, <2>2, ProcFacts
  <2> QED BY <1>2, <2>1, <2>3, InstallRefines
<1>3. CASE /\ slot' = Released("unbuilt")
           /\ proc' = Close(proc, call.built)
           /\ SetCall(c, Finished(call))
           /\ UNCHANGED consumer
  <2>1. slot'.kind = "released" /\ slot'.session = NoSession
    BY <1>3, SlotFields
  <2>2. KeepsBuilt
    BY <1>3, <1>t, ProcFacts DEF KeepsBuilt
  <2>3. ~Carries(Finished(call))
    BY FinishedCarries DEF SwapCall
  <2>4. /\ StartsOwn(c) /\ BindsRead /\ SameRead
        /\ CarriesOwn(c, Finished(call))
    BY <1>3, <2>1, <2>3 DEF StartsOwn, BindsRead, CarriesOwn, SameRead
  <2>5. TableStep
    <3>1. CASE slot.kind = "swapping"
      BY <1>3, <2>1, <3>1, MapUnbuilt
    <3>2. CASE slot.kind = "released"
      BY <2>1, <2>4, <3>2, MapStutter DEF Typed, SlotShape
    <3> QED BY <3>1, <3>2
  <2> QED BY <1>3, <2>2, <2>4, <2>5, NeverBoundStep DEF Refines
<1> QED BY <1>1, <1>2, <1>3 DEF InstallReplacement

\* replaceWith up to its first await.
LEMMA ReplaceWithRefines ==
  ASSUME Typed, NeverBound, NEW c \in Callers, NEW call, SwapCall(call),
         NEW conv, ReplaceWith(c, call, conv)
  PROVE  Refines
<1>t. proc \in [Sessions -> Procs] /\ call.built \in Sessions
  BY TypedSplit DEF SwapTyped, SwapCall
<1>b. Own(c, call.built) /\ consumer[call.built] = "none"
  BY <1>t DEF ReplaceWith, Build, Fresh, Own, NeverBound
<1>o. /\ Opened(call.built) \in [Sessions -> Procs]
      /\ Opened(call.built)[call.built] # "unbuilt"
      /\ \A x \in Sessions : proc[x] # "unbuilt" =>
           Opened(call.built)[x] # "unbuilt"
  BY <1>t, OpenedType, ProcFacts
<1>1. CASE /\ SetCall(c, [call EXCEPT !.pc = "waiting"])
           /\ proc' = Opened(call.built)
           /\ UNCHANGED <<slot, consumer>>
  <2> DEFINE new == [call EXCEPT !.pc = "waiting"]
  <2>1. new.built = call.built
    BY DEF SwapCall, CallRecords
  <2> HIDE DEF new
  <2>2. /\ KeepsBuilt /\ StartsOwn(c) /\ BindsRead /\ SameRead
        /\ CarriesOwn(c, new)
    BY <1>1, <1>t, <1>b, <1>o, <2>1
    DEF KeepsBuilt, StartsOwn, BindsRead, SameRead, CarriesOwn
  <2>3. SetCall(c, new)
    BY <1>1 DEF new
  <2> QED BY <1>1, <2>2, <2>3, NeverBoundStep, MapStutter DEF Refines
<1>2. CASE RefuseDead(c, call, conv, Opened(call.built))
  <2>1. KeepsBuilt
    BY <1>2, <1>t, <1>o, ProcFacts DEF RefuseDead, KeepsBuilt
  <2>2. ~Carries(Finished(call))
    BY FinishedCarries DEF SwapCall
  <2> QED BY <1>2, <2>1, <2>2, QuietRefines DEF RefuseDead
<1>3. CASE TakeLiveSlot(c, call, conv, Opened(call.built))
  BY <1>3, <1>b, <1>o, TakeLiveSlotRefines
<1>4. CASE /\ slot.kind = "released"
           /\ InstallInSwap(c, call, call.built, Opened(call.built),
                            Shown(conv))
  BY <1>4, <1>t, <1>b, <1>o, InstallRefines
<1> QED BY <1>1, <1>2, <1>3, <1>4 DEF ReplaceWith

\* closeAndDrainSession up to its drain.
LEMMA ReleaseRefines ==
  ASSUME Typed, NeverBound, NEW c \in Callers, NEW call \in CallRecords,
         call.op = "release", Release(c, call), UNCHANGED consumer
  PROVE  Refines
<1>t. proc \in [Sessions -> Procs]
  BY TypedSplit DEF SwapTyped
<1>f. ~Carries(Finished(call))
  BY FinishedCarries
<1>1. CASE slot.kind = "dead"
  BY <1>1, <1>f, QuietRefines DEF Release, KeepsBuilt
<1>2. CASE slot.kind \in {"live", "released"}
  <2> DEFINE new == IF slot.session = NoSession THEN Finished(call)
                    ELSE [call EXCEPT !.pc = "draining", !.old = slot.session]
  <2>1. ~Carries(new)
    BY <1>f DEF Carries, CallRecords
  <2>2. SetCall(c, new)
    BY <1>2 DEF Release
  <2> HIDE DEF new
  <2>3. slot'.kind = "released" /\ slot'.session = NoSession
    BY <1>2, SlotFields DEF Release
  <2>4. KeepsBuilt
    BY <1>2, <1>t DEF Release, KeepsBuilt, Close, Procs
  <2>5. StartsOwn(c) /\ BindsRead /\ CarriesOwn(c, new) /\ SameRead
    BY <2>1, <2>3 DEF StartsOwn, BindsRead, CarriesOwn, SameRead
  <2>6. TableStep
    <3>1. CASE slot.kind = "live"
      BY <2>3, <2>5, <3>1, MapUnbind
    <3>2. CASE slot.kind = "released"
      BY <2>3, <2>5, <3>2, MapStutter DEF Typed, SlotShape
    <3> QED BY <1>2, <3>1, <3>2
  <2> QED BY <2>2, <2>4, <2>5, <2>6, NeverBoundStep DEF Refines
<1> QED BY <1>1, <1>2 DEF Release

\* A call's start.
LEMMA CallerStartsRefines ==
  ASSUME Typed, NeverBound, NEW c \in Callers, CallerStarts(c)
  PROVE  Refines
<1>n. NoCall \in CallRecords
  BY CallTypes
<1>t. proc \in [Sessions -> Procs]
  BY TypedSplit DEF SwapTyped
<1>1. ASSUME NEW s \in Sessions, NEW k \in ConvOrNone, NEW adopt \in BOOLEAN,
             CallReplace(c, s, adopt, k)
      PROVE  Refines
  <2> DEFINE call == [NoCall EXCEPT !.op = "swap", !.target = k,
                                    !.adopt = adopt, !.built = s]
  <2>1. call \in CallRecords
    BY <1>n DEF CallRecords, AllOps, SessionOrNone
  <2>2. SwapCall(call)
    BY <2>1 DEF SwapCall, NoCall
  <2> QED BY <1>1, <2>2, ReplaceWithRefines DEF CallReplace
<1>2. ASSUME NEW s \in Sessions, NEW k \in ConvOrNone, MintAndReplace(c, s, k)
      PROVE  Refines
  <2> DEFINE call == [NoCall EXCEPT !.op = "swap", !.target = k, !.built = s]
  <2>1. call \in CallRecords
    BY <1>n DEF CallRecords, AllOps, SessionOrNone
  <2>2. SwapCall(call) /\ call.built = s
    BY <2>1 DEF SwapCall, NoCall, ConvOrNone
  <2>3. Own(c, s) /\ TakeLiveSlot(c, call, conversationId, Opened(s))
    BY <1>2 DEF MintAndReplace, Fresh, Own
  <2>4. /\ Opened(s) \in [Sessions -> Procs]
        /\ Opened(s)[s] # "unbuilt"
        /\ \A x \in Sessions : proc[x] # "unbuilt" => Opened(s)[x] # "unbuilt"
    BY <1>t, OpenedType, ProcFacts
  <2> HIDE DEF call
  <2> QED BY <2>2, <2>3, <2>4, TakeLiveSlotRefines
<1>3. ASSUME NEW reason \in ReleaseReasons, CallRelease(c, reason)
      PROVE  Refines
  <2> DEFINE call == [NoCall EXCEPT !.op = "release", !.reason = reason]
  <2>1. call \in CallRecords /\ call.op = "release"
    BY <1>n DEF CallRecords, AllOps, ReleaseReasons, Reasons, NoCall
  <2>2. UNCHANGED consumer
    BY <1>3 DEF CallRelease
  <2>3. CASE slot.kind = "swapping"
    <3>1. /\ SetCall(c, [call EXCEPT !.pc = "waiting"])
          /\ UNCHANGED <<slot, wire, proc, turnVars>>
      BY <1>3, <2>3 DEF CallRelease, Release
    <3>2. ~Carries([call EXCEPT !.pc = "waiting"])
      BY <2>1 DEF Carries, CallRecords
    <3> QED BY <2>2, <3>1, <3>2, QuietRefines DEF KeepsBuilt
  <2>4. CASE Release(c, call)
    BY <2>1, <2>2, <2>4, ReleaseRefines
  <2> QED BY <1>3, <2>3, <2>4 DEF CallRelease
<1>4. CASE CallStop(c)
  <2> DEFINE joins == [NoCall EXCEPT !.op = "stop", !.pc = "joining"]
             denies == [NoCall EXCEPT !.op = "stop", !.pc = "denying",
                                      !.turn = pendingTurn]
  <2>1. ~Carries(joins) /\ ~Carries(denies)
    BY DEF NoCall, Carries
  <2>2. SetCall(c, joins) \/ SetCall(c, denies)
    BY <1>4 DEF CallStop
  <2>3. UNCHANGED <<slot, consumer>> /\ KeepsBuilt
    BY <1>4 DEF CallStop, sessionVars, KeepsBuilt
  <2> HIDE DEF joins, denies
  <2> QED BY <2>1, <2>2, <2>3, QuietRefines
<1> QED BY <1>1, <1>2, <1>3, <1>4 DEF CallerStarts

\* A call's later steps.
LEMMA CallerStepRefines ==
  ASSUME Typed, NeverBound, NEW c \in Callers, CallerStep(c)
  PROVE  Refines
<1>t. /\ proc \in [Sessions -> Procs]
      /\ caller[c] \in CallRecords
      /\ CallOK(caller[c])
  BY TypedSplit DEF SwapTyped, CallShape
<1>f. ~Carries(Finished(caller[c]))
  BY <1>t, FinishedCarries
<1>1. CASE SwapProceeds(c)
  <2>1. /\ SwapCall(caller[c])
        /\ Own(c, caller[c].built)
        /\ proc[caller[c].built] # "unbuilt"
    BY <1>1, <1>t DEF SwapProceeds, SwapCall, CallOK, CallRecords, Carries,
                      Own, NeverBound
  <2>2. CASE RefuseDead(c, caller[c], conversationId, proc)
    <3>1. KeepsBuilt
      BY <1>t, <2>1, <2>2, ProcFacts DEF RefuseDead, KeepsBuilt, SwapCall
    <3> QED BY <1>f, <2>2, <3>1, QuietRefines DEF RefuseDead
  <2>3. CASE TakeLiveSlot(c, caller[c], conversationId, proc)
    BY <1>t, <2>1, <2>3, TakeLiveSlotRefines
  <2>4. CASE slot.kind = "released" /\ InstallReplacement(c, caller[c])
    BY <2>1, <2>4, InstallReplacementRefines
  <2> QED BY <1>1, <2>2, <2>3, <2>4 DEF SwapProceeds
<1>2. CASE SwapDrained(c)
  <2>1. /\ SwapCall(caller[c])
        /\ Own(c, caller[c].built)
        /\ proc[caller[c].built] # "unbuilt"
    BY <1>2, <1>t DEF SwapDrained, DrainOver, SwapCall, CallOK, CallRecords,
                      Carries, Own, NeverBound
  <2>2. CASE slot.holder = c
    <3>1. slot.kind = "swapping"
      BY <2>2, NullsAssumption DEF Typed, SlotShape
    <3> QED BY <1>2, <2>1, <2>2, <3>1, InstallReplacementRefines
            DEF SwapDrained
  <2>3. CASE slot.holder # c
    <3>1. KeepsBuilt
      BY <1>2, <1>t, <2>1, <2>3, ProcFacts
      DEF SwapDrained, KeepsBuilt, SwapCall
    <3> QED BY <1>2, <1>f, <2>3, <3>1, QuietRefines DEF SwapDrained
  <2> QED BY <2>2, <2>3
<1>3. CASE ReleaseProceeds(c)
  BY <1>3, <1>t, ReleaseRefines DEF ReleaseProceeds
<1>4. CASE ReleaseDrained(c)
  BY <1>4, <1>f, QuietRefines DEF ReleaseDrained, KeepsBuilt
<1>5. ASSUME NEW s \in Sessions, NEW k \in ConvOrNone, StopReplaces(c, s, k)
      PROVE  Refines
  <2> DEFINE call == [caller[c] EXCEPT !.target = k, !.built = s]
  <2>1. call \in CallRecords /\ call.built = s /\ call.op = caller[c].op
    BY <1>t DEF CallRecords, SessionOrNone
  <2>2. SwapCall(call)
    BY <1>5, <1>t, <2>1 DEF SwapCall, StopReplaces, CallOK, CallRecords
  <2> QED BY <1>5, <2>2, ReplaceWithRefines DEF StopReplaces
<1>6. CASE \/ StopNothing(c) \/ StopHot(c) \/ StopHotSettled(c)
           \/ StopBuildThrows(c) \/ StopDone(c) \/ StopJoined(c)
  <2>1. \A pc \in {"hot", "done"} : ~Carries([caller[c] EXCEPT !.pc = pc])
    BY <1>t DEF Carries, CallRecords
  <2>2. PICK call : SetCall(c, call) /\ ~Carries(call)
    BY <1>6, <1>f, <2>1 DEF StopNothing, StopHot, StopHotSettled,
       StopBuildThrows, StopDone, StopJoined
  <2>3. UNCHANGED <<slot, consumer>> /\ KeepsBuilt
    BY <1>6 DEF StopNothing, StopHot, StopHotSettled, StopBuildThrows,
                StopDone, StopJoined, sessionVars, KeepsBuilt
  <2> QED BY <2>2, <2>3, QuietRefines
<1> QED BY <1>1, <1>2, <1>3, <1>4, <1>5, <1>6 DEF CallerStep

\* A step of no call that leaves the slot alone.
LEMMA OtherRefines ==
  ASSUME Typed, NeverBound, UNCHANGED caller, SameRead,
         \A x \in Sessions : (proc'[x] = "unbuilt") = (proc[x] = "unbuilt"),
         slot'.kind = slot.kind, slot'.session = slot.session
  PROVE  Refines
<1>1. KeepsBuilt /\ BindsRead
  BY DEF KeepsBuilt, BindsRead
<1>2. \A x \in Sessions : proc'[x] = "unbuilt" => consumer'[x] = "none"
  BY DEF SameRead, NeverBound
<1>3. \A x \in Sessions : (consumer'[x] = "none") = (consumer[x] = "none")
  BY DEF SameRead
<1> QED BY <1>1, <1>2, <1>3, NeverBoundKept, MapStutter DEF Refines

\* Every step of the session manager is a step of the table or a stutter.
LEMMA NextRefines == Typed /\ NeverBound /\ [Next]_vars => Refines
<1> SUFFICES ASSUME Typed, NeverBound, [Next]_vars PROVE Refines
  OBVIOUS
<1>t. proc \in [Sessions -> Procs] /\ consumer \in [Sessions -> Consumers]
  BY TypedSplit DEF SwapTyped
<1>1. ASSUME NEW s \in Sessions, StreamEnds(s) \/ StreamThrows(s)
      PROVE  Refines
  <2>1. /\ consumer[s] = "reading"
        /\ consumer' = [consumer EXCEPT ![s] = "done"]
        /\ proc' = [proc EXCEPT ![s] = "exited"]
        /\ UNCHANGED caller
    BY <1>1 DEF StreamEnds, StreamThrows
  <2>2. SameRead /\ proc[s] # "unbuilt"
    BY <1>t, <2>1 DEF SameRead, NeverBound
  <2>3. \A x \in Sessions : (proc'[x] = "unbuilt") = (proc[x] = "unbuilt")
    BY <1>t, <2>1, <2>2
  <2>4. CASE UNCHANGED slot
    BY <2>1, <2>2, <2>3, <2>4, OtherRefines
  <2>5. CASE slot.kind = "live" /\ slot' = Released("stream-ended")
    <3>1. slot'.kind = "released" /\ slot'.session = NoSession
      BY <2>5, SlotFields
    <3>2. KeepsBuilt /\ BindsRead
      BY <2>3, <3>1 DEF KeepsBuilt, BindsRead
    <3>3. \A x \in Sessions : proc'[x] = "unbuilt" => consumer'[x] = "none"
      BY <2>2, <2>3 DEF SameRead, NeverBound
    <3>4. \A x \in Sessions : (consumer'[x] = "none") = (consumer[x] = "none")
      BY <2>2 DEF SameRead
    <3> QED BY <2>1, <2>2, <2>5, <3>1, <3>2, <3>3, <3>4, NeverBoundKept,
               MapUnbind
            DEF Refines
  <2> QED BY <1>1, <2>4, <2>5 DEF StreamEnds, StreamThrows
<1>2. ASSUME NEW s \in Sessions, NEW k \in ConvOrNone, InstallSession(s, k)
      PROVE  Refines
  <2>1. proc[s] = "unbuilt" /\ UNCHANGED caller
    BY <1>2 DEF InstallSession, Build, Fresh
  <2>2. consumer[s] = "none"
    BY <2>1 DEF NeverBound
  <2>3. Opened(s) \in [Sessions -> Procs]
    BY <1>t, OpenedType
  <2>4. proc' = Opened(s) \/ proc' = Close(Opened(s), s)
    BY <1>2 DEF InstallSession
  <2>5. KeepsBuilt /\ proc'[s] # "unbuilt"
    BY <1>t, <2>3, <2>4, ProcFacts DEF KeepsBuilt
  <2>6. CASE slot.kind = "released"
    <3>1. /\ slot'.kind = "live" /\ slot'.session = s
          /\ consumer' = [consumer EXCEPT ![s] = "reading"]
      BY <1>2, <2>6, SlotFields DEF InstallSession, StartConsumer
    <3>2. BindsRead
      BY <1>t, <3>1 DEF BindsRead
    <3>3. \A x \in Sessions : x # s => consumer'[x] = consumer[x]
      BY <1>t, <3>1
    <3>4. \A x \in Sessions : proc'[x] = "unbuilt" => consumer'[x] = "none"
      BY <2>5, <3>3 DEF NeverBound, KeepsBuilt
    <3> QED BY <2>1, <2>2, <2>5, <2>6, <3>1, <3>2, <3>3, <3>4, NeverBoundKept,
               MapBind
            DEF Refines
  <2>7. CASE slot.kind # "released"
    <3>1. UNCHANGED <<slot, consumer>>
      BY <1>2, <2>7 DEF InstallSession
    <3>2. BindsRead /\ SameRead
      BY <3>1 DEF BindsRead, SameRead
    <3>3. \A x \in Sessions : proc'[x] = "unbuilt" => consumer'[x] = "none"
      BY <2>5, <3>1 DEF NeverBound, KeepsBuilt
    <3> QED BY <2>1, <2>5, <3>1, <3>2, <3>3, NeverBoundKept, MapStutter
            DEF Refines
  <2> QED BY <2>6, <2>7
<1>3. CASE Kill
  <2>1. /\ slot.kind # "dead" /\ UNCHANGED <<caller, consumer>>
        /\ slot'.kind = "dead" /\ slot'.session = NoSession
    BY <1>3, SlotFields DEF Kill
  <2>2. KeepsBuilt /\ BindsRead
    BY <1>3, <1>t, <2>1 DEF Kill, KeepsBuilt, BindsRead, Close, Procs
  <2>3. \A x \in Sessions : proc'[x] = "unbuilt" => consumer'[x] = "none"
    BY <2>1, <2>2 DEF NeverBound, KeepsBuilt
  <2> QED BY <2>1, <2>2, <2>3, NeverBoundKept, MapKill DEF Refines
<1>4. CASE EnvChanged
  <2>1. slot'.kind = slot.kind /\ slot'.session = slot.session
    BY <1>4 DEF EnvChanged, Typed, TypeOK, Slots
  <2> QED BY <1>4, <2>1, OtherRefines DEF EnvChanged, SameRead
<1>5. CASE UNCHANGED <<slot, caller, consumer, proc>>
  BY <1>5, OtherRefines DEF SameRead
<1> QED BY <1>1, <1>2, <1>3, <1>4, <1>5, CallerStartsRefines, CallerStepRefines
        DEF Next, BackendStep, TurnEnds, SystemInit, TurnStep, BeginTurn,
            BailTurn, SendTurn, SendThrows, MintToken, MintBuildThrows, vars,
            sessionVars

\* The slot implements the safety part of its transition table (the header of
\* session-manager.ts): a process that left the slot is never bound again, dead
\* is final, and only a free or swapping slot binds. ImplementsTable, which TLC
\* checks, is this and the return of the lock.
THEOREM ImplementsTableSafely == Spec => Table!SafeSpec
<1>1. Init => Table!Init /\ NeverBound
  <2> SUFFICES ASSUME Init PROVE Table!Init /\ NeverBound
    OBVIOUS
  <2>1. slot.kind = "released" /\ slot.session = NoSession
    BY SlotFields DEF Init
  <2>2. Table!Init
    BY <2>1 DEF Init, Table!Init
  <2> QED BY <2>1, <2>2 DEF Init, NeverBound, Carries, NoCall
<1>2. Typed /\ NeverBound /\ [Next]_vars
        => NeverBound' /\ [Table!Next]_(Table!tableVars)
  BY NextRefines DEF Refines, TableStep
<1> QED BY <1>1, <1>2, AlwaysTyped, PTL DEF Spec, Table!SafeSpec
=============================================================================
