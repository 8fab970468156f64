---------------------------- MODULE SessionSlot ----------------------------
(***************************************************************************)
(* One agent's SessionManager (server/session-manager.ts): the process     *)
(* slot, the backend processes it opens and closes, their stream           *)
(* consumers, the per-turn deferred and the Stop bookkeeping.              *)
(*                                                                         *)
(* JavaScript runs one thread, so an action is one synchronous block: from *)
(* the end of an await to the next await. What overlaps is the awaits: the *)
(* swaps, releases and stops of several callers, the turns, and the        *)
(* consumers of old and new processes.                                     *)
(***************************************************************************)
EXTENDS Naturals, FiniteSets

CONSTANTS
  Sessions,   \* backend processes; each is built at most once
  Callers,    \* swap, release and stop calls; each runs once
  Turns,      \* runAgentTurn calls; each runs once
  Convs,      \* conversation ids
  Ops,        \* which operations the callers of a run perform
  NoSession, NoCaller, NoTurn, NoConv

AllOps == {"swap", "release", "stop"}

ASSUME NullsAssumption ==
  /\ NoSession \notin Sessions
  /\ NoCaller \notin Callers
  /\ NoTurn \notin Turns
  /\ NoConv \notin Convs
ASSUME OpsAssumption == Ops \subseteq AllOps

VARIABLES
  slot,            \* SessionManager.current
  wire,            \* the dormant and sessionSwapping flags clients see
  conversationId,  \* the conversation the agent resumes
  screen,          \* the conversation whose chat clients show
  proc,            \* proc[s]: the process behind session s
  consumer,        \* consumer[s]: the loop that reads s's stream
  runs,            \* runs[s]: the conversation s was built to resume
  onToken,         \* sessions built on the agent's current token
  onEnv,           \* sessions built with the current secrets and variables
  wedged,          \* sessions whose drain timed out and that still write
  caller,          \* caller[c]: where each call stands
  turn,            \* turn[t]: where each runAgentTurn call stands
  turnSession,     \* turnSession[t]: its session at entry, then at the send,
                   \*   until it settles
  pendingTurn,     \* the turn whose deferred is installed
  aborting         \* a Stop is in progress

sessionVars == <<proc, consumer, runs, onToken, onEnv, wedged>>
turnVars == <<turn, turnSession, pendingTurn>>
chatVars == <<conversationId, screen>>
vars == <<slot, wire, chatVars, sessionVars, caller, turnVars, aborting>>

-----------------------------------------------------------------------------
(* The state's types and its constructors.                                 *)

Reasons == {"idle", "env", "fresh", "boot", "stream-ended", "unbuilt", "none"}
ReleaseReasons == {"idle", "env", "fresh"}
ConvOrNone == Convs \cup {NoConv}
SessionOrNone == Sessions \cup {NoSession}

Slots == [kind     : {"live", "swapping", "released", "dead"},
          session  : SessionOrNone,
          envStale : BOOLEAN,
          holder   : Callers \cup {NoCaller},
          target   : ConvOrNone,
          switches : BOOLEAN,
          chat     : ConvOrNone,
          reason   : Reasons]

Live(s) ==
  [kind |-> "live", session |-> s, envStale |-> FALSE, holder |-> NoCaller,
   target |-> NoConv, switches |-> FALSE, chat |-> NoConv, reason |-> "none"]

Swapping(c, target, adopt, chat) ==
  [kind |-> "swapping", session |-> NoSession, envStale |-> FALSE,
   holder |-> c, target |-> target, switches |-> adopt, chat |-> chat,
   reason |-> "none"]

Released(reason) ==
  [kind |-> "released", session |-> NoSession, envStale |-> FALSE,
   holder |-> NoCaller, target |-> NoConv, switches |-> FALSE,
   chat |-> NoConv, reason |-> reason]

Dead ==
  [kind |-> "dead", session |-> NoSession, envStale |-> FALSE,
   holder |-> NoCaller, target |-> NoConv, switches |-> FALSE,
   chat |-> NoConv, reason |-> "none"]

DormantOnWire(sl) ==
  \/ sl.kind = "swapping"
  \/ sl.kind = "released" /\ sl.reason # "none"

\* The conversation the chat on screen belongs to.
chatSessionId ==
  IF slot.kind = "swapping" /\ slot.switches THEN slot.chat ELSE conversationId

CallerStates ==
  {"idle", "waiting", "draining", "denying", "hot", "joining", "unwinding",
   "done"}
CallRecords == [pc     : CallerStates,
                op     : AllOps \cup {"none"},
                target : ConvOrNone,
                adopt  : BOOLEAN,
                reason : Reasons,
                built  : SessionOrNone,
                old    : SessionOrNone,
                turn   : Turns \cup {NoTurn}]

NoCall == [pc |-> "idle", op |-> "none", target |-> NoConv, adopt |-> FALSE,
           reason |-> "none", built |-> NoSession, old |-> NoSession,
           turn |-> NoTurn]

TurnStates == {"none", "presend", "doomed", "sent", "ok", "swapped", "failed",
               "killed", "superseded"}

Init ==
  /\ \E reason \in {"boot", "fresh", "none"} :
       /\ slot = Released(reason)
       /\ wire = [dormant |-> reason # "none", swapping |-> FALSE]
  /\ conversationId \in ConvOrNone
  /\ screen = conversationId
  /\ proc = [s \in Sessions |-> "unbuilt"]
  /\ consumer = [s \in Sessions |-> "none"]
  /\ runs = [s \in Sessions |-> NoConv]
  /\ onToken = {}
  /\ onEnv = {}
  /\ wedged = {}
  /\ caller = [c \in Callers |-> NoCall]
  /\ turn = [t \in Turns |-> "none"]
  /\ turnSession = [t \in Turns |-> NoSession]
  /\ pendingTurn = NoTurn
  /\ aborting = FALSE

-----------------------------------------------------------------------------
(* Shared steps.                                                           *)

\* turnCancelToken++: every turn still before its send fails its next check.
Bumped ==
  [t \in Turns |-> IF turn[t] = "presend" THEN "doomed" ELSE turn[t]]

\* The installed deferred settles with `outcome`; the token moves as well.
BumpedAndSettled(outcome) ==
  [t \in Turns |-> IF t = pendingTurn THEN outcome
                   ELSE IF turn[t] = "presend" THEN "doomed"
                   ELSE turn[t]]

\* The installed deferred settles; turns before their send are untouched.
SettleTurn(outcome) ==
  /\ turn' = [t \in Turns |-> IF t = pendingTurn THEN outcome ELSE turn[t]]
  /\ turnSession' = [t \in Turns |-> IF t = pendingTurn THEN NoSession
                                     ELSE turnSession[t]]
  /\ pendingTurn' = NoTurn

\* Mutant: the close forgets to reject the installed deferred.
CancelTurnsUnsettled(outcome) ==
  /\ turn' = Bumped
  /\ UNCHANGED <<turnSession, pendingTurn>>

\* Mutant: the close rejects the deferred and forgets the cancel token.
CancelTurnsNoBump(outcome) == SettleTurn(outcome)

\* The close steps of a release and of a swap: cancel the turns.
CancelTurns(outcome) ==
  /\ turn' = BumpedAndSettled(outcome)
  /\ turnSession' = [t \in Turns |-> NoSession]
  /\ pendingTurn' = NoTurn

\* BackendSession.close() in a process table `p`. NoSession has nothing to
\* close, and an exited process stays exited.
Close(p, s) ==
  [x \in Sessions |-> IF x = s /\ p[x] = "open" THEN "closed" ELSE p[x]]

\* createSession: a new process for `conv`, on the current token and
\* environment. It throws when `s` cannot be built; the callers below have a
\* step for that.
Opened(s) == [proc EXCEPT ![s] = "open"]
Fresh(s) == proc[s] = "unbuilt"
Build(s, conv) ==
  /\ Fresh(s)
  /\ runs' = [runs EXCEPT ![s] = conv]
  /\ onToken' = onToken \cup {s}
  /\ onEnv' = onEnv \cup {s}

\* The chat on screen once the caller left conversationId at `conv`:
\* dropUnresumableSession clears the chat with the conversation.
Shown(conv) == IF conv = conversationId THEN screen ELSE NoConv

StartConsumer(s) == consumer' = [consumer EXCEPT ![s] = "reading"]

SetCall(c, call) == caller' = [caller EXCEPT ![c] = call]

\* A call is over: only what a Stop stopped is kept. A Stop that set `aborting`
\* still has its finally to run (StopDone).
Finished(call) ==
  [NoCall EXCEPT !.pc = IF call.turn # NoTurn THEN "unwinding" ELSE "done",
                 !.turn = call.turn]

-----------------------------------------------------------------------------
(* installSession: a wake of a released agent. Refused in any other kind,  *)
(* and the session it was given is closed.                                 *)

InstallSession(s, conv) ==
  /\ conv \in {conversationId, NoConv}
  /\ Build(s, conv)
  /\ IF slot.kind = "released"
     THEN /\ slot' = Live(s)
          /\ conversationId' = conv
          /\ screen' = Shown(conv)
          /\ proc' = Opened(s)
          /\ StartConsumer(s)
          /\ wire' = [wire EXCEPT !.dormant = FALSE]
     ELSE /\ proc' = Close(Opened(s), s)
          /\ UNCHANGED <<slot, consumer, wire, chatVars>>
  /\ UNCHANGED <<wedged, caller, turnVars, aborting>>

-----------------------------------------------------------------------------
(* replaceWith / replaceSession. `call` is the caller's record, `table` the *)
(* process table in which its replacement call.built is open.               *)

\* The swap starts: it cancels the turns and, when it switches, adopts its
\* target in place of `conv`.
StartSwap(call, conv) ==
  /\ CancelTurns("swapped")
  /\ conversationId' = IF call.adopt THEN call.target ELSE conv

\* Mutant: swap-then-drain, the replacement is installed before the old
\* process has drained.
TakeLiveSlotThenDrain(c, call, conv, table) ==
  /\ slot.kind = "live"
  /\ StartSwap(call, conv)
  /\ screen' = Shown(conv)
  /\ slot' = Live(call.built)
  /\ wire' = [dormant |-> FALSE, swapping |-> FALSE]
  /\ proc' = Close(table, slot.session)
  /\ SetCall(c, Finished(call))
  /\ StartConsumer(call.built)

\* A live slot: the swap takes the lock, closes the old process and drains it.
TakeLiveSlot(c, call, conv, table) ==
  /\ slot.kind = "live"
  /\ StartSwap(call, conv)
  /\ screen' = Shown(conv)
  /\ slot' = Swapping(c, call.target, call.adopt, conv)
  /\ wire' = [dormant |-> TRUE, swapping |-> TRUE]
  /\ proc' = Close(table, slot.session)
  /\ SetCall(c, [call EXCEPT !.pc = "draining", !.old = slot.session])
  /\ UNCHANGED consumer

\* A killed agent: the replacement is closed.
RefuseDead(c, call, conv, table) ==
  /\ slot.kind = "dead"
  /\ conversationId' = conv
  /\ screen' = Shown(conv)
  /\ proc' = Close(table, call.built)
  /\ SetCall(c, Finished(call))
  /\ UNCHANGED <<slot, wire, consumer, turnVars>>

\* The caller's `after`: a switching swap replays its target's chat.
After(call, chat) == screen' = IF call.adopt THEN call.target ELSE chat

\* The install of `s`, the caller's `after`, and the finally that frees the
\* lock: one synchronous block.
InstallInSwap(c, call, s, table, chat) ==
  /\ slot' = Live(s)
  /\ After(call, chat)
  /\ wire' = [dormant |-> FALSE, swapping |-> FALSE]
  /\ proc' = table
  /\ StartConsumer(s)
  /\ SetCall(c, Finished(call))

\* Mutant: the replacement is installed without a look at its token.
InstallReplacementAsBuilt(c, call) ==
  /\ InstallInSwap(c, call, call.built, proc, screen)
  /\ UNCHANGED <<runs, onToken, onEnv>>

\* currentReplacement, then the install: the built session; or, when the token
\* moved meanwhile, one built again; or none, when that build throws.
InstallReplacement(c, call) ==
  \/ /\ call.built \in onToken
     /\ InstallInSwap(c, call, call.built, proc, screen)
     /\ UNCHANGED <<runs, onToken, onEnv>>
  \/ /\ call.built \notin onToken
     /\ \E s \in Sessions :
          /\ Build(s, call.target)
          /\ InstallInSwap(c, call, s, Close(Opened(s), call.built), screen)
  \/ /\ call.built \notin onToken
     /\ slot' = Released("unbuilt")
     /\ After(call, screen)
     /\ wire' = [dormant |-> TRUE, swapping |-> FALSE]
     /\ proc' = Close(proc, call.built)
     /\ SetCall(c, Finished(call))
     /\ UNCHANGED <<consumer, runs, onToken, onEnv>>

\* replaceWith, the replacement just built: it runs up to its first await.
\* `conv` is conversationId as the caller left it.
ReplaceWith(c, call, conv) ==
  /\ Build(call.built, call.target)
  /\ \/ /\ slot.kind = "swapping"
        /\ SetCall(c, [call EXCEPT !.pc = "waiting"])
        /\ conversationId' = conv
        /\ screen' = Shown(conv)
        /\ proc' = Opened(call.built)
        /\ UNCHANGED <<slot, wire, consumer, turnVars>>
     \/ RefuseDead(c, call, conv, Opened(call.built))
     \/ TakeLiveSlot(c, call, conv, Opened(call.built))
     \/ /\ slot.kind = "released"
        /\ StartSwap(call, conv)
        /\ InstallInSwap(c, call, call.built, Opened(call.built), Shown(conv))
  /\ UNCHANGED <<wedged, aborting>>

\* A call to replaceWith: /resume and the edit-fork adopt their target; /model,
\* /effort, a settings change and the queue watchdog resume the current
\* conversation, or drop one that cannot be resumed for a fresh one. A change
\* of a fixed working directory starts a fresh one under the old name.
CallReplace(c, s, adopt, target) ==
  /\ "swap" \in Ops
  /\ caller[c].pc = "idle"
  /\ ~adopt => target \in {conversationId, NoConv}
  /\ \E conv \in {conversationId, IF adopt THEN conversationId ELSE target} :
       ReplaceWith(c, [NoCall EXCEPT !.op = "swap", !.target = target,
                                     !.adopt = adopt, !.built = s], conv)

\* A waiting swap finds the slot free (or dead).
SwapProceeds(c) ==
  /\ caller[c].pc = "waiting"
  /\ caller[c].op # "release"
  /\ slot.kind # "swapping"
  /\ \/ /\ RefuseDead(c, caller[c], conversationId, proc)
        /\ UNCHANGED <<runs, onToken, onEnv>>
     \/ /\ TakeLiveSlot(c, caller[c], conversationId, proc)
        /\ UNCHANGED <<runs, onToken, onEnv>>
     \/ /\ slot.kind = "released"
        /\ StartSwap(caller[c], conversationId)
        /\ InstallReplacement(c, caller[c])
  /\ UNCHANGED <<wedged, aborting>>

\* Mutant: the drain has no timer.
DrainOverUnbounded(c) ==
  /\ caller[c].pc = "draining"
  /\ consumer[caller[c].old] = "done"
  /\ UNCHANGED wedged

\* drainConsumerBounded returns: the old consumer ended, or the timer fired.
DrainOver(c) ==
  /\ caller[c].pc = "draining"
  /\ wedged' = IF consumer[caller[c].old] = "done" THEN wedged
               ELSE wedged \cup {caller[c].old}

\* Mutant: a kill during the drain leaves the replacement running.
SwapDrainedLeaks(c) ==
  /\ DrainOver(c)
  /\ caller[c].op # "release"
  /\ IF slot.holder = c
     THEN InstallReplacement(c, caller[c])
     ELSE /\ wire' = [wire EXCEPT !.swapping = FALSE]
          /\ SetCall(c, Finished(caller[c]))
          /\ UNCHANGED <<slot, screen, proc, consumer, runs, onToken, onEnv>>
  /\ UNCHANGED <<conversationId, turnVars, aborting>>

\* Mutant: the swap does not look for a kill after its drain.
SwapDrainedRevives(c) ==
  /\ DrainOver(c)
  /\ caller[c].op # "release"
  /\ InstallReplacement(c, caller[c])
  /\ UNCHANGED <<conversationId, turnVars, aborting>>

\* The drain of a swap is over: install, unless a kill came meanwhile.
SwapDrained(c) ==
  /\ DrainOver(c)
  /\ caller[c].op # "release"
  /\ IF slot.holder = c
     THEN InstallReplacement(c, caller[c])
     ELSE /\ proc' = Close(proc, caller[c].built)
          /\ wire' = [wire EXCEPT !.swapping = FALSE]
          /\ SetCall(c, Finished(caller[c]))
          /\ UNCHANGED <<slot, screen, consumer, runs, onToken, onEnv>>
  /\ UNCHANGED <<conversationId, turnVars, aborting>>

-----------------------------------------------------------------------------
(* closeAndDrainSession: the idle sweep, an environment or account release, *)
(* newConversation ("fresh", which also drops the conversation).            *)

\* Everything up to the drain, with no swap running.
Release(c, call) ==
  \/ /\ slot.kind = "dead"
     /\ SetCall(c, Finished(call))
     /\ UNCHANGED <<slot, wire, proc, turnVars>>
  \/ /\ slot.kind \in {"live", "released"}
     /\ slot' = Released(call.reason)
     /\ wire' = [wire EXCEPT !.dormant = TRUE]
     /\ CancelTurns("swapped")
     /\ proc' = Close(proc, slot.session)
     /\ SetCall(c, IF slot.session = NoSession
                   THEN Finished(call)
                   ELSE [call EXCEPT !.pc = "draining", !.old = slot.session])

\* Any caller may release: the guards a caller checks first (canDemote,
\* canReleaseForEnv, the account switch) are not assumed here.
CallRelease(c, reason) ==
  /\ "release" \in Ops
  /\ caller[c].pc = "idle"
  /\ LET call == [NoCall EXCEPT !.op = "release", !.reason = reason]
     IN \/ /\ slot.kind = "swapping"
           /\ reason # "fresh"      \* newConversation waits before it calls
           /\ SetCall(c, [call EXCEPT !.pc = "waiting"])
           /\ UNCHANGED <<slot, wire, proc, turnVars>>
        \/ Release(c, call)
  /\ IF reason = "fresh"
     THEN conversationId' = NoConv /\ screen' = NoConv
     ELSE UNCHANGED chatVars
  /\ UNCHANGED <<consumer, runs, onToken, onEnv, wedged, aborting>>

ReleaseProceeds(c) ==
  /\ caller[c].pc = "waiting"
  /\ caller[c].op = "release"
  /\ Release(c, caller[c])
  /\ UNCHANGED <<chatVars, consumer, runs, onToken, onEnv, wedged,
                 aborting>>

ReleaseDrained(c) ==
  /\ DrainOver(c)
  /\ caller[c].op = "release"
  /\ SetCall(c, Finished(caller[c]))
  /\ UNCHANGED <<slot, wire, chatVars, proc, consumer, runs, onToken,
                 onEnv, turnVars, aborting>>

-----------------------------------------------------------------------------
(* kill: terminal, and it preempts a swap.                                 *)

Kill ==
  /\ slot.kind # "dead"
  /\ slot' = Dead
  /\ CancelTurns("killed")
  /\ proc' = Close(proc, slot.session)
  /\ UNCHANGED <<wire, chatVars, consumer, runs, onToken, onEnv, wedged,
                 caller, aborting>>

-----------------------------------------------------------------------------
(* The backend and the consumer loop (consume).                            *)

\* The session's stream ends with no error. Released and the turn rejected
\* when the process was still the agent's and no Stop runs.
StreamEnds(s) ==
  /\ consumer[s] = "reading"
  /\ consumer' = [consumer EXCEPT ![s] = "done"]
  /\ proc' = [proc EXCEPT ![s] = "exited"]
  /\ wedged' = wedged \ {s}
  /\ IF slot.kind = "live" /\ slot.session = s /\ ~aborting
     THEN /\ slot' = Released("stream-ended")
          /\ wire' = [wire EXCEPT !.dormant = TRUE]
          /\ CancelTurns("failed")
     ELSE UNCHANGED <<slot, wire, turnVars>>
  /\ UNCHANGED <<chatVars, runs, onToken, onEnv, caller, aborting>>

\* The stream throws. The slot keeps the dead process; the turn is rejected.
StreamThrows(s) ==
  /\ consumer[s] = "reading"
  /\ consumer' = [consumer EXCEPT ![s] = "done"]
  /\ proc' = [proc EXCEPT ![s] = "exited"]
  /\ wedged' = wedged \ {s}
  /\ IF slot.session = s /\ ~aborting
     THEN SettleTurn("failed")
     ELSE UNCHANGED turnVars
  /\ UNCHANGED <<slot, wire, chatVars, runs, onToken, onEnv,
                 caller, aborting>>

\* turn_completed or an error event of the bound session settles the deferred;
\* both pass the filter a Stop puts on events. Events of another session drop.
TurnEnds(s, outcome) ==
  /\ consumer[s] = "reading"
  /\ slot.session = s
  /\ pendingTurn # NoTurn
  /\ SettleTurn(outcome)
  /\ UNCHANGED <<slot, wire, chatVars, sessionVars, caller, aborting>>

\* system_init of the bound session: the agent adopts the conversation it
\* reports, its own or a new one. Dropped while a Stop runs.
SystemInit(s, conv) ==
  /\ consumer[s] = "reading"
  /\ slot.session = s
  /\ ~aborting
  /\ IF runs[s] # NoConv THEN conv = runs[s]
     ELSE conv \notin {conversationId} \cup {runs[x] : x \in Sessions}
  /\ conversationId' = conv
  /\ screen' = conv
  /\ runs' = [runs EXCEPT ![s] = conv]
  /\ UNCHANGED <<slot, wire, proc, consumer, onToken, onEnv, wedged, caller,
                 turnVars, aborting>>

-----------------------------------------------------------------------------
(* Changes that make a built session out of date.                          *)

\* envChanged marks the live process; the release of an idle one
\* (releaseForEnv) is a CallRelease.
EnvChanged ==
  /\ onEnv # {}
  /\ slot.kind # "dead"
  /\ onEnv' = {}
  /\ slot' = IF slot.kind = "live" THEN [slot EXCEPT !.envStale = TRUE]
             ELSE slot
  /\ UNCHANGED <<wire, chatVars, proc, consumer, runs, onToken, wedged,
                 caller, turnVars, aborting>>

\* applyPrivileged and its kin: mint a token, which revokes the old one, then
\* replace the session in the same block. With no session (a swap drains, or
\* the agent is released) there is nothing to replace.
MintToken ==
  /\ onToken # {}
  /\ slot.session = NoSession
  /\ slot.kind # "dead"
  /\ onToken' = {}
  /\ UNCHANGED <<slot, wire, chatVars, proc, consumer, runs, onEnv,
                 wedged, caller, turnVars, aborting>>

MintAndReplace(c, s, target) ==
  /\ "swap" \in Ops
  /\ caller[c].pc = "idle"
  /\ slot.kind = "live"
  /\ target \in {conversationId, NoConv}
  /\ Fresh(s)
  /\ runs' = [runs EXCEPT ![s] = target]
  /\ onToken' = {s}
  /\ onEnv' = onEnv \cup {s}
  /\ TakeLiveSlot(c, [NoCall EXCEPT !.op = "swap", !.target = target,
                                    !.built = s],
                  conversationId, Opened(s))
  /\ UNCHANGED <<wedged, aborting>>

\* The same, when createSession throws: the token is minted, nothing closed.
MintBuildThrows ==
  /\ "swap" \in Ops
  /\ slot.kind = "live"
  /\ onToken' = {}
  /\ UNCHANGED <<slot, wire, chatVars, proc, consumer, runs, onEnv,
                 wedged, caller, turnVars, aborting>>

-----------------------------------------------------------------------------
(* runAgentTurn.                                                           *)

\* Its entry: the snapshots of the cancel token and of the session.
BeginTurn(t) ==
  /\ turn[t] = "none"
  /\ slot.kind # "dead"
  /\ turn' = [turn EXCEPT ![t] = "presend"]
  /\ turnSession' = [turnSession EXCEPT ![t] = slot.session]
  /\ UNCHANGED <<slot, wire, chatVars, sessionVars, caller, pendingTurn,
                 aborting>>

\* checkCancelled after an await: the token moved, the turn bails.
BailTurn(t) ==
  /\ turn[t] = "doomed"
  /\ turn' = [turn EXCEPT ![t] = "swapped"]
  /\ UNCHANGED <<slot, wire, chatVars, sessionVars, caller, turnSession,
                 pendingTurn, aborting>>

\* The last check passes: install the deferred, superseding a stale one, and
\* send. With no session the send throws at once.
SendTurn(t) ==
  /\ turn[t] = "presend"
  /\ LET own == IF slot.session = NoSession THEN "failed" ELSE "sent"
     IN turn' = [x \in Turns |-> IF x = t THEN own
                                 ELSE IF x = pendingTurn THEN "superseded"
                                 ELSE turn[x]]
  /\ pendingTurn' = IF slot.session = NoSession THEN NoTurn ELSE t
  /\ turnSession' = [x \in Turns |-> IF x = t THEN slot.session
                                     ELSE IF x = pendingTurn THEN NoSession
                                     ELSE turnSession[x]]
  /\ UNCHANGED <<slot, wire, chatVars, sessionVars, caller, aborting>>

\* session.send throws while the turn still owns the installed deferred.
SendThrows(t) ==
  /\ turn[t] = "sent"
  /\ pendingTurn = t
  /\ SettleTurn("failed")
  /\ UNCHANGED <<slot, wire, chatVars, sessionVars, caller, aborting>>

-----------------------------------------------------------------------------
(* abort (Stop).                                                           *)

\* Up to the await of denyPendingPermission, or of the Stop it joins.
CallStop(c) ==
  /\ "stop" \in Ops
  /\ caller[c].pc = "idle"
  /\ slot.kind # "dead"
  /\ turn' = Bumped
  /\ turnSession' = [t \in Turns |-> IF turn[t] = "presend" THEN NoSession
                                     ELSE turnSession[t]]
  /\ IF pendingTurn # NoTurn /\ aborting
     THEN /\ SetCall(c, [NoCall EXCEPT !.op = "stop", !.pc = "joining"])
          /\ UNCHANGED aborting
     ELSE /\ SetCall(c, [NoCall EXCEPT !.op = "stop", !.pc = "denying",
                                       !.turn = pendingTurn])
          /\ aborting' = (aborting \/ pendingTurn # NoTurn)
  /\ UNCHANGED <<slot, wire, chatVars, sessionVars, pendingTurn>>

\* No turn was in flight and the prompt, if any, took the denial.
StopNothing(c) ==
  /\ caller[c].pc = "denying"
  /\ caller[c].turn = NoTurn
  /\ SetCall(c, Finished(caller[c]))
  /\ UNCHANGED <<slot, wire, chatVars, sessionVars, turnVars, aborting>>

\* The hot path: the session can interrupt its turn in place.
StopHot(c) ==
  /\ caller[c].pc = "denying"
  /\ caller[c].turn # NoTurn
  /\ slot.session # NoSession
  /\ SetCall(c, [caller[c] EXCEPT !.pc = "hot"])
  /\ UNCHANGED <<slot, wire, chatVars, sessionVars, turnVars, aborting>>

\* The interrupted turn settled, and not as a failure of the process.
StopHotSettled(c) ==
  /\ caller[c].pc = "hot"
  /\ turn[caller[c].turn] # "sent"
  /\ SetCall(c, Finished(caller[c]))
  /\ UNCHANGED <<slot, wire, chatVars, sessionVars, turnVars, aborting>>

\* The slow path (no in-place abort, a refused denial, a hot path that timed
\* out or lost its process): replace the session, resuming the conversation,
\* or dropping it when it cannot be resumed.
StopReplaces(c, s, target) ==
  /\ caller[c].pc \in {"denying", "hot"}
  /\ caller[c].pc = "hot" => turn[caller[c].turn] \in {"sent", "failed"}
  /\ target \in {conversationId, NoConv}
  /\ ReplaceWith(c, [caller[c] EXCEPT !.target = target, !.built = s], target)

\* createSession throws inside the Stop's replaceWith: nothing was closed, and
\* abort's catch still reports success for a turn.
StopBuildThrows(c) ==
  /\ caller[c].pc \in {"denying", "hot"}
  /\ caller[c].pc = "hot" => turn[caller[c].turn] \in {"sent", "failed"}
  /\ SetCall(c, Finished(caller[c]))
  /\ UNCHANGED <<slot, wire, chatVars, sessionVars, turnVars, aborting>>

\* abort's finally.
StopDone(c) ==
  /\ caller[c].pc = "unwinding"
  /\ SetCall(c, [caller[c] EXCEPT !.pc = "done"])
  /\ aborting' = FALSE
  /\ UNCHANGED <<slot, wire, chatVars, sessionVars, turnVars>>

\* A second Stop reports when the first one is over.
StopJoined(c) ==
  /\ caller[c].pc = "joining"
  /\ ~aborting
  /\ SetCall(c, [caller[c] EXCEPT !.pc = "done"])
  /\ UNCHANGED <<slot, wire, chatVars, sessionVars, turnVars, aborting>>

-----------------------------------------------------------------------------

CallerStep(c) ==
  \/ SwapProceeds(c)
  \/ SwapDrained(c)
  \/ ReleaseProceeds(c)
  \/ ReleaseDrained(c)
  \/ StopNothing(c)
  \/ StopHot(c)
  \/ StopHotSettled(c)
  \/ \E s \in Sessions, k \in ConvOrNone : StopReplaces(c, s, k)
  \/ StopBuildThrows(c)
  \/ StopDone(c)
  \/ StopJoined(c)

CallerStarts(c) ==
  \/ \E s \in Sessions, k \in ConvOrNone, adopt \in BOOLEAN :
       CallReplace(c, s, adopt, k)
  \/ \E s \in Sessions, k \in ConvOrNone : MintAndReplace(c, s, k)
  \/ \E reason \in ReleaseReasons : CallRelease(c, reason)
  \/ CallStop(c)

BackendStep(s) ==
  \/ StreamEnds(s)
  \/ StreamThrows(s)
  \/ \E outcome \in {"ok", "failed"} : TurnEnds(s, outcome)
  \/ \E k \in Convs : SystemInit(s, k)

TurnStep(t) == BeginTurn(t) \/ BailTurn(t) \/ SendTurn(t) \/ SendThrows(t)

Next ==
  \/ \E c \in Callers : CallerStarts(c) \/ CallerStep(c)
  \/ \E s \in Sessions : BackendStep(s) \/ \E k \in ConvOrNone : InstallSession(s, k)
  \/ \E t \in Turns : TurnStep(t)
  \/ Kill
  \/ EnvChanged
  \/ MintToken
  \/ MintBuildThrows

Spec == Init /\ [][Next]_vars

\* Every await of a call ends: a drain and a hot abort carry a timer, a waiter
\* is a promise reaction, a denial is a bounded backend call.
Fairness == \A c \in Callers : WF_vars(CallerStep(c))
FairSpec == Spec /\ Fairness

-----------------------------------------------------------------------------
(* Properties.                                                             *)

\* Type correctness of the SessionManager's fields and of the calls in flight.
TypeOK ==
  /\ slot \in Slots
  /\ wire \in [dormant : BOOLEAN, swapping : BOOLEAN]
  /\ conversationId \in ConvOrNone
  /\ screen \in ConvOrNone
  /\ proc \in [Sessions -> {"unbuilt", "open", "closed", "exited"}]
  /\ consumer \in [Sessions -> {"none", "reading", "done"}]
  /\ runs \in [Sessions -> ConvOrNone]
  /\ onToken \subseteq Sessions
  /\ onEnv \subseteq Sessions
  /\ wedged \subseteq Sessions
  /\ caller \in [Callers -> CallRecords]
  /\ turn \in [Turns -> TurnStates]
  /\ turnSession \in [Turns -> SessionOrNone]
  /\ pendingTurn \in Turns \cup {NoTurn}
  /\ aborting \in BOOLEAN

\* A call that still owns the replacement it built.
HoldsReplacement(c) ==
  /\ caller[c].pc \in {"waiting", "draining"}
  /\ caller[c].op # "release"

\* No process outlives its use: whatever is open is the one the slot binds, or
\* a replacement that a swap in flight will install or close. Covers the
\* refused install, the kill during a drain, and the rebuild on a new token.
NoLeakedProcess ==
  \A s \in Sessions : proc[s] = "open" =>
    \/ slot.session = s
    \/ \E c \in Callers : HoldsReplacement(c) /\ caller[c].built = s

\* The swap lock: while the slot is swapping, exactly its holder drains a swap;
\* a swap that drains without the lock is one a kill preempted.
SwapLock ==
  /\ slot.kind = "swapping" =>
       /\ slot.holder \in Callers
       /\ caller[slot.holder].pc = "draining"
       /\ HoldsReplacement(slot.holder)
  /\ \A c \in Callers :
       caller[c].pc = "draining" /\ HoldsReplacement(c) =>
         slot.holder = c \/ slot.kind = "dead"

\* No stranded waiter: a turn that waits for its end is the one whose deferred
\* is installed, and it waits on the session the slot binds. A swap, release,
\* kill or dead stream that forgot to settle it would leave its caller (and the
\* queue behind it) waiting forever.
NoStrandedTurn ==
  \A t \in Turns : turn[t] = "sent" =>
    /\ pendingTurn = t
    /\ slot.kind = "live"
    /\ slot.session = turnSession[t]

\* The cancel token covers the pre-send window: a turn that still may send, and
\* that saw a session at its entry, would send to that same session.
PresendKeepsSession ==
  \A t \in Turns : turn[t] = "presend" /\ turnSession[t] # NoSession =>
    slot.session = turnSession[t]

\* The wire's flags are a function of the slot, as clients draw the desk by
\* them; only a kill leaves them behind (the agent is then removed).
WireFollowsSlot ==
  slot.kind # "dead" =>
    /\ wire.dormant = DormantOnWire(slot)
    /\ wire.swapping = (slot.kind = "swapping")

\* A write about the chat on screen (a topic) goes to the conversation the chat
\* belongs to, also while a switching swap drains and its target is already the
\* agent's conversation. It holds until a caller drops that conversation during
\* the drain.
ChatNamesScreen == slot.kind # "dead" => chatSessionId = screen

\* A process that takes the slot was built on the agent's current token, also
\* when the token changed while its swap waited or drained.
InstallsOnCurrentToken ==
  [][slot'.session \in Sessions /\ slot'.session # slot.session
       => slot'.session \in onToken']_vars

\* Drain before install: a swap never lets two processes write one transcript.
\* While the bound process runs a conversation, another process of it has
\* drained, its drain timed out (the accepted risk), or a release, which frees
\* the slot before its drain, is still draining it.
DrainBeforeInstall ==
  \A s \in Sessions, other \in Sessions :
    slot.session = s /\ other # s /\ consumer[other] = "reading"
      /\ runs[s] # NoConv /\ runs[other] = runs[s]
      => \/ other \in wedged
         \/ \E c \in Callers : /\ caller[c].op = "release"
                               /\ caller[c].pc = "draining"
                               /\ caller[c].old = other

\* The slot implements its transition table (SlotTable): a process that left the
\* slot, by a swap, a release, a dead stream or a kill, is never bound again,
\* dead is final even for a swap that drains across the kill, and every swap
\* gives the lock back.
Table == INSTANCE SlotTable WITH
  kind <- slot.kind,
  bound <- slot.session,
  retired <- {s \in Sessions : consumer[s] # "none"} \ {slot.session}
ImplementsTable == Table!Spec

\* Every swap, release and Stop returns: no call waits forever on another's
\* drain, whatever the backends do.
CallsReturn ==
  \A c \in Callers : caller[c].pc # "idle" ~> caller[c].pc = "done"

=============================================================================
