# Isomux: TLA+ models of the agent runtime

Isomux runs an office of coding agents: a Bun server owns the agents, each agent
owns a process of a backend (Claude, Codex or OpenCode), and members and other
agents send it messages. This directory models the part of the server where its
hard bugs live: one thread, many awaits, processes that die, a store that can fail
to write, an engine that answers late, and browsers on slow links.

| file | what it is |
| --- | --- |
| `SessionSlot.tla` | the process slot of one agent and everything that races for it |
| `SlotTable.tla` | what the slot promises: its transition table |
| `QueueStore.tla` | the durable message queue |
| `SteerDelivery.tla` | delivery of the queue, by a flush or inside a running turn |
| `ScheduledMessages.tla` | messages that wait for a time |
| `AgentFlush.tla` | what asks for a flush of the queue, what holds one back, and the agent's state |
| `CodexTurn.tla` | the turns of a Codex session and everything that may end one |
| `OpenCodeSupervisor.tla` | the shared OpenCode server: leases, turns, holds, starts, stops, replacements |
| `OfficeFeed.tla` | an agent's chat on its way to a browser: replay, outbox, reconnect, reducer |
| `BrowserGrant.tla` | agents that act on a tab a member offered: queue, fence, clients, timeouts |
| `SessionSlotProofs.tla`, `QueueStoreProofs.tla`, `SteerDeliveryProofs.tla`, `ScheduledMessagesProofs.tla`, `AgentFlushProofs.tla`, `OpenCodeSupervisorProofs.tla`, `CodexTurnProofs.tla`, `BrowserGrantProofs.tla` | theorems and their proofs |
| `MC*.tla`, `*.cfg` | the instances TLC checks |
| `PROJECT.json` | the map to the source, runs, mutants, findings, hazards, theorems |

## 1. Inventory

Paths are under `src/server/` unless they say otherwise. The repository keeps its
own list of implicit state machines (`internal-docs/implicit-state-machines.md`);
the components below follow it.

| component | state | operations | interacts with | hard behaviour | correct when |
| --- | --- | --- | --- | --- | --- |
| session slot (`session-manager.ts`) | slot (live, swapping, released, dead), pending turn, cancel token, conversation, Stop flags | install, swap, release, kill, consume, stop bookkeeping | agent manager (callers), turn runner, backends (streams) | overlapping swaps, releases, stops and kills; drains with a timer; a token or environment that changes during a drain | one process per slot and none leaked, no turn stranded, no transcript with two writers |
| durable queue (`message-queue.ts`, `persistence.ts`) | queue and dedupe window per agent, cache, `message-queues.json` | accept, drain, cancel, handoff brief, kill, replay, prune | HTTP senders, flush, restore | failed writes, lost answers, retries, crash at any step | an acknowledged message is never lost, a refused one never delivered |
| steer delivery (`message-queue.ts`, `backends/codex/adapter.ts`) | claim, pending steers | push, pull, record, release, drain | flush, Stop, engine | late answers, late records, dropped steers, replaced sessions | read once per session (but for the two duplicates the protocol allows), never lost, chat tells the truth |
| queue flush (`agent-manager.ts`, `queue-flush.ts`) | running flush, rerun flag, holds | requestFlush, flushQueue, holds, watchdog | everything that makes an agent idle | lost wakeups, stuck flushes | a queue that may be sent is sent, a held one is not, a busy agent has a turn |
| agent turn runner (`agent-turn.ts`) | one call | notices, send, await | slot, backends | cancel between awaits | no send to a session the turn never saw |
| agent manager (`agent-manager.ts`) | agents, state, commands, log cache | stop, kill, settings, edits, handoffs | all of the above | state written from many places | the state clients see matches the turn, the chat matches the log |
| agent restore (`agent-restore.ts`) | | boot replay, prune, revive | queue store, slot | crash anywhere before | |
| Codex backend (`backends/codex/`) | turn union, active turn, pending steers, abandoned turn | send, steer, abort, capacity retry, watchdog | engine over JSON-RPC | three parties can end one turn | one end per turn |
| Claude backend (`backends/claude.ts`) | SDK query, hooks, plan mode | send, hook, close | SDK | a send that waits for its session | |
| OpenCode backend (`backends/opencode/`) | phase of the server, leases, turns, holds, settings revision, reload request | acquire, begin and end a turn, release, recover, reload, idle stop, shutdown | one shared server, a helper process | races between counters and timers | a busy or held server is never stopped |
| scheduled messages (`scheduled-messages.ts`) | entries in memory and in `scheduled-messages.json`, tick flag | schedule, cancel, tick (hand over, remove, drop, retry) | queue, agents, HTTP clients that retry | crash between enqueue and removal, failed removals, a boot that overlaps the restore | at least once, once per boot, in order, cancel final |
| cron jobs (`cronjob-manager.ts`) | runs | start, finalize, kill, resume | slot, queue | several ends of one run | one terminal status |
| stop notices (`stop-notice-arms.ts`) | chain of arms | push, settle | Stop, turn runner | overlapping stops | an explained stop is explained once |
| office socket outbox (`office-ws-outbox.ts`, `office-session-projection.ts`) | queue of frames, lazy replay, pump | send, sendLazy, pump, drain, refresh, dispose | log cache, Bun's socket, web client | backpressure, a log that changes under its replay, a lost room | order kept, no silent drop, no stalled backlog, nothing of a lost room |
| asks, pager, webhooks | records | answer, deliver, retry | members | retries | |
| browser bridge (`browser-extension-*.ts`) | grants with phase, peer, fence and commands in flight; a queue of actions and a client per grant | act, time out, settle, retire, recover, release | extension, Playwright, agents | actions and commands that never settle, a client of another agent | no action overlaps one that may still run or borrows another's access |
| provider accounts, auth, secrets, apps, messaging | records | | external CLIs and services | | |
| web client (`src/ui/ws.ts`, `src/ui/store.tsx`) | socket generation, chats, replay window | connect, reduce, fallback commit | office socket | late frames of an old socket, a replay cut short | one conversation on screen, the server's in the end |
| control plane, site | | | | out of the server's process | |

The hazards this list gives rise to are in `PROJECT.json`, each at its line, with the
properties that would catch it.

## 2. Plan

Done in this order, most important first:

1. `SessionSlot` and `SlotTable`: every message goes through the slot.
2. `QueueStore`: what the office promises about messages.
3. `SteerDelivery`: the competing ways out of the queue.
4. `ScheduledMessages`: the durable list in front of the queue.
5. Proofs of the type invariants, of the slot's lock, processes and turns, of its
   transition table, of the queue's guarantees and of all the safety of the scheduled
   messages.
6. `AgentFlush`: the wakeups and holds of the queue, beside the agent's state.
7. `OpenCodeSupervisor`: one server that many sessions count on.
8. `CodexTurn`: several parties that end one turn.
9. `OfficeFeed`: the chat from the log cache to the screen, a composition of the manager's
   log, the projection, the outbox, the socket and the client's reducer.
10. `BrowserGrant`: actions that may go on after they were answered.
11. Proofs of the rest of the slot's safety, of all the safety of
    steer delivery, of the browser grants, of the flush, of the Codex turns and of the
    OpenCode server.

Next:

12. `CronRuns`: several ends of one run, one terminal status. `StopNotices`: an explained
    stop is explained once.

## 3. The models

JavaScript runs one thread, so an action is one synchronous block: what runs from
the end of an await to the next one. The interleavings are those of the awaits.

### SessionSlot

`slot` is `SessionManager.current`, a record with the fields of every kind; `wire` the two
flags clients see; `conversationId` and `screen` the conversation the agent resumes and
the one whose chat is shown. Each process `s` has a `proc` state, the `consumer` that reads
its stream, the conversation it `runs`, and whether it was built on the current token
and environment. `caller[c]` is a call in flight, at one of its awaits: waiting for the
swap lock, draining, denying a permission, in the hot path, joining another Stop, or
before its `finally`. `turn[t]` is a `runAgentTurn` call: before its send, doomed by the
cancel token, sent, settled.

| actions | code |
| --- | --- |
| `InstallSession` | `installSession`, in a released slot or refused |
| `CallReplace`, `SwapProceeds`, `SwapDrained` | `replaceWith` to its first await, after the lock, after the drain (install, rebuild on a new token, `after`, `finally`) |
| `CallRelease`, `ReleaseProceeds`, `ReleaseDrained` | `closeAndDrainSession` |
| `CallStop`, `StopNothing`, `StopHot`, `StopHotSettled`, `StopReplaces`, `StopBuildThrows`, `StopJoined`, `StopDone` | `abort` and `tryHotAbort` |
| `Kill` | `kill` |
| `StreamEnds`, `StreamThrows`, `TurnEnds`, `SystemInit` | `consume` and the events that move the slot's state |
| `EnvChanged`, `MintToken`, `MintAndReplace`, `MintBuildThrows` | `envChanged`, `applyPrivileged` / `applyAccess` |
| `BeginTurn`, `BailTurn`, `SendTurn`, `SendThrows` | `runAgentTurn` |

A drain may time out at any time (`DrainOver`); the process it gave up on is `wedged`, the
overlap the code accepts. A release frees the slot before its drain
(`session-manager.ts:826`), so a wake can resume the conversation next to a process that is
still draining: the second overlap `DrainBeforeInstall` allows. `Ops` chooses which operations a run's callers perform.
Callers' own guards before a release (`canDemote`, ...) are not assumed.

`SlotTable` is the table in the header of `session-manager.ts`, with the processes
behind it: a process that left the slot never comes back, dead is final, a swap ends.
`ImplementsTable` is `SlotTable`'s specification under the mapping slot kind, bound
session, sessions whose consumer started and that are not bound.

### QueueStore

Per agent the live `queue` and dedupe `keys`; `cache` and `disk` for the one file all
agents share; `flush` for a batch on its way. Every operation is synchronous up to
its answer, so each is one action; `ok` says whether its write succeeded, and `Answer`
lets the client's answer be lost. Ghost variables record what clients were `told`, and
what was accepted, accepted `again`, delivered, dropped on purpose and forgotten by a
kill. `Silent` is the one difference between backends that matters here: the agents
whose `send()` returns, instead of throwing, when its session is closed while it waits.
A kill leaves such a send behind (`outlived`), with the killed agent's own queue.
`AckedNeverLost` and `AcceptedOnce` are about the other agents, beside the silent ones in
the one store (Known deviations says what happens to the silent ones).

Left out: the order and content of messages, expiry of keys (the model stays inside
one five-minute window), validation of loaded items, the quarantine of a corrupt file.

### SteerDelivery

One agent with a session at a time. The orchestrator's side: `queue`, `claim`, the
flush's `batch`, the `turn`, a Stop in place (`aborting`). The engine's side: whether it
runs a turn, whether the adapter knows its name, and each steer's place on the `wire`
(sent, held by the engine, held past its turn's end, refused). `recorded` and `completed` are events the consumer
has not processed. Ghosts: what a model has `read`, what one session's model read
`twice`, what the chat `logged`. `push` says which backend the agent has: Codex (pushed
to) or Claude (its hook pulls).

The engine is modelled from how the adapter uses it. A steer it accepted is recorded in
its turn (`EngineRecords`), or after `turn/completed` in the same session
(`EngineRecordsLate`: the adapter has cleared its id and reports nothing), or never, when it
is dropped with its turn. It may name a turn before it answers `turn/start`. Each of the two
can make a model read a message twice, so each has a history variable: `late`, the items of
steers recorded after their turn, and `early`, the items pushed into a turn whose own batch
they are in, before the office knew that batch accepted. `ReadOnce` excepts exactly these, and
`CancelIsFinal` the late ones. The design names the first
(`internal-docs/steer-delivery-design.md`, section 3.4: "a duplicate to the model").

### ScheduledMessages

`entries` is the manager's list and `disk` its file. Requests are constants (sender,
receiver, time, key) and arrive any number of times; one that is refused changes nothing.
A tick is synchronous, so `ticking` keeps requests out, but a crash may cut it anywhere:
it is a `Tick` that collects what is `due`, then per entry either `FireHands` and
`RemoveFired`, or `FireDrops`, or `FireWaits`, then `TickEnds`. Whether a receiver that
exists accepts is left open at each attempt; one that does not is a 404. Every write may
throw: `schedule` and `cancel` roll back, a removal does not. `office` is the agents that
exist and `Known` the ones the manager finds: none until `AgentsRestored`. Ghosts: what
was acknowledged, cancelled, handed over (and in this boot, and twice in it), and what
was dropped for a reason that was true (`excused`).

`SlowRestore` allows a tick before `AgentsRestored`. The code does not exclude it: the boot
starts the timers and goes on restoring, and the restore may first spend up to 60 s on
pending OpenCode session moves. `scheduled_restore` shows what happens then; everything
else assumes the usual boot, where the restore ends before the first tick.

Left out: texts, the chat lines a delivery or a drop writes, records that fail
validation, the quarantine of a corrupt file, a clock that is set back.

### AgentFlush

`m` is the `ManagedAgent` record: its queue, state, open prompt or pick, holds, the slot as
the flush sees it, the flush with its rerun flag, and per owner of a turn (flush, member,
handoff brief, edit) one `runAgentTurn` call. An operator `x -> x'` is a synchronous piece
of code, so that a handler reads as a composition of them. What a settled promise wakes
runs before the next outside event (`Microtasks`), as the event loop does it.

| actions | code |
| --- | --- |
| `FlushBegins`, `SampleArrives`, `FlushChecks`, `FlushRechecks`, `AccountChecked`, `FlushReady`, `CapRead` | `flushQueue` from await to await, with its three optional waits (`Waits`) |
| `PresendEnds`, `SendAccepted`, `SendCut`, `SendFails`, `TurnEnds`, `StreamEnds` | `runAgentTurn` and the consumer |
| `SettingsSwap`, `SwapEnds`, `Stop`, `HotAbort...`, `Abort...`, `Demote`, `Kill` | swaps, Stop, release, kill, each with the requests and state changes it ends with |
| `AgentSends`, `MemberSends`, `MemberRoutes`, `MemberStarts` | `enqueueMessage`, `sendMessage` |
| `Prompt...`, `Pick...`, `Clear`, `AskHandoff`, `HandoffResets`, `MemberResumes`, `Resume...`, `Edit...` | prompts, pickers, new conversations, handoffs, resumes, edits |
| `Watchdog` | `sweepStuckFlushes` |

The slot is abstract here (live, swapping, none); `SessionSlot` has its detail. `gap`
records that one of the paths listed under Known deviations ended a wait without a
request; `NoLostWakeup` and `StateFitsTurn` hold outside of them, and the watchdog repairs
the first, which `QueueMoves` relies on.

### CodexTurn

`adapter` has the fields of `CodexSession` (turn union, active turn, abandoned turn,
watchdog, retry state), `engine` one record per `turn/start`, `office` the session manager's
call of `send()`, `out` the events its consumer has not taken. An attempt is one
`turn/start`, of a send or of a capacity retry. The engine is external: it names and ends
its turns in any order, also before the answer to `turn/start` is handled, may go silent
after a terminal error, and may exit at any time.

Actions: `Send`, `SendReturns`, `SendThrows`, `RetryReturns`, `RetryFails` (the continuations
of `turn/start`); `TurnStarted`, `ItemShown`, `Errors`, `TurnCompleted`, `ApprovalRequested`
(notifications); `RetryTimerFires`, `WatchdogFires`, `LimitReadEnds` (timers and the
rate-limit read that holds an end back); `StopInBackoff`, `SubprocessExits`, `Close`; and
the consumer (`Consume`, `StreamEnds`). `strayed` is history: the office took a turn for
over that the engine still runs, and sent again over it (Known deviations).

### OpenCodeSupervisor

`sup` is the supervisor: the counts of leases, turns and holds, the phase of the server,
its record and the file of it, the idle timer, settings revision, reload request and
marker, and what each process (a client, or a replacement task) is doing. The helper
that starts or kills a server is a process of its own: a start in flight has the revision
it was `launch`ed with, and a stop goes through its steps (kill, remove the record).
`overtaken` is history: a listing's stop, deferred by a start, has begun under sessions that came
meanwhile and still have a turn or held work (`Becomes`, `Overtakes`). It ends when they have none.

| actions | code |
| --- | --- |
| `Acquire`, `Settle`, `Release`, `ReleaseAndStopIfStarted`, `BeginTurn`, `EndTurn`, `RecoverBeforePrompt`, `MarkUnresponsive` | the methods of a lease |
| `Resume`, `MarkerRead`, `HealthAnswers` | the continuations of `ensureServer`, `replaceServerIfRequested`, `validateServerForTurn` |
| `UpdateSettings`, `RequestReload`, `WaitUntilCurrent`, `OfficeStops`, `IdleTimerFires` | the office's calls and the idle timer |
| `StartRuns`, `StartEnds`, `StartFails`, `StopKills`, `StopRemoves`, `StopFails`, `Crash` | `start-server.ts` and the server process |

### OfficeFeed

`office` has the log cache: which array each agent has, and what each array holds. A
`/clear`, a resume and an edit install a new array, a push appends to one, so that a
replay step (a reference into an array) can be stale or grow, as in the code. `box` is the
`OfficeOutbox` with what Bun and the network hold, `browser` the client's chats, its replay
window and its socket. A frame has length one; the limits of the outbox are in frames.

| actions | code |
| --- | --- |
| `AddLogEntry`, `NewConversation`, `Resume`, `EditUnsent`, `EditFork`, `Kill`, `AgentRemoved`, `Revive` | the manager's writes to the log and their events |
| `AccessChange`, `Open` | `sendProjectedFullState`, with the refresh that closes a backlogged socket |
| `PumpTick`, `KernelTakes`, `Closed` | `pump`, `drain`, `dispose` |
| `Receive`, `ReceiveLate`, `Fallback`, `Focus`, `Connect` | `onmessage` with its generation guard, the reducer, the fallback timer, the reconnect |

`InSync` folds the reducer over everything on its way and compares the result with the
server: it is an end-to-end statement about the composition of the five files.

### BrowserGrant

`tab` is one grant: its phase, the attached client (`peer`), the action that set the fence,
the commands in flight, the client in the sessions map, the agents that may use it, and
the actions asked for. An action has a place (`pc`, its answer at the end) and an operation
(`op`) that may outlive the answer: Playwright goes on with what it was asked, and Chrome
answers a command late or never. A client is named by the action that attached it.

| actions | code |
| --- | --- |
| `Run`, `Begin`, `RecoveryOver`, `Drained`, `Changed` | `run` and `extensionAction` from await to await: recovery, fence, drain, dialog, change of agent, launch |
| `Watchdog`, `LeaveTimesOut`, `Grace`, `Settled`, `Ceiling` | `settleTimeout`, the fence and its ceiling |
| `CommandTimesOut`, `CommandUnanswered`, `CommandAnswered`, `AnswerTooLarge` | `request`'s timers and `receive` |
| `Connected`, `OperationEnds`, `ClientCommand`, `ClientCloses`, `LeaveCommits`, `LeaveFails`, `ClientHousekeeping` | Playwright, and `respond` when an operation ends |
| `GateCloses`, `Recovering`, `RecoveryDone`, `GrantEnds`, `AccessChange`, `RivalOffer` | events of the extension and of the member's settings |

What an action sees of the page (a refused office page, an open dialog, a dialog that
Playwright holds, a page that was never set up) is an input.

## 4. Runs

Passing runs (TLC finishes, every property has a mutant of the code that breaks it).
`SwapLock`, `WireFollowsSlot`, `ChatNamesScreen` (with its exception), `RetryNeverDoubles`, `QuotaHolds` and the `TypeOK` of the eight modules with proofs are
proved for every instance (section 5) and are in no run:

| run | instance | what it shows |
| --- | --- | --- |
| `swaps` | 3 processes, 2 callers, 2 conversations; swaps and releases | no process leaks (`NoLeakedProcess`), what is installed is on the current token (`InstallsOnCurrentToken`), and two processes write one transcript only when a drain timed out or a release is draining (`DrainBeforeInstall`) |
| `live` | 2 processes, 2 callers, 1 turn; all operations, fairness | `NoStrandedTurn`, `PresendKeepsSession`, `ImplementsTable`, `CallsReturn` |
| `queue` | 2 agents, 2 messages, limit 1, failing writes; one agent's `send()` throws on a closed session, the other's returns | `AckedNeverLost`, `RefusedStaysOut`, `AcceptedOnce` |
| `steer` | 2 steers, 1 member message, 2 sessions, 2 pushes, either backend, early names, late records; fairness | `ReadOnce`, `NeverLost`, `ChatTellsTheTruth`, `CancelIsFinal`, `QueueEmpties` |
| `scheduled` | 3 requests of one sender to two receivers, quota 2, one failing write, one crash; fairness | `AcceptedNotLost`, `OncePerBoot`, `NoLeapfrog`, `CancelledNeverFires`, `EntriesSettle` |
| `flush` | 2 messages, 3 disturbances, hot abort, all three waits of a flush; fairness | no wakeup is lost (`NoLostWakeup`), the state clients see fits the turn (`StateFitsTurn`), a message goes out once (`AcceptedOnce`) and in the end (`QueueMoves`) |
| `supervisor` | 3 clients (2 active at a time after the fault), 1 replacement task, 2 pids, 1 settings change, 1 fault | no stop hits a server in use (`StopsSpareUse`), a turn begins on a server that lives and has the settings the turn saw (`FreshTurn`), the office's stop leaves no process (`ShutdownLeavesNothing`); each names its exceptions |
| `supervisor_live` | 1 client, 1 task, 1 waiter, 1 fault; fairness | every call returns (`CallsReturn`), and a server no client uses stops, so no path leaks a count (`IdleServerStops`) |
| `codex` | 2 sends, 4 attempts, 1 capacity retry; fairness | one end per send, none for a send that throws (`EndsOnce`), no message runs twice at a time (`OneRun`), every awaited turn ends (`TurnEnds`) |
| `feed` | 2 agents, 3 office events, 1 break of the socket, limits of one or two frames | what is on its way leads to the server's chats (`InSync`), the screen shows one conversation (`NoMixedChat`), the backlog is bounded and holds nothing of a lost room (`BacklogSound`), and none is left without a wakeup (`NoStall`) |
| `browser` | 2 agents, 2 actions (goto, mute, close), 1 outside event | one action at a time drives the tab (`OneDriver`), under its own agent's access (`OwnAccess`), an answer that says it is over is true (`AnswerIsFinal`), a fence is lifted only for the action that set it (`FenceHolds`) |

A violation, with the line it contradicts in `PROJECT.json`'s findings:

| run | what the code does |
| --- | --- |
| `scheduled_restore` | a tick before the agents are restored takes every receiver for a deleted one and drops what is due |

Other disagreements between the code and its comments that the modelling met, and that
the properties except by name, are under Known deviations (section 7).

**Bounds.** Two callers are the least that overlap, and a third one would wait like the
second; three processes let a replacement, its rebuild and a wake exist together; two
conversations tell a switch from a resume. One slot per caller and per turn (each runs once) keeps the state
finite. In the queue, a limit of one makes the second message meet a full queue, and
two agents share one file. Two steers and two pushes let a refused or dropped steer and
a recorded one meet in one turn, two sessions a stale claim. With either of `early` and `late` taken
out of it, `ReadOnce` is violated in this run: both exceptions are reached.
Two of the scheduled requests share a receiver (order), two a key (conflict), the third
goes to its own sender; the unkeyed one can be accepted twice, so the quota of two is
reached, and the clock runs past the last time plus the deadline. One failing write and
one crash are enough to leave a stale file behind and to load it.
In `AgentFlush`, three disturbances (`MaxEvents`) let a prompt or a hold meet a Stop and a
swap. Three clients of the OpenCode server are the least for a deferred stop: a listing that
asks for it, a session that starts a server for newer settings and one that keeps the old server.
Without `overtaken` in their formulas `StopsSpareUse` and `FreshTurn` are violated in this run, so
the exception is reached. `TwoAfterFault`, a constraint, cuts the states in which
more than two clients are active once the fault has happened, which keeps the run within
minutes; three clients before the fault and two after it are checked, and the proofs have no such
bound. `Tasks`, `Pids`, `MaxRev`, `MaxWaits` and `MaxFaults` bound the rest (two pids: the old
server and the new one). `CodexTurn` has two sends (`MaxSends`), one retry (`MaxRetries`; the
source has three, and each acts as the first) and enough `Attempts` for both. The 60 s
watchdog is longer than any retry delay, so it does not fire in one. `OfficeFeed` takes
its limits in frames, so small that two frames are a backlog: `HighWater`, `Budget` and
`Window` 1, `MaxQueued` 2; `MaxArrays`, `MaxEntries`, `MaxCredit`, `MaxBreaks` and `MaxEvents`
bound the office, the kernel and the network. In `BrowserGrant`, two actions (`MaxActions`)
are the one that timed out and the next; one event (`MaxEvents`) comes at any point of
them, beside late or missing answers, timeouts and clients, which are not bounded. The
fourth kind, an input, does nothing a goto does not: it acts as one to a plain page whose
stop of the load is answered at once. The proofs cover all four kinds, more actions and
more events.
Symmetry (of clients, of agents) is used in `supervisor`, `feed` and `browser`, which check
no liveness.
`MaxSteers`, `MaxSessions`, `MaxOutlived`, `MaxClock`, `MaxEntries`, `MaxFails` and
`MaxCrashes` are the named bounds of these modules. Deadlock checking is
off where a bounded run really stops (all callers done, all messages sent); `QueueStore`
and `ScheduledMessages` never stop.

**Fairness.** `CallsReturn` assumes that a call's next step is taken: the drain and the
hot abort carry a timer, a waiter is a promise reaction, and a denial is a bounded
call. Nothing is assumed of streams, turns or members. `QueueEmpties` assumes the event
loop runs a wanted flush, the engine takes and ends its turns, and the consumer reads
its events. It assumes nothing of tool calls, hooks, records or answers to steers.
`EntriesSettle` assumes that the interval timer ticks, a tick runs to its end, the server
is started again and restores its agents, and time passes; nothing makes a receiver
accept, and it is the delivery deadline that settles its entries.
`QueueMoves` assumes that the event loop runs what is ready, that backends accept or throw
and end their turns, that swaps end and the sweep's interval runs; nothing makes a person
answer a prompt. The supervisor's properties assume that each process's awaits end
(strongly: the event loop delivers every answer, however often another process gets in
between), that the helper ends, that a turn whose transport is open ends, and that the
idle timer fires. `TurnEnds` assumes that handlers and timers run, that the consumer reads
its stream, and that the engine answers `turn/start` and then ends a turn or reports a
terminal error, after which it may stay silent. `OfficeFeed` has no fairness: `NoStall` is
the invariant that no state without a step to come shows an old chat. `BrowserGrant`
checks safety only; its waits all carry timers.

## 5. Proofs

`SessionSlotProofs`: `TypeCorrect`, for every number of processes, callers, turns and
conversations. `TypeOK` alone is not inductive: an install needs to know that the slot
kinds hold what they should and that a draining call has an old session and a built
one. `Typed` adds that (`SlotShape`, `CallShape`), and each action keeps it, by one lemma per
shared step (`TakeLiveSlot`, `InstallReplacement`, ...) and one per group of actions.

Its safety part, on top of `Typed`:

- `NoTurnStranded` and `PresendSafe`: the two properties are inductive together
  (`TurnsFollow`). A step either cancels the turns (every close does), or settles the
  installed one with the slot left alone, or finds a slot with no process, on which no
  turn can depend.
- `LockHeldOnce` and `NoProcessLeaks`: inductive together (`Guarded`). Nobody drains a
  swap while the slot is live or released, so a swap that takes the lock is its only
  holder; a call carries its replacement from the build to the install or the close.
- `DrainsFirst`: two processes write one transcript only when a drain timed out or a
  release is draining. Strengthening `Readers`: whoever still reads is bound, drained by a
  call, given up by a drain, or outlived a kill. An install is made by the call that
  drained the slot's last process, and `LockHeldOnce` says that it is the only one.
- `InstallsCurrentToken`: every step keeps the bound process, empties the slot or binds a
  process built on the current token (`BindsCurrent`), the rebuild after a drain included.
- `WireIsSlot`: the flags clients see are those of the slot. A swap that finds itself
  preempted writes the wire without the slot; the lock (`Guarded`) says that this happens
  to killed agents only.
- `ChatIsNamed`: `Spec /\ [][~DropsInSwitch]_vars => []ChatNamesScreen`. The chat on screen is
  the one `chatSessionId` names in every behaviour without that step (Known deviations):
  it is that step, and no other, that breaks it. Strengthening `ChatFits`: the holder of the
  lock switches as its slot says, and to the agent's conversation.

Its refinement part: `ImplementsTableSafely`, every step is a transition of
`SlotTable` or a stutter. It needs `NeverBound`: a replacement has no consumer before its
install and no two calls carry the same one, so no process is bound twice. The
fairness part of `ImplementsTable` (the lock is given back) stays with TLC.

`QueueStoreProofs`, for every set of agents and messages and every limit:

- `TypeCorrect`.
- `RefusedOut`: no backend takes what no call accepted, with either kind of send.
  Strengthening `OnlyAccepted`: everything in a live queue, the cache, the file, a batch
  or an outlived send was accepted. This is what copy on success keeps.
- `AckedSafe`: for an agent whose `send()` throws on a closed session, beside any others
  in the one store, an acknowledged message is delivered, dropped on purpose, or on disk and, when the server runs, queued. It rests
  on `StoreAgrees` (the cache is the file; the live queue is within the agent's record,
  its keys are the record's) and on `KeysSafe`: a message whose key is in the window is
  as safe as an acknowledged one, because a retry would acknowledge it unseen.
- `Once`: for the same agents, a message is accepted again only after a kill forgot
  its key (`Remembered`: the key of what was accepted is in the window or forgotten).

`SteerDeliveryProofs`, for any messages, sessions and pushes, and either backend:

- `TypeCorrect`, `NothingLost` and `ChatTrue` from one invariant, `IInv`. What is lost or shown
  depends on events that are on their way, so it relates the two sides: a steer the
  engine may still record in its turn is pending in the live claim and its record will be
  reported, and the items of one it may record late are queued, shown or cancelled
  (`WireKnown`); what the live claim holds is pending, or was read and shown
  (`ClaimTruth`); a claim of a replaced session counts for nothing; and every message that
  arrived is queued, read or cancelled, and read ones are logged or still queued
  (`Whereabouts`).
- `CancelSafe`: no step reads what was cancelled, but for the batch under way and a late record.
- `ReadAtMostOnce`, with an engine that names turns early and records late. `Once` adds that
  what the session's model has read and is still queued is claimed, or was recorded late, or is
  the batch whose acceptance the office has not heard of. A flush does not reach the first
  and the last of these; a push reaches the last only where the turn has its name already, which
  is `early`. What a steer of the running turn carries was therefore never read before, but for
  `early` and `late`.

`ScheduledMessagesProofs`, for any agents, requests, limits and bounds: all the safety
properties of the module.

- `TypeCorrect`, `HandedOncePerBoot`, `RetrySafe`, `CancelSafe`, `OrderKept` follow from one
  inductive invariant, `Consistent`. None of the properties is inductive alone: a retry is
  harmless because whatever left the list is due (`LeftWhenDue`), and `schedule` refuses
  what is due; an entry is handed over once because memory holds nothing of this boot's
  hand-overs but the one being removed (`FiredOnce`); order is kept because every entry
  that is due is still to be tried or belongs to a blocked receiver (`TickView`).
- `NothingLost`, where `SlowRestore` is false: what was accepted is in the file and, while
  the server is up, in memory, or is settled (`Kept`). A write replaces the file by the
  memory, so both halves are needed.
- `QuotaKept`: the file is always a list that memory once held, so a restart loads one
  within the quota.

`AgentFlushProofs`, for any messages and any number of disturbances, and every choice of
`Waits`:

- `TypeCorrect`: the agent's record keeps its shape through every composition of handlers.
- `TakenOnce`: no message is accepted by a backend twice. `Apart` says that the places a
  message can be in before a backend has it (unsent, typed, queued, carried by a direct
  call) exclude each other, and that the flush's call only carries what is still queued.
  Most pieces of the handlers move no message (`Sheds`); the arguments are in the few that
  do: a swap that puts a member's message back, a send that is accepted, a drain.
- `StateFits`: the state clients see fits the turn. The property is a few disjunctions about
  one state, and nothing in it says why they hold: a send sets the state and then waits, and
  Stop, a swap, a prompt, an edit, a handoff or a failure may come before it goes on. `Whole`
  adds what these leave to each other. `Fit`: a pending turn is of a live session and nothing
  has settled it; while a swap has the slot no call is about to be sent; an edit's or a
  brief's call belongs to the edit or handoff that waits for it; and, until two turns have
  overlapped, one turn runs at a time. `Ready`: a flush about to take its batch finds no busy
  agent. `Shown` and `Backed` are the property between two microtasks. A handler is a
  composition of pieces, so each piece has a lemma that says in which of a few ways it treats the
  turn (it leaves it alone, sets the state, ends a call, blames someone, tears the session
  down), and a handler's lemma chains these.
- `WakeupsKept`: no wakeup of the queue is lost (`Awake`). Whoever refuses to flush is someone
  that asks again at its end (a swap, a handoff, a turn), a flush that has read its batch
  re-checks what came later (the rerun flag), and the steps that end a wait without a request are
  exactly those the history `gap` names.

`CodexTurnProofs`, for any number of attempts, messages and retries: `TypeCorrect`,
`EndsCorrect` (`EndsOnce`) and `RetriesCorrect` (`OneRun`).

- The engine, the watchdog, Stop, a failed request and the stream's end may each end a turn,
  so that a message ends once is a matter of which turns there are. The invariant `Inv` has three
  layers. `Booked`: the requests, their answers and the adapter's turn agree. `Turns`: at most
  one turn stands (runs and was not abandoned by its id), it is of the last message, and it
  is the one the adapter follows; the turns the watchdog gave up (`GoneCurrent`, `Unnamed`
  where it knew no id) and the sends that may still throw (`Phantoms`) leave no second one.
- `send()` starts a turn whatever the adapter follows, so `Turns` is not inductive: it
  holds because the office sends only when the last message's end has come. `Waits` says
  that the office awaits it until then (`Awaits`), and that no flag of an earlier error settles it early
  (`Errs`, `Refusals`); it holds until the stream ends.
- `Turns` and `Waits` hold as long as no turn of an earlier message strayed, which is the
  exception of the property, and the only one needed beside the engine's exit. The
  invariant was checked with TLC on four attempts and three messages before it was proved.

`OpenCodeSupervisorProofs`, for any sessions (finitely many), replacement tasks, processes,
settings and faults: all the safety of the module.

- `TypeCorrect` (no count goes below zero), `ShutdownCorrect` (`ShutdownLeavesNothing`),
  `StopsCorrect` (`StopsSpareUse`) and `FreshCorrect` (`FreshTurn`), for every run, those with
  deferred stops included.
- The code never checks who uses the server; it checks three counters, a phase and a timer. The
  invariant `Sound` says why that is enough. `Server`: the phase agrees with the step in
  flight, the record and the processes, and the timer is armed only on a running server
  that nothing uses. `Counted`: each counter is the number of the sessions that hold it.
  `Fits`: what each session or task has, by the await it is at: while a server stops nobody has
  a turn or a settled hold on it or is about to take it as it is, a turn entry past its first
  look finds a server, and one past its second a server or start that has the settings it saw.
- Handlers are compositions of up to a dozen methods. Between two of them a counter may be
  changed and its session not yet, and the process that runs is at no await.
  `Sound(x, off, e, Q)` says by how much the counters are off and exempts the processes of `Q`;
  each method has a lemma that takes one such state to another, and a handler's lemma
  chains them. `e` excuses what a deferred stop may do to the sessions that came during the
  start; the invariant is `Inv(overtaken)`. A deferred stop that begins under them sets `overtaken`,
  and when none of them has a turn or held work left, nothing needs the excuse any more
  (`Unexcused`), which is where `Becomes` takes it back.
- The deferred stop was found by an attempt to prove `StopsSpareUse`, on an instance with two
  sessions that did not reach it; and the proof showed that an exception `FreshTurn` used to make
  (beside any other turn or hold) is never needed, so the property no longer makes it.

`BrowserGrantProofs`, for any agents, actions and events: all the safety of the module
(`TypeCorrect`, `DrivenByOne`, `AccessIsOwn`, `AnswersFinal`, `FenceKept`).

- The four properties look at one action at a time; what makes them true is the order of
  all of them. The invariant `Inv` says that the actions past the gate run one after the
  other (`InOrder`); that a fence belongs to an action that settles and no later one is past
  it (`Fenced`); that each action's client, operation and settlement fit together (`Fits`);
  and that an action answered for good is out of reach of the page: no operation of its
  own, no command in flight, no client it may still use (`Silent`).
- A handler makes several calls and is in between them in states that no other code sees,
  where the action it is about is already answered and its client not closed yet.
  `Inv(s, j)` exempts action `j` from `Silent` there; every operator has a lemma that takes
  `Inv(s, j)` to the same or to `Inv(s, 0)`, and says that it takes clients, commands and the
  fence away only (`Loses`) or leaves all actions but one alone (`Keeps`).
- The attempt to prove `AnswerIsFinal` with any number of events failed on a case the run's
  single event cannot reach: an answer that is too large while a goto leaves an office
  page (Known deviations). The model now gives it an answer of its own, `overrun`, that
  does not count as final.

The assumptions are those the modules state: null values are not members of the
sets, `Ops` is a set of operations, bounds are naturals, flags are Booleans; sessions and
replacement tasks are disjoint, sessions finite in number, and there is a process id.

Only model-checked: the invariants of `OfficeFeed` (`InSync`, `NoMixedChat`, `BacklogSound`,
`NoStall`). Its pump, its replay and the client's reducer are folds over sequences, and what
a fold computes for every sequence is induction over data, which the proof system does
not do. Liveness (`CallsReturn`, `QueueEmpties`, `EntriesSettle`, `QueueMoves`,
`IdleServerStops`, `TurnEnds`, the fairness part of `ImplementsTable`) is out of the proof
system's reach.

## 6. Not modelled

Everything that is text: prompts, logs, topics, formatting. The components marked
`not_modelled` in `PROJECT.json`: request handling, records and external services without
the concurrency above, or separate programs (control plane, site). Of the modelled parts:

- `AgentFlush`: a backend whose `stream()` itself throws; the usage cap's refusal of direct
  messages and edits; the account check of a direct message; the split of a batch into
  native and retried parts; free-model moves; slash commands.
- `CodexTurn`: bootstrap, translation of items, the answers and prefix rules of approvals,
  auth signals with the self-interrupt, rate-limit buckets, background terminals.
- `OpenCodeSupervisor`: the event stream, permissions, the import of V1 sessions, how the
  helper finds and checks a process.
- `OfficeFeed`: spawn, closed rooms, the rollback of a failed edit
  (`agent-manager.ts:9331`), the history that `system_init` emits (3203-3210), batches of cron
  runs, `slash_commands` frames, the server's side of a replaced socket, the boot restore,
  the heartbeat's timers. Replays of several transcripts are one list of references.
- `BrowserGrant`: how a tab is offered, opened and resumed, popups and frames, capture
  kicks, sharing, pairing, what each action does in the page, the first import of
  Playwright (taken as instantaneous), actions that resolve to no grant. An answer that
  the office's page refusal replaces at the very end keeps its first name.

## 7. Known deviations

Where the code does not do what a comment of it says, or leaves a case open. The passing
properties name these as exceptions or leave them out of their instance; each could be
checked by dropping the exception.

Session slot and queue

- `envChanged` during a swap marks nothing (`session-manager.ts:400`), and the replacement
  built before the change is installed unmarked (953-959; comment at 559-560).
- `applyPrivileged` and `applyAccess` mint a token, which revokes the old one, before the
  replacement is built; when the build throws (`session-manager.ts:1015-1020`) the live
  session keeps a dead token (`agent-manager.ts:3976-3978`).
- A settings edit or a Stop during the drain of a swap that switches looks at the target as
  the agent's conversation; when it is not durable, `dropUnresumableSession` clears the chat
  and the id (`agent-manager.ts:4885`), `chatSessionId` keeps naming the conversation the swap
  left, and `after` then replays a transcript the agent does not have (comments at
  `session-manager.ts:369-370`, `agent-manager.ts:4873-4875`). `ChatNamesScreen` as an invariant
  of the instance of `swaps` shows it in four states.
- When Stop's replacement cannot be built, the turn is still in flight and the Stop reports
  that it ended (`agent-manager.ts:7685-7689`).
- A Claude session closed while its `send()` waits for it to open: `send()` returns as if the
  message went out (`backends/claude.ts:718`), and the flush drains a batch no backend took.
- A killed Claude agent's `send()` returns later and writes the removed record again
  (`message-queue.ts:399`, `agent-manager.ts:7856-7857`); a revive replays it.
- An engine that names a turn before it answers `turn/start`: a steer queued in between pushes
  the turn's own batch (`early`), and the model reads it twice.
- A steer recorded after its turn's end was released by then and is flushed again, or was
  cancelled (`late`); the design accepts the duplicate.
- Turns do get superseded, against `session-manager.ts:481-483`: a failed resume stamps
  an error over a turn before its send; a Stop while a member's message waits for a swap; a
  flush parked on the account check.

Flush

- A direct send that a swap cancels before its send (the usage-cap read, the notices) is a
  plain `SessionSwappedError` (`agent-turn.ts:134`, 149), which `requeueSwappedSend` does not
  take (`agent-manager.ts:8391`): no backend and no queue has the message, against the
  comment at `agent-manager.ts:8372-8376`.
- Waits that end without a flush request: a Stop on a parked Codex prompt, a failed
  `/model` pick, a prompt withdrawn after its turn ended. The sweep repairs them later.
- A new conversation leaves an open prompt open, so that the carried queue waits. A
  rebuild that fails leaves the agent busy without a turn.

Codex turns

- A terminal error event rejects the pending turn (`agent-manager.ts:3845-3861`) while the
  adapter still counts it as running. A member's direct message then clears the watchdog and
  starts over it without marking it abandoned (`adapter.ts:1745-1760`), and the earlier turn's
  completion ends the new one (against `session-manager.ts:474-475`, `adapter.ts:1185-1186`).
- A second watchdog end overwrites `abandonedTurn`. After an abandoned turn without a name,
  the completion of the next turn that arrives with the answer to `turn/start` is dropped,
  and that turn hangs. Lines read after the subprocess's exit can emit a second end.

OpenCode server

- `replaceServerIfRequested` reads the request before it awaits the marker file
  (`supervisor.ts:951-954`) and returns `none`; an acquire with newer settings during the first
  start then starts a helper (345-351) that stops the server another session uses
  (`start-server.ts:406-429`; comments at 780-783 and 939).
- `startServer` writes the config before its awaits and reads the revision after them: a
  change in between makes the next helper replace a current server. Settings saved while a
  replacement's start runs leave a stale, leased, idle server until the next turn (540-545).
- `releaseAndStopIfStarted` stops a server that "only this lease ever used"
  (`supervisor.ts:409-423`). While a start runs the stop waits for its end, and a session that
  leased the server in between loses it: client 1's health check finds the server unreachable
  and starts a helper, client 1 is released, client 2 is released with a stop, two sessions
  acquire, one of them with newer settings, so that the other's use keeps the server
  as it is and it leases it before the start ends (344-351). The turn that client has or
  begins there is lost with the server. `StopsSpareUse` and `FreshTurn` except this by the
  history `overtaken`; the `supervisor` run reaches it.
- `otherTurnActive` is stale across the health check. `waitUntilCurrent` can return early. A
  reload asked between the reset of its flag and the marker's removal (717-718) causes one
  extra replacement. The stop helper's exit code is ignored.
- A transport closed during `beginTurn`: the turn counts afterwards and nothing ends it when
  its prompt fails (`transport.ts:946`, 1435), so the server never idles.

Chat feed

- A revive loads the transcript without emitting it (`agent-restore.ts:522-526`): connected
  browsers show an empty chat until they reconnect (comment at 569-573).
- A revive while the kill still awaits its consumer is followed by the kill's
  `agent_removed` (`agent-manager.ts:7863-7872`), which drops the live agent in every browser.
- The 3 s fallback (`store.tsx:697-703`, 2193) commits part of a transcript when a replay
  takes longer (comment "atomically", 173-177); it converges. An exhausted replay item stays
  in the outbox while Bun is full, so a refresh then closes a socket with nothing waiting.

Browser grants

- `settleTimeout` answers an action that no longer resolves (for instance an untargeted one,
  when a second tab is offered) without a fence, and its client stays
  (`browser-extension-session.ts:1236`): its operation may send beside the next action.
- A gate that closes while a goto leaves an office page answers the action and finds no
  client to close (1216-1219): a commit after it attaches a client for an answered action.
- An answer that is too large while a goto leaves an office page: the action fails at once
  (1221-1226), and `leaveOffice` goes on and attaches a client for it all the same, against
  the comment that it "ends now". `AnswerIsFinal` does not count that answer (`overrun`).
- A connect that times out relies on Playwright to close the transport; 1316 closes it only
  for other errors.
