----------------------------- MODULE OfficeFeed -----------------------------
(***************************************************************************)
(* How an agent's chat reaches one browser: the log cache and its events   *)
(* (agent-manager.ts), the projected full_state and the lazy replay of     *)
(* every visible transcript (office-session-projection.ts), the ordered    *)
(* outbox of the socket (office-ws-outbox.ts), the reconnecting client     *)
(* (ui/ws.ts) and its reducer with the replay window (ui/store.tsx).       *)
(*                                                                         *)
(* A frame is one unit long. Bun's socket, the kernel and the network are  *)
(* external: they keep the order, take a frame at once or later, and may   *)
(* fail any send. JavaScript runs an action to its end; `credit' is how    *)
(* many frames the kernel takes during it and `fault' which of its sends   *)
(* fails.                                                                  *)
(***************************************************************************)
EXTENDS Naturals, FiniteSets, FiniteSetsExt, SequencesExt

CONSTANTS
  Agents,
  NoAgent,
  MaxArrays,   \* bound: the arrays the log cache ever holds
  MaxEntries,  \* bound: log entries written
  HighWater,   \* OUTBOX_HIGH_WATER_BYTES, in frames
  Budget,      \* OUTBOX_PUMP_BUDGET_BYTES, in frames
  MaxQueued,   \* OUTBOX_MAX_QUEUED_BYTES, in frames
  Window,      \* frames the network holds, the receiver's window
  MaxCredit,   \* bound: frames the kernel takes while one action runs
  MaxBreaks,   \* bound: failed sends, and reconnects the client starts
  MaxEvents    \* bound: events of the office, and chats the member opens

Arrays == 1..MaxArrays

ASSUME AgentsAssumption == NoAgent \notin Agents
ASSUME LimitsAssumption ==
  /\ {HighWater, Budget, MaxQueued, Window} \subseteq Nat \ {0}
  /\ {MaxArrays, MaxEntries, MaxCredit, MaxBreaks, MaxEvents} \subseteq Nat

VARIABLES
  office,    \* the agents, their log cache and what the session sees
  box,       \* the socket and its OfficeOutbox
  browser,   \* the client's store and its socket
  past       \* history, and the counters of the bounds

vars == <<office, box, browser, past>>

-----------------------------------------------------------------------------
(* State.                                                                  *)

\* The frames the browser tells apart. An item of the outbox is a frame, or a
\* step of a replay: a reference into an array (`n' and `i'), its fence, and
\* the end of its producer.
Frame == [t : {"full", "entry", "clear", "removed", "fence"},
          a : Agents \cup {NoAgent}, n : 0..MaxEntries]
Step == [t : {"ref"}, a : Agents, n : Arrays, i : 1..MaxEntries]
          \cup [t : {"done"}]
Item == Frame \cup Step

Full == [t |-> "full", a |-> NoAgent, n |-> 0]
Fence == [t |-> "fence", a |-> NoAgent, n |-> 0]
Entry(a, e) == [t |-> "entry", a |-> a, n |-> e]
Clear(a) == [t |-> "clear", a |-> a, n |-> 0]
Removed(a) == [t |-> "removed", a |-> a, n |-> 0]

Log == Seq(1..MaxEntries)

\* `cache' is logCache: the array of each agent. `order': the agents there are.
\* `leaving' counts the kills of an agent that have yet to announce it.
Office ==
  [arrays : [Arrays -> Log], owner : [Arrays -> Agents \cup {NoAgent}],
   cache : [Agents -> Arrays \cup {0}], order : Seq(Agents),
   leaving : [Agents -> Nat], visible : SUBSET Agents, entries : 0..MaxEntries]

\* `bun' and `wire' are the frames Bun and the network hold.
Box ==
  [items : Seq(Item), scheduled : BOOLEAN, disposed : BOOLEAN,
   bun : Seq(Frame), wire : Seq(Frame), up : BOOLEAN,
   budget : 0..Budget, credit : 0..MaxCredit, fault : 0..2]

\* `logs' and `buffer' are AppState.logs and logsReplay.logs, `window' that
\* logsReplay is set. logEntryIds holds the ids of `logs'. `late': frames of
\* the socket the client replaced.
Browser ==
  [state : {"opening", "open"}, logs : [Agents -> Log],
   buffer : [Agents -> Log], window : BOOLEAN,
   focus : Agents \cup {NoAgent}, late : Seq(Frame)]

\* `torn': agents the browser holds a partial chat of because of a revive.
Past ==
  [torn : SUBSET Agents, revived : SUBSET Agents,
   breaks : 0..MaxBreaks, events : 0..MaxEvents]

-----------------------------------------------------------------------------
(* OfficeOutbox.                                                           *)

Room(r) == Len(r.bun) < HighWater

Fail(r) ==
  [r EXCEPT !.items = <<>>, !.disposed = TRUE, !.bun = <<>>, !.up = FALSE]

\* Bun's send(): the kernel takes the frame, Bun queues it, or it fails.
Write(r, f) ==
  IF r.fault = 1 THEN Fail(r)
  ELSE LET s == [r EXCEPT !.fault = IF @ = 0 THEN 0 ELSE @ - 1]
       IN IF s.bun = <<>> /\ s.credit > 0 /\ Len(s.wire) < Window
          THEN [s EXCEPT !.wire = Append(@, f), !.credit = @ - 1]
          ELSE [s EXCEPT !.bun = Append(@, f)]

Later(r) == IF r.disposed THEN r ELSE [r EXCEPT !.scheduled = TRUE]

Live == {"full", "entry", "clear", "removed"}

\* queuedBytes: the frames of send() that wait; a replay's do not count.
QueuedBytes(r) == Len(SelectSeq(r.items, LAMBDA x : x.t \in Live))

\* A live frame that overtakes what waits.
MutSend(r, f) ==
  IF r.disposed THEN r
  ELSE IF Room(r) THEN Write(r, f)
  ELSE IF QueuedBytes(r) + 1 > MaxQueued THEN Fail(r)
  ELSE Later([r EXCEPT !.items = Append(@, f)])

Send(r, f) ==
  IF r.disposed THEN r
  ELSE IF r.items = <<>> /\ Room(r) THEN Write(r, f)
  ELSE IF QueuedBytes(r) + 1 > MaxQueued THEN Fail(r)
  ELSE Later([r EXCEPT !.items = Append(@, f)])

\* A replay reads its array when it produces the frame.
Produce(x) ==
  IF x.t # "ref" THEN x
  ELSE LET log == office.arrays[x.n]
       IN Entry(x.a, IF x.i <= Len(log) THEN log[x.i] ELSE 0)

\* take() and write(): one turn of the pump's loop, or the item stays.
PumpStep(r, x) ==
  IF r.disposed THEN r
  ELSE IF r.items # <<>> \/ ~Room(r) \/ r.budget = 0
  THEN [r EXCEPT !.items = Append(@, x)]
  ELSE IF x.t = "done" THEN r
  ELSE Write([r EXCEPT !.budget = @ - 1], Produce(x))

\* Bun full: its drain resumes the pump. Budget spent: the next tick does.
Pump(r) ==
  LET s == FoldLeft(PumpStep, [r EXCEPT !.items = <<>>, !.budget = Budget],
                    r.items)
  IN IF s.items # <<>> /\ Room(s) THEN Later(s) ELSE s

SendLazy(r, steps) ==
  LET s == [r EXCEPT !.items = @ \o steps]
  IN IF r.disposed THEN r
     ELSE IF r.items = <<>> THEN Pump(s) ELSE Later(s)

-----------------------------------------------------------------------------
(* The projection.                                                         *)

Alive == Range(office.order)

Logs(o, a) == IF o.cache[a] = 0 THEN <<>> ELSE o.arrays[o.cache[a]]

\* replayFrames: the arrays and their lengths now, then the fence.
ReplayFrames(o) ==
  LET Refs(a) == [i \in 1..Len(Logs(o, a)) |->
                    [t |-> "ref", a |-> a, n |-> o.cache[a], i |-> i]]
  IN FoldLeft(LAMBDA steps, a : steps \o Refs(a), <<>>,
              SelectSeq(o.order, LAMBDA a : a \in o.visible))
       \o <<Fence, [t |-> "done"]>>

\* What a connect and a refresh send.
FullState(r, o) == SendLazy(Send(r, Full), ReplayFrames(o))

\* A refresh that sends the new projection behind the frames of the old one.
MutSendProjectedFullState(r, o) == FullState(r, o)

\* A refresh while frames of the old projection wait closes the socket.
SendProjectedFullState(r, o) ==
  IF r.items # <<>> THEN Fail(r) ELSE FullState(r, o)

\* officeSend of the frames of an agent's event, to a session that sees it.
Emit(r, o, a, frames) ==
  IF a \in o.visible THEN FoldLeft(Send, r, frames) ELSE r

-----------------------------------------------------------------------------
(* The client.                                                             *)

Blank == [a \in Agents |-> <<>>]

Commit(b) ==
  IF b.window
  THEN [b EXCEPT !.logs = b.buffer, !.buffer = Blank, !.window = FALSE]
  ELSE b

Holding(b) == b.focus # NoAgent /\ b.logs[b.focus] # <<>>

\* full_state: the chat on screen stays until the replay is complete.
OnFullState(b) ==
  [b EXCEPT
     !.logs = [a \in Agents |->
                 IF Holding(b) /\ a = b.focus THEN b.logs[a] ELSE <<>>],
     !.buffer = Blank, !.window = Holding(b)]

\* log_entry, with the dedupe by id.
AddTo(logs, f) ==
  IF f.n \in Range(logs[f.a]) THEN logs
  ELSE [logs EXCEPT ![f.a] = Append(@, f.n)]

OnLogEntry(b, f) ==
  IF b.window THEN [b EXCEPT !.buffer = AddTo(@, f)]
              ELSE [b EXCEPT !.logs = AddTo(@, f)]

OnClear(b, a) == [b EXCEPT !.logs[a] = <<>>, !.buffer[a] = <<>>]

OnRemoved(b, a) ==
  [OnClear(b, a) EXCEPT !.focus = IF @ = a THEN NoAgent ELSE @]

Reduce(b, f) ==
  CASE f.t = "full"    -> OnFullState(b)
    [] f.t = "entry"   -> OnLogEntry(b, f)
    [] f.t = "clear"   -> OnClear(b, f.a)
    [] f.t = "removed" -> OnRemoved(b, f.a)
    [] f.t = "fence"   -> Commit(b)

\* ws.onmessage: a frame of a replaced socket is ignored.
OnMessage(b, f, current) == IF current THEN Reduce(b, f) ELSE b

-----------------------------------------------------------------------------
(* The server's actions.                                                   *)

\* The socket at the start of a run of the server, and at its end.
Starts ==
  {[box EXCEPT !.credit = c, !.fault = f] :
     c \in 0..MaxCredit,
     f \in IF past.breaks < MaxBreaks THEN 0..2 ELSE {0}}

Ends(start, r) ==
  /\ start.fault > 0 => start.up /\ ~r.up
  /\ start.credit > 0 => r.credit = 0
  /\ box' = [r EXCEPT !.credit = 0, !.fault = 0, !.budget = 0]

Faulted(start) == past.breaks + (IF start.fault > 0 THEN 1 ELSE 0)

MayHappen == past.events < MaxEvents

Event(start) ==
  past' = [past EXCEPT !.breaks = Faulted(start), !.events = @ + 1]

\* addLogEntry: push, then the event.
AddLogEntry(a) ==
  /\ MayHappen /\ a \in Alive /\ office.entries < MaxEntries
  /\ LET e == office.entries + 1 IN
       \E s \in Starts :
         /\ office' = [office EXCEPT !.entries = e,
                                     !.arrays[office.cache[a]] = Append(@, e)]
         /\ Ends(s, Emit(s, office, a, <<Entry(a, e)>>))
         /\ Event(s)
  /\ UNCHANGED browser

Unused == {k \in Arrays : office.owner[k] = NoAgent}

\* The clear done in place, on the array a replay may still read.
MutInstall(o, k, a, log) ==
  [o EXCEPT !.owner[k] = a,
            !.arrays = IF o.cache[a] = 0 THEN [@ EXCEPT ![k] = log]
                       ELSE [@ EXCEPT ![o.cache[a]] = log],
            !.cache[a] = IF @ = 0 THEN k ELSE @]

\* A new array in the cache.
Install(o, k, a, log) ==
  [o EXCEPT !.owner[k] = a, !.arrays[k] = log, !.cache[a] = k]

\* A new array, clear_logs, and the events of its entries.
Replace(a, log, added) ==
  /\ MayHappen /\ a \in Alive /\ Unused # {}
  /\ office.entries + added <= MaxEntries
  /\ office' = [Install(office, Min(Unused), a, log)
                  EXCEPT !.entries = @ + added]
  /\ \E s \in Starts :
       /\ Ends(s, Emit(s, office, a, <<Clear(a)>> \o
                                       [i \in 1..Len(log) |-> Entry(a, log[i])]))
       /\ Event(s)
  /\ UNCHANGED browser

Line == <<office.entries + 1>>

\* newConversation: typed as /clear it writes no line.
NewConversation(a) == Replace(a, <<>>, 0) \/ Replace(a, Line, 1)

\* resume: the log of one of the agent's conversations, then a line.
Resume(a) ==
  \E k \in Arrays :
    office.owner[k] = a /\ Replace(a, office.arrays[k] \o Line, 1)

\* The edit of a message no backend took: the log before it.
EditUnsent(a) ==
  \E n \in 1..Len(Logs(office, a)) :
    Replace(a, SubSeq(Logs(office, a), 1, n - 1), 0)

\* The edit that opens a fork: its awaits are over, and the log before the
\* message is of the conversation it began in.
EditFork(a) ==
  \E k \in Arrays : \E n \in 1..Len(office.arrays[k]) :
    /\ office.owner[k] = a
    /\ Replace(a, SubSeq(office.arrays[k], 1, n - 1) \o Line, 1)

\* kill, up to the wait for its consumer.
Kill(a) ==
  /\ MayHappen /\ a \in Alive
  /\ office' = [office EXCEPT !.order = Remove(@, a), !.cache[a] = 0,
                              !.leaving[a] = @ + 1]
  /\ Event(box)
  /\ UNCHANGED <<box, browser>>

\* The rest of kill.
AgentRemoved(a) ==
  /\ office.leaving[a] > 0
  /\ \E s \in Starts :
       /\ Ends(s, Emit(s, office, a, <<Removed(a)>>))
       /\ past' = [past EXCEPT
                     !.breaks = Faulted(s),
                     !.torn = IF a \in Alive THEN @ \cup {a} ELSE @]
  /\ office' = [office EXCEPT !.leaving[a] = @ - 1]
  /\ UNCHANGED browser

\* revive: the transcript goes into the cache, with no event.
Revive(a) ==
  /\ a \notin Alive /\ Unused # {} /\ MayHappen
  /\ \E k \in Arrays :
       /\ office.owner[k] = a
       /\ office' = [Install(office, Min(Unused), a, office.arrays[k])
                       EXCEPT !.order = Append(@, a)]
  /\ past' = [past EXCEPT !.torn = @ \cup {a}, !.revived = @ \cup {a},
                          !.events = @ + 1]
  /\ UNCHANGED <<box, browser>>

\* What is still torn after a snapshot: an agent with a removal to come.
StillTorn == {a \in past.torn : office.leaving[a] > 0}

\* Access granted or taken, or an agent moved: a refresh with a replay.
AccessChange(seen) ==
  /\ MayHappen /\ seen # office.visible
  /\ office' = [office EXCEPT !.visible = seen]
  /\ \E s \in Starts :
       /\ Ends(s, IF box.up THEN SendProjectedFullState(s, office') ELSE s)
       /\ past' = [past EXCEPT !.events = @ + 1, !.breaks = Faulted(s),
                               !.torn = StillTorn]
  /\ UNCHANGED browser

\* The scheduled pump.
PumpTick ==
  /\ box.scheduled
  /\ \E s \in Starts : /\ Ends(s, Pump([s EXCEPT !.scheduled = FALSE]))
                    /\ past' = [past EXCEPT !.breaks = Faulted(s)]
  /\ UNCHANGED <<office, browser>>

-----------------------------------------------------------------------------
(* The network.                                                            *)

\* Nothing runs the pump after a drain.
MutDrain(r) == r

Drain(r) == Later(r)

\* The kernel takes a frame; Bun reports the drain when it holds none.
KernelTakes ==
  /\ box.bun # <<>> /\ Len(box.wire) < Window
  /\ LET r == [box EXCEPT !.bun = Tail(@), !.wire = Append(@, Head(box.bun))]
     IN box' = IF r.bun = <<>> THEN Drain(r) ELSE r
  /\ UNCHANGED <<office, browser, past>>

-----------------------------------------------------------------------------
(* The browser's actions.                                                  *)

Receive ==
  /\ browser.state = "open" /\ box.wire # <<>>
  /\ browser' = OnMessage(browser, Head(box.wire), TRUE)
  /\ box' = [box EXCEPT !.wire = Tail(@)]
  /\ UNCHANGED <<office, past>>

ReceiveLate ==
  /\ browser.late # <<>>
  /\ browser' = [OnMessage(browser, Head(browser.late), FALSE)
                   EXCEPT !.late = Tail(@)]
  /\ UNCHANGED <<office, box, past>>

\* LOG_REPLAY_FALLBACK_MS after the window opened.
Fallback ==
  /\ browser.window
  /\ browser' = Commit(browser)
  /\ UNCHANGED <<office, box, past>>

Focus(a) ==
  /\ MayHappen /\ browser.focus # a
  /\ browser' = [browser EXCEPT !.focus = a]
  /\ past' = [past EXCEPT !.events = @ + 1]
  /\ UNCHANGED <<office, box>>

Closed ==
  [items |-> <<>>, scheduled |-> FALSE, disposed |-> TRUE, bun |-> <<>>,
   wire |-> <<>>, up |-> FALSE, budget |-> 0, credit |-> 0, fault |-> 0]

\* connect(): after onclose, or when a ping has no answer.
Connect ==
  /\ browser.state = "open"
  /\ box.up => past.breaks < MaxBreaks
  /\ browser' = [browser EXCEPT !.state = "opening",
                                !.late = IF box.up THEN box.wire ELSE <<>>]
  /\ box' = Closed
  /\ past' = [past EXCEPT !.breaks = @ + (IF box.up THEN 1 ELSE 0)]
  /\ UNCHANGED office

\* The server's open handler, on a new socket with a new outbox.
Open ==
  /\ browser.state = "opening"
  /\ browser' = [browser EXCEPT !.state = "open"]
  /\ \E s \in Starts :
       LET new == [s EXCEPT !.disposed = FALSE, !.up = TRUE]
       IN /\ Ends(new, FullState(new, office))
          /\ past' = [past EXCEPT !.breaks = Faulted(s), !.torn = StillTorn]
  /\ UNCHANGED office

-----------------------------------------------------------------------------
\* A server with a log of one entry for each agent, and a browser that opens.
Init ==
  /\ \E seated \in SetToSeqs(Agents) :
       LET n == Len(seated)
       IN office =
            [arrays |-> [k \in Arrays |-> IF k <= n THEN <<k>> ELSE <<>>],
             owner |-> [k \in Arrays |-> IF k <= n THEN seated[k] ELSE NoAgent],
             cache |-> [a \in Agents |-> CHOOSE k \in 1..n : seated[k] = a],
             order |-> seated, leaving |-> [a \in Agents |-> 0],
             visible |-> Agents, entries |-> n]
  /\ box = Closed
  /\ browser = [state |-> "opening", logs |-> Blank, buffer |-> Blank,
                window |-> FALSE, focus |-> NoAgent, late |-> <<>>]
  /\ past = [torn |-> {}, revived |-> {}, breaks |-> 0, events |-> 0]

Server ==
  \/ \E a \in Agents :
       \/ AddLogEntry(a) \/ NewConversation(a) \/ Resume(a)
       \/ EditUnsent(a) \/ EditFork(a)
       \/ Kill(a) \/ AgentRemoved(a) \/ Revive(a)
  \/ \E seen \in SUBSET Agents : AccessChange(seen)
  \/ PumpTick

Client ==
  \/ Receive \/ ReceiveLate \/ Fallback \/ Connect \/ Open
  \/ \E a \in Agents \cup {NoAgent} : Focus(a)

Next == Server \/ KernelTakes \/ Client

Spec == Init /\ [][Next]_vars

-----------------------------------------------------------------------------
(* Properties.                                                             *)

\* The state keeps its type.
TypeOK ==
  office \in Office /\ box \in Box /\ browser \in Browser /\ past \in Past

\* The frames on their way, oldest first.
Pending ==
  box.wire \o box.bun \o
    SelectSeq([i \in DOMAIN box.items |-> Produce(box.items[i])],
              LAMBDA x : x.t # "done")

\* The chat of each agent that the server has for this session.
Expected(b, a) ==
  \/ b.logs[a] =
       IF a \in Alive \cap office.visible THEN Logs(office, a) ELSE <<>>
  \/ a \notin Alive /\ office.leaving[a] > 0
  \/ a \in past.torn

\* At any time, the frames on their way bring the browser to exactly the
\* server's chats and close its replay window: replays and live frames neither
\* overtake each other nor drop, repeat or bring back an entry, whatever was
\* pushed, cleared or resumed while the replay waited for the socket, and
\* whatever the fallback timer did.
InSync ==
  browser.state = "open" /\ box.up =>
    LET b == FoldLeft(Reduce, browser, Pending)
    IN ~b.window /\ \A a \in Agents : Expected(b, a)

\* The chat on screen is always the beginning of one conversation, also offline
\* across a /clear, a resume or an edit: never two of them, or one with a hole
\* ("merging would concatenate two conversations").
NoMixedChat ==
  \A a \in Agents \ past.revived :
    \/ browser.logs[a] = <<>>
    \/ \E k \in Arrays : /\ office.owner[k] = a
                         /\ IsPrefix(browser.logs[a], office.arrays[k])

\* What waits behind a slow browser stays within the outbox's limits, and
\* nothing of it is about a room the session has lost.
BacklogSound ==
  /\ Len(box.bun) <= HighWater /\ QueuedBytes(box) <= MaxQueued
  /\ \A i \in DOMAIN box.items :
       box.items[i].t \in {"ref", "entry", "clear", "removed"} =>
         box.items[i].a \in office.visible

\* When the socket is up and nothing is on its way, the browser shows what the
\* server has: no backlog is left without a pump or a drain to come.
NoStall ==
  (/\ browser.state = "open" /\ box.up
   /\ ~box.scheduled /\ box.bun = <<>> /\ box.wire = <<>>)
    => ~browser.window /\ \A a \in Agents : Expected(browser, a)
=============================================================================
