---------------------------- MODULE BrowserGrant ----------------------------
(***************************************************************************)
(* Agents that drive one tab a member offered: the queue of browser        *)
(* actions and the timeout of each (browser-extension-session.ts), the     *)
(* grant's phase, its action fence and its commands in flight              *)
(* (browser-extension-bridge.ts) and the client's transport                *)
(* (browser-extension-transport.ts).                                       *)
(*                                                                         *)
(* External: Playwright, which turns an action into commands and may go on *)
(* after the action was answered; Chrome and the extension, which answer a *)
(* command late or never; the member. What the page shows when an action   *)
(* looks at it is an input (`look').                                       *)
(*                                                                         *)
(* A step is what runs between two awaits. An action has at most one       *)
(* command of each kind in flight: the code only asks whether there is     *)
(* one.                                                                    *)
(***************************************************************************)
EXTENDS Naturals, FiniteSets, FiniteSetsExt, Sequences

CONSTANTS
  Agents,
  Kinds,       \* the kinds of action asked for
  MaxActions,  \* bound: actions asked for
  MaxEvents    \* bound: what the member, Chrome and the page do

ASSUME KindsAssumption == Kinds \subseteq {"goto", "input", "mute", "close"}
ASSUME BoundsAssumption == {MaxActions, MaxEvents} \subseteq Nat

VARIABLES
  tab,     \* the grant, its clients, its actions and their commands
  events   \* counter of the bound MaxEvents

vars == <<tab, events>>

-----------------------------------------------------------------------------
(* State.                                                                  *)

\* A client bears the name of the action that attached it.
Actions == 1..MaxActions

Waiting == {"queued", "muting", "recovery", "draining", "changing",
            "work", "settling"}
\* What an action is told. One that officeRefused() replaces at the end, on a
\* page whose gate is closed, is under the name it had.
Answers == {"ok", "failed", "ended", "closed", "refused", "detached",
            "overrun", "not_sent", "timed_out", "still_settling"}

\* What is seen of the page: nothing special, a closed office gate, a goto to
\* an office page, an open dialog, a dialog Playwright still holds, a page
\* the client never set up.
Looks == {"plain", "gated", "office", "dialog", "held", "unset"}

\* An action: who asked, whether it named its target, where it is (`pc', at
\* the end its answer), the client it holds, how far its operation is (`op')
\* and the settlement of its timeout. A "stray" operation has failed, but a
\* wait it gave up on may still send.
Action ==
  [agent : Agents, kind : Kinds, named : BOOLEAN,
   pc : Waiting \cup Answers, client : Actions \cup {0},
   op : {"none", "leave", "left", "connecting", "working", "stray", "done"},
   settle : {"none", "waiting", "done"}, retire : BOOLEAN]

\* A command in flight. Action 0: the bridge's own, or a client's that belongs
\* to no action.
Command ==
  [act : Actions \cup {0}, by : {"client", "bridge"}, late : BOOLEAN]

\* `peer': the attached client. `fence': the action that set the fence.
\* `session': the client in the sessions map. `rival': another offer, so that
\* an action that names no target does not resolve to this one.
Tab ==
  [kind : {"offered", "attached", "recovering", "released"},
   peer : Actions \cup {0}, fence : Actions \cup {0},
   session : Actions \cup {0},
   client : [Actions -> {"unused", "open", "ending", "closed"}],
   act : Seq(Action), pending : SUBSET Command,
   access : SUBSET Agents, rival : BOOLEAN]

-----------------------------------------------------------------------------
(* The grant and its client.                                               *)

\* enter(): leaving a phase drops its fence and its peer.
Enter(s, from, next) ==
  IF s.kind \in from
  THEN [s EXCEPT !.kind = next, !.peer = 0, !.fence = 0] ELSE s

Answer(s, j, r) == [s EXCEPT !.act[j].pc = r]

\* The action still resolves to this grant.
Valid(s, j) ==
  /\ s.kind # "released" /\ s.act[j].agent \in s.access
  /\ s.act[j].named \/ ~s.rival

AddCommand(s, j, by) ==
  IF \E c \in s.pending : c.act = j /\ c.by = by THEN s
  ELSE [s EXCEPT !.pending =
                   @ \cup {[act |-> j, by |-> by, late |-> FALSE]}]

\* end(): the client leaves the map; its browser closes in its own time.
End(s) ==
  IF s.session = 0 THEN s
  ELSE [s EXCEPT !.session = 0, !.client[s.session] = "ending"]

\* settleTimeout up to its await: stop a load, fence the attached client.
SettleTimeout(s, j, retire) ==
  IF ~Valid(s, j) THEN Answer(s, j, "ended")
  ELSE LET t == IF s.act[j].kind = "goto" /\ s.kind # "recovering"
                THEN AddCommand(s, j, "bridge") ELSE s
       IN [t EXCEPT !.fence = IF t.kind = "attached" THEN j ELSE @,
                    !.act[j] = [@ EXCEPT !.pc = "settling", !.retire = retire,
                                         !.settle = "waiting"]]

\* onEnd: the signal of the action's client aborted.
OnEnd(s, j) ==
  IF ~Valid(s, j) THEN Answer(End(s), j, "ended")
  ELSE IF s.kind = "recovering" THEN Answer(End(s), j, "detached")
  ELSE SettleTimeout(s, j, FALSE)

\* The transport's close(): the action that works on it ends.
CloseTransport(s, k) ==
  IF k = 0 \/ s.client[k] \notin {"open", "ending"} THEN s
  ELSE LET t == [s EXCEPT !.client[k] = "closed",
                          !.session = IF @ = k THEN 0 ELSE @]
           u == IF t.peer = k THEN Enter(t, {"attached"}, "offered") ELSE t
           on == {j \in DOMAIN u.act : u.act[j].pc = "work"
                                         /\ u.act[j].client = k}
       IN IF on = {} THEN u ELSE OnEnd(u, Max(on))

\* retireClient: the client and every command of the grant go.
RetireClient(s) ==
  IF s.kind = "released" THEN s
  ELSE CloseTransport(Enter([s EXCEPT !.pending = {}], {"attached"}, "offered"),
                      s.peer)

Retire(s) == End(RetireClient(s))

Release(s) ==
  CloseTransport([s EXCEPT !.kind = "released", !.peer = 0, !.fence = 0,
                           !.pending = {}], s.peer)

-----------------------------------------------------------------------------
(* An action, up to its operation.                                         *)

\* The rest of an operation that threw: respond()'s catch.
Failed(s, j) ==
  IF ~Valid(s, j) THEN Answer(s, j, "ended")
  ELSE IF \E c \in s.pending : c.late THEN SettleTimeout(s, j, FALSE)
  ELSE LET t == Answer(s, j, "failed")
       IN IF s.act[j].op = "connecting"
          THEN CloseTransport(t, t.act[j].client) ELSE t

Over(s, j) == [s EXCEPT !.act[j] = [@ EXCEPT !.op = "done", !.client = 0]]

\* The agent of a client.
Actor(s, k) == s.act[k].agent

\* The transport's constructor: assign() attaches a new client or throws.
Attach(s, j) ==
  IF s.kind = "offered" /\ s.pending = {} /\ s.act[j].agent \in s.access
  THEN [s EXCEPT !.kind = "attached", !.peer = j, !.client[j] = "open",
                 !.act[j] = [@ EXCEPT !.client = j, !.op = "connecting"]]
  ELSE Over(IF s.act[j].pc = "work" THEN Failed(s, j) ELSE s, j)

\* A stuck client goes, and the action attaches a new one.
DropClient(s, j) ==
  IF s.act[j].client = 0 THEN s ELSE [Retire(s) EXCEPT !.act[j].client = 0]

\* task() to its first await. A goto leaves a refused office page first.
Launch(s, j, look) ==
  LET leaving == look = "gated" /\ s.act[j].kind = "goto"
      t == IF leaving \/ look = "unset" THEN DropClient(s, j) ELSE s
      u == [t EXCEPT !.act[j].pc = "work"]
      k == u.act[j].client
  IN IF leaving
     THEN IF u.kind \in {"recovering", "released"} THEN Over(Failed(u, j), j)
          ELSE AddCommand([u EXCEPT !.act[j].op = "leave"], j, "bridge")
     ELSE IF k = 0 THEN Attach(u, j)
     ELSE IF u.client[k] = "closed" THEN Over(OnEnd(u, j), j)
     ELSE [u EXCEPT !.act[j].op = "working"]

\* Another agent's client is kept.
MutProceed(s, j, look) ==
  IF look = "dialog" THEN Answer(s, j, "failed")
  ELSE Launch(IF look = "held" THEN DropClient(s, j) ELSE s, j, look)

\* From the dialog check on. One client per actor.
Proceed(s, j, look) ==
  IF look = "dialog" THEN Answer(s, j, "failed")
  ELSE LET t == IF look = "held" THEN DropClient(s, j) ELSE s
           k == t.act[j].client
       IN IF k # 0 /\ Actor(t, k) # t.act[j].agent
          THEN [t EXCEPT !.session = 0, !.act[j].pc = "changing",
                         !.client[k] = IF @ = "open" THEN "ending" ELSE @]
          ELSE Launch(t, j, look)

\* What an action that sent nothing is told: an offer that is gone says so.
Refusal(s, j, r) ==
  IF s.kind = "released" \/ s.act[j].agent \notin s.access THEN "ended" ELSE r

\* The fence is not asked for.
MutRecovered(s, j, look) ==
  IF s.kind \in {"recovering", "released"}
  THEN Answer(s, j, Refusal(s, j, "not_sent"))
  ELSE IF s.pending # {} THEN [s EXCEPT !.act[j].pc = "draining"]
  ELSE Proceed(s, j, look)

\* After waitForRecovery: what still settles refuses the action.
Recovered(s, j, look) ==
  IF s.kind \in {"recovering", "released"}
  THEN Answer(s, j, Refusal(s, j, "not_sent"))
  ELSE LET k == s.act[j].client
           t == IF k # 0 /\ s.client[k] = "closed"
                THEN [End(s) EXCEPT !.act[j].client = 0] ELSE s
       IN IF t.fence # 0 THEN Answer(t, j, "not_sent")
          ELSE IF t.pending # {} THEN [t EXCEPT !.act[j].pc = "draining"]
          ELSE Proceed(t, j, look)

\* extensionAction, up to its first await.
Start(s, j, look) ==
  LET a == s.act[j]
      t == [s EXCEPT !.act[j].client = s.session]
  IN IF ~Valid(s, j) THEN Answer(s, j, "ended")
     ELSE IF a.kind = "close" THEN Answer(Release(End(s)), j, "closed")
     ELSE IF a.kind = "mute"
     THEN IF s.kind = "recovering" THEN Answer(s, j, "failed")
          ELSE [AddCommand(s, j, "bridge") EXCEPT !.act[j].pc = "muting"]
     ELSE IF look = (IF a.kind = "goto" THEN "office" ELSE "gated")
     THEN Answer(s, j, "refused")
     ELSE IF s.kind = "recovering" THEN [t EXCEPT !.act[j].pc = "recovery"]
     ELSE Recovered(t, j, look)

-----------------------------------------------------------------------------
(* The office's steps.                                                     *)

InFlight(j) == \E c \in tab.pending : c.act = j
Answered(j) == tab.act[j].pc \in Answers
Step(s) == tab' = s /\ UNCHANGED events

\* run(): bound to the grant it resolves to, behind the earlier actions.
Run(agent, kind, named) ==
  /\ Len(tab.act) < MaxActions
  /\ LET a == [agent |-> agent, kind |-> kind, named |-> named,
               pc |-> "queued", client |-> 0, op |-> "none",
               settle |-> "none", retire |-> FALSE]
         s == [tab EXCEPT !.act = Append(@, a)]
     IN Valid(s, Len(s.act)) /\ Step(s)

Begin(j, look) ==
  /\ tab.act[j].pc = "queued" /\ \A i \in 1..(j - 1) : Answered(i)
  /\ Step(Start(tab, j, look))

\* The recovery is over, or the wait for it is.
RecoveryOver(j, look) ==
  tab.act[j].pc = "recovery" /\ Step(Recovered(tab, j, look))

\* The commands in flight are over, or the wait for them is.
Drained(j, look) ==
  /\ tab.act[j].pc = "draining"
  /\ Step(IF tab.pending # {} THEN Answer(tab, j, "not_sent")
          ELSE Proceed(tab, j, look))

\* The other agent's client is closed, or the wait for it is over.
Changed(j, look) ==
  /\ tab.act[j].pc = "changing"
  /\ LET s == [CloseTransport(tab, tab.act[j].client)
                  EXCEPT !.act[j].client = 0]
     IN Step(IF s.pending # {} THEN Answer(s, j, "not_sent")
             ELSE Launch(s, j, look))

MuteAnswers(j) ==
  /\ tab.act[j].pc = "muting"
  /\ \A c \in tab.pending : c.act = j => c.late
  /\ \/ ~InFlight(j) /\ Step(Answer(tab, j, "ok"))
     \/ Step(Answer(tab, j, Refusal(tab, j, "failed")))

\* The action's own timer. A leave has an earlier one.
Watchdog(j) ==
  /\ tab.act[j].pc = "work" /\ tab.act[j].op \notin {"leave", "left"}
  /\ Step(SettleTimeout(tab, j, TRUE))

LeaveTimesOut(j) ==
  /\ tab.act[j].op \in {"leave", "left"}
  /\ Step(Over(IF tab.act[j].pc = "work" THEN SettleTimeout(tab, j, FALSE)
               ELSE tab, j))

\* Whoever set the fence.
MutHeld(j) == tab.fence # 0

Held(j) == tab.fence = j

\* The timed-out work is over and nothing is in flight.
Settled(j) ==
  /\ tab.act[j].settle = "waiting" /\ tab.act[j].op \in {"stray", "done"}
  /\ tab.pending = {}
  /\ LET s == [tab EXCEPT !.act[j] = [@ EXCEPT !.settle = "done",
                                               !.retire = FALSE]]
     IN Step(IF ~Held(j) THEN s
             ELSE [IF tab.act[j].retire THEN Retire(s) ELSE s
                     EXCEPT !.fence = 0])

\* A client whose work still runs is not busy for want of a command.
MutGrace(j) ==
  /\ tab.act[j].pc = "settling"
  /\ Step(Answer(tab, j, IF ~Valid(tab, j) THEN "ended"
                         ELSE IF tab.pending # {} THEN "still_settling"
                         ELSE "timed_out"))

\* The answer of a timed-out action: it settled, or the grace is over.
Grace(j) ==
  /\ tab.act[j].pc = "settling"
  /\ Step(Answer(tab, j, IF ~Valid(tab, j) THEN "ended"
                         ELSE IF Held(j) \/ tab.pending # {}
                         THEN "still_settling" ELSE "timed_out"))

\* The fence's ceiling, longer than the grace.
Ceiling(j) ==
  /\ tab.fence = j /\ Answered(j)
  /\ Step(Retire([tab EXCEPT !.fence = 0]))

\* The timers of a command: it is late, and then its client goes.
CommandTimesOut(c) ==
  /\ c \in tab.pending /\ ~c.late
  /\ Step([tab EXCEPT !.pending = (@ \ {c}) \cup {[c EXCEPT !.late = TRUE]}])

CommandUnanswered(c) ==
  c \in tab.pending /\ c.late /\ Step(RetireClient(tab))

-----------------------------------------------------------------------------
(* Playwright.                                                             *)

\* leaveOffice: the navigation away was answered and committed, or failed.
LeaveCommits(j) == tab.act[j].op = "left" /\ Step(Attach(tab, j))

LeaveFails(j) ==
  /\ tab.act[j].op \in {"leave", "left"}
  /\ Step(Over(IF tab.act[j].pc = "work" THEN Failed(tab, j) ELSE tab, j))

Reaches(s, j) ==
  LET k == s.act[j].client
  IN /\ s.act[j].op \in {"connecting", "working", "stray"}
     /\ k # 0 /\ s.client[k] \in {"open", "ending"} /\ s.peer = k

\* The client sends a command of the action's operation; the bridge takes it
\* from the attached client, under the access of the client's actor.
ClientCommand(j) ==
  /\ Reaches(tab, j) /\ Actor(tab, tab.act[j].client) \in tab.access
  /\ Step(AddCommand(tab, j, "client"))

\* connectOverCDP resolved. A client that shows no page, or that came too late,
\* closes again, and its close ends the action.
Connected(j) ==
  LET k == tab.act[j].client
      s == [tab EXCEPT !.session = k]
  IN /\ tab.act[j].op = "connecting" /\ tab.client[k] = "open"
     /\ \/ Step([tab EXCEPT !.client[k] = "ending", !.act[j].op = "done"])
        \/ /\ Valid(tab, j)
           /\ Step(IF s.act[j].settle = "none"
                   THEN [s EXCEPT !.act[j].op = "working"] ELSE Over(s, j))

\* The operation resolves or throws, and respond() answers if it still waits.
OperationEnds(j, how) ==
  LET a == tab.act[j]
      ended ==
        CASE how = "ok" -> IF Valid(tab, j) THEN Answer(tab, j, "ok")
                           ELSE Answer(End(tab), j, "ended")
          [] how = "failed" -> Failed(tab, j)
          [] how = "timeout" -> SettleTimeout(tab, j, FALSE)
          [] how = "stalled" -> SettleTimeout(tab, j, TRUE)
          [] how = "unanswered" ->
               IF ~Valid(tab, j) THEN Answer(tab, j, "ended")
               ELSE Retire(Answer(tab, j, "failed"))
      s == IF a.pc = "work" THEN ended ELSE tab
      k == a.client
      t == IF a.op = "connecting" /\ s.client[k] = "open"
           THEN [s EXCEPT !.client[k] = "ending"] ELSE s
  IN /\ \/ a.op = "working"
        \/ a.op = "connecting" /\ how \in {"failed", "timeout"}
     /\ how = "unanswered" => tab.pending = {}
     /\ Step(IF how \in {"stalled", "unanswered"}
             THEN [t EXCEPT !.act[j].op = "stray"] ELSE Over(t, j))

\* A browser that closes, or a failed connect, closes its transport at last.
ClientCloses(k) ==
  tab.client[k] = "ending" /\ Step(CloseTransport(tab, k))

-----------------------------------------------------------------------------
(* Chrome, the extension and the member.                                   *)

CommandAnswered(c) ==
  /\ c \in tab.pending
  /\ LET s == [tab EXCEPT !.pending = @ \ {c}]
     IN Step(IF c.act # 0 /\ ~c.late /\ s.act[c.act].op = "leave"
             THEN [s EXCEPT !.act[c.act].op = "left"] ELSE s)

Happens(s) == events < MaxEvents /\ tab' = s /\ events' = events + 1

Listening == {j \in DOMAIN tab.act : tab.act[j].pc \in {"work", "settling"}}

\* What an action is told when an answer is too large: under a name of its own
\* for one that is leaving an office page, which goes on leaving.
Overrun(s, j) ==
  IF s.act[j].op \in {"leave", "left"} THEN "overrun" ELSE "failed"

\* An answer too large to relay ends the action and its client.
AnswerTooLarge(c) ==
  /\ c \in tab.pending
  /\ LET s == [tab EXCEPT !.pending = @ \ {c}]
     IN Happens(IF Listening = {} THEN s
                ELSE LET j == Max(Listening)
                     IN Retire(IF s.act[j].pc = "work"
                               THEN Answer(s, j, Overrun(s, j)) ELSE s))

\* The tab reaches a refused office page: the bridge stops the load and asks
\* where the tab is, and the action ends with its client.
GateCloses ==
  LET s == IF tab.kind \in {"recovering", "released"} THEN tab
           ELSE AddCommand(tab, 0, "bridge")
      j == Max(Listening)
      k == IF tab.session # 0 THEN tab.session
           ELSE IF tab.act[j].op = "connecting" THEN tab.act[j].client ELSE 0
  IN /\ tab.kind # "released"
     /\ Happens(IF Listening = {} THEN s
                ELSE CloseTransport(
                       End(IF s.act[j].pc = "work"
                           THEN Answer(s, j, "refused") ELSE s), k))

\* An idle client's own command, for a new frame or a dialog.
ClientHousekeeping ==
  /\ tab.peer # 0 /\ Actor(tab, tab.peer) \in tab.access
  /\ Happens(AddCommand(tab, 0, "client"))

\* The debugger detaches, and is attached again.
Recovering ==
  /\ tab.kind # "released"
  /\ Happens(IF tab.kind = "recovering" THEN Release(tab)
             ELSE CloseTransport([tab EXCEPT !.kind = "recovering",
                                     !.peer = 0, !.fence = 0, !.pending = {}],
                                 tab.peer))

RecoveryDone ==
  tab.kind = "recovering" /\ Step(Enter(tab, {"recovering"}, "offered"))

\* Revoked, expired, detached, the recovery's deadline, the connection's end.
GrantEnds == tab.kind # "released" /\ Happens(Release(tab))

\* The agents that may use the tab change. setAccess cuts the client of one
\* that may not; a change of the office itself does not.
AccessChange(agents, cut) ==
  LET s == [tab EXCEPT !.access = agents]
  IN /\ agents # tab.access /\ tab.kind # "released"
     /\ Happens(IF cut /\ s.peer # 0 /\ Actor(s, s.peer) \notin agents
                THEN RetireClient(s) ELSE s)

RivalOffer ==
  tab.kind # "released" /\ Happens([tab EXCEPT !.rival = ~@])

-----------------------------------------------------------------------------
Init ==
  /\ tab = [kind |-> "offered", peer |-> 0, fence |-> 0, session |-> 0,
            client |-> [k \in Actions |-> "unused"],
            act |-> <<>>, pending |-> {}, access |-> Agents, rival |-> FALSE]
  /\ events = 0

Moves(j) ==
  \/ \E look \in Looks :
       \/ Begin(j, look) \/ RecoveryOver(j, look)
       \/ Drained(j, look) \/ Changed(j, look)
  \/ MuteAnswers(j) \/ Watchdog(j) \/ LeaveTimesOut(j)
  \/ Settled(j) \/ Grace(j) \/ Ceiling(j)

Office ==
  \/ \E a \in Agents, kind \in Kinds, named \in BOOLEAN : Run(a, kind, named)
  \/ \E j \in DOMAIN tab.act : Moves(j)
  \/ \E c \in tab.pending : CommandTimesOut(c) \/ CommandUnanswered(c)

Playwright ==
  \/ \E j \in DOMAIN tab.act :
       \/ LeaveCommits(j) \/ LeaveFails(j) \/ Connected(j) \/ ClientCommand(j)
       \/ \E how \in {"ok", "failed", "timeout", "stalled", "unanswered"} :
            OperationEnds(j, how)
  \/ \E k \in Actions : ClientCloses(k)

Outside ==
  \/ \E c \in tab.pending : CommandAnswered(c) \/ AnswerTooLarge(c)
  \/ GateCloses \/ ClientHousekeeping \/ Recovering \/ RecoveryDone
  \/ GrantEnds \/ RivalOffer
  \/ \E agents \in SUBSET Agents, cut \in BOOLEAN : AccessChange(agents, cut)

Next == Office \/ Playwright \/ Outside

Spec == Init /\ [][Next]_vars

-----------------------------------------------------------------------------
(* Properties.                                                             *)

\* The state keeps its type. A fence is only ever of the attached client, and
\* the client in the map is one that was attached.
TypeOK ==
  /\ tab \in Tab /\ events \in 0..MaxEvents
  /\ tab.kind = "attached" <=> tab.peer # 0
  /\ tab.fence # 0 => tab.peer # 0
  /\ tab.session # 0 => tab.client[tab.session] = "open"

\* An action that was told that control ended, that its page is refused or that
\* an answer was too large, without being settled: settleTimeout fences nothing
\* for an action that no longer resolves, and a gate that closes, or an answer
\* that is too large, while a goto leaves an office page finds no client to
\* close.
Unsettled(j) == tab.act[j].pc \in {"ended", "refused", "overrun"}

\* One action at a time drives the tab: once an action's operation has begun,
\* no earlier one has a command in flight or can send another, although it
\* may have timed out in the middle ("so the next action cannot overtake it").
OneDriver ==
  \A j \in DOMAIN tab.act : \A i \in 1..(j - 1) :
    tab.act[j].op # "none" =>
      Unsettled(i) \/ ~(InFlight(i) \/ Reaches(tab, i))

\* Every command travels under the access of the agent that asked for it
\* ("delayed old-client commands cannot borrow the next caller's access").
OwnAccess ==
  \A j \in DOMAIN tab.act :
    Reaches(tab, j) => Actor(tab, tab.act[j].client) = tab.act[j].agent

\* An agent that was told that its action is over, timed out or failed, but
\* not that it still settles, may inspect the page: the action sends nothing
\* more, and a timed-out one has nothing in flight.
AnswerIsFinal ==
  \A j \in DOMAIN tab.act :
    /\ tab.act[j].pc \in {"ok", "failed", "detached", "timed_out"}
         => ~Reaches(tab, j)
    /\ tab.act[j].pc = "timed_out" => ~InFlight(j)

\* A fence goes while its client stays only when the action that set it has
\* settled: not for the late settlement of an earlier action.
FenceHolds ==
  [][\A j \in DOMAIN tab.act :
       (tab.fence = j /\ tab'.fence # j /\ tab'.peer = tab.peer) =>
          tab.act[j].op \in {"stray", "done"} /\ tab.pending = {}]_vars
=============================================================================
