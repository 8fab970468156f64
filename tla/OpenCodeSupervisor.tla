------------------------- MODULE OpenCodeSupervisor -------------------------
(***************************************************************************)
(* The supervisor of a shared OpenCode server: leases, turns and holds on  *)
(* it, its start, adoption, idle stop, replacement after a settings change *)
(* or a member's reload, and replacement of one that missed a deadline.    *)
(*                                                                         *)
(* `sup' is the supervisor object and the processes that run its methods:  *)
(* the clients (a lease each) and the replacement tasks that the end of a  *)
(* turn or hold starts.  An operator x -> x' is one synchronous piece of a *)
(* method.  A process that awaits is at a stage; when a start or stop      *)
(* ends, everything parked on it is ready and goes on, in any order,       *)
(* before the next event of the outside world.                             *)
(***************************************************************************)
EXTENDS Integers, FiniteSets

CONSTANTS
  Clients,    \* the sessions that acquire leases
  Tasks,      \* bound: replacement tasks in flight at once
  Pids,       \* bound: processes that are told apart at once
  MaxRev,     \* bound: changes of the settings
  MaxWaits,   \* bound: calls of waitUntilCurrent, 0 or 1
  MaxFaults   \* bound: failures, crashes, missed deadlines, reloads, markers

NoPid == 0

ASSUME PidsAssumption == Pids \subseteq Nat \ {NoPid} /\ Pids # {}
ASSUME BoundsAssumption ==
  MaxRev \in Nat /\ MaxFaults \in Nat /\ MaxWaits \in {0, 1}
ASSUME ProcsAssumption == Clients \cap Tasks = {} /\ IsFiniteSet(Clients)

VARIABLES
  sup,       \* the supervisor (below)
  faults,    \* faults left
  overtaken  \* history: a listing's stop, asked during a start, began under
             \* turns or held work that came meanwhile, and some is left

vars == <<sup, faults, overtaken>>

Procs == Clients \cup Tasks

-----------------------------------------------------------------------------
(* State.                                                                  *)

\* The awaits. "stop", "join" and "own" wait for a stop, "wait" and "ewait"
\* for a start or stop whose failure they ignore, "estart" for the start the
\* process began; "marker" and "health" wait for an answer; "pending" is a
\* refused replacement, about to return.
OpWaits == {"stop", "join", "own", "wait", "ewait", "estart"}
Stages == OpWaits \cup {"rest", "marker", "health", "pending"}

\* A process in one of the methods: beginTurn goes through "begin", "again"
\* and "final". `marked' and `other' are what it read before an await; `entry'
\* is the hold of an acquired lease, `own' the hold of a turn entry; `tried':
\* the turn already recovered once; `pid' is the server of its turn or entry
\* and `since' the settings at beginTurn's second look (history).
Process ==
  [proc : {"none", "acquire", "begin", "again", "final", "recover", "idle",
           "reload"},
   at : Stages, go : {"no", "ok", "fail"}, marked : BOOLEAN, other : BOOLEAN,
   lease : BOOLEAN, entry : BOOLEAN, own : BOOLEAN, turn : BOOLEAN,
   tried : BOOLEAN, since : 0..MaxRev,
   pid : Pids \cup {NoPid}]
Resting ==
  [proc |-> "none", at |-> "rest", go |-> "no", marked |-> FALSE,
   other |-> FALSE, lease |-> FALSE, entry |-> FALSE, own |-> FALSE,
   turn |-> FALSE, tried |-> FALSE, since |-> 0, pid |-> NoPid]

\* `record' is the getter: the server of a running or stopping phase, or the
\* one a start replaces. `disk' is the record file, `has' the revision each
\* server started with. `launch' is the start in flight: the revision the
\* helper got and the pid it must not adopt.
Kinds == {"leases", "turns", "holds"}
Supervisor ==
  [use     : [Kinds -> Nat],
   phase   : {"none", "starting", "running", "stopping"},
   record  : Pids \cup {NoPid},
   timer   : BOOLEAN,
   stopAfter : BOOLEAN,
   replace : BOOLEAN,
   step    : {"none", "write", "run", "kill", "remove"},
   launch  : [rev : 0..MaxRev, marked : BOOLEAN,
              pid : Pids \cup {NoPid}],
   disk    : Pids \cup {NoPid},
   live    : SUBSET Pids,
   has     : [Pids -> 0..MaxRev],
   mark    : [pid : Pids \cup {NoPid}, after : BOOLEAN],
   count   : [pid : Pids \cup {NoPid}, n : 0..2],
   reload  : BOOLEAN,
   marker  : BOOLEAN,
   rev     : 0..MaxRev,
   waiter  : {"no", "waits", "done"},
   exit    : {"no", "asked", "done"},
   p       : [Procs -> Process]]

NoLaunch == [rev |-> 0, marked |-> FALSE, pid |-> NoPid]
NoMark == [pid |-> NoPid, after |-> FALSE]

\* An earlier office may have left a server, and a marker to replace it.
Init ==
  /\ \E left \in {{}, {CHOOSE i \in Pids : TRUE}}, marker \in BOOLEAN :
       sup = [use |-> [k \in Kinds |-> 0], phase |-> "none", record |-> NoPid,
              timer |-> FALSE, stopAfter |-> FALSE, replace |-> FALSE,
              step |-> "none", launch |-> NoLaunch,
              disk |-> IF left = {} THEN NoPid ELSE CHOOSE i \in left : TRUE,
              live |-> left, has |-> [i \in Pids |-> 0], mark |-> NoMark,
              count |-> [pid |-> NoPid, n |-> 0], reload |-> FALSE,
              marker |-> marker, rev |-> 0,
              waiter |-> IF MaxWaits = 0 THEN "done" ELSE "no", exit |-> "no",
              p |-> [q \in Procs |-> Resting]]
  /\ faults = MaxFaults
  /\ overtaken = FALSE

-----------------------------------------------------------------------------
(* The server phase.                                                       *)

InUse(x) == \E k \in Kinds : x.use[k] > 0

ReconcileIdleTimer(x) ==
  [x EXCEPT !.timer = x.phase = "running" /\ ~InUse(x)]

\* Mutant: a new phase clears the idle timer and does not arm it again.
MutSetServer(x, phase, record) ==
  [x EXCEPT !.phase = phase, !.record = record, !.timer = FALSE]

SetServer(x, phase, record) ==
  ReconcileIdleTimer([x EXCEPT !.phase = phase, !.record = record])

ChangeUse(x, kind, by) == ReconcileIdleTimer([x EXCEPT !.use[kind] = @ + by])

Alive(x) == x.record # NoPid /\ x.record \in x.live

BeginStart(x, marked) ==
  [SetServer(x, "starting", x.record) EXCEPT
     !.step = "write", !.stopAfter = FALSE,
     !.launch = [NoLaunch EXCEPT !.marked = marked]]

BeginStop(x, replace) ==
  [SetServer(x, "stopping", x.record) EXCEPT !.step = "kill",
                                             !.replace = replace]

\* A stop asked during a start runs as that start ends.
StopAfterStart(x) ==
  IF x.stopAfter THEN BeginStop([x EXCEPT !.stopAfter = FALSE], FALSE) ELSE x

Shutdown(x) ==
  CASE x.phase = "stopping" -> x
    [] x.phase = "starting" -> [x EXCEPT !.stopAfter = TRUE]
    [] OTHER -> BeginStop(x, FALSE)

\* Mutant: a failed start or stop leaves its waiters.
MutSettles(x, how) ==
  [x EXCEPT !.p = [q \in Procs |->
     IF @[q].at \in OpWaits /\ @[q].go = "no" /\ how = "ok"
       THEN [@[q] EXCEPT !.go = how] ELSE @[q]]]

\* The start or stop in flight ended: its promise settles.
Settles(x, how) ==
  [x EXCEPT !.p = [q \in Procs |->
     IF @[q].at \in OpWaits /\ @[q].go = "no" THEN [@[q] EXCEPT !.go = how]
     ELSE @[q]]]

Park(x, q, at) == [x EXCEPT !.p[q].at = at, !.p[q].go = "no"]

RecordStale(x) == x.record # NoPid /\ x.has[x.record] # x.rev

ReplacementRequested(x) == RecordStale(x) \/ x.reload

Replacing(x) == x.phase = "stopping" /\ x.replace

MarkReplaceable(x, other) ==
  /\ x.mark.pid # NoPid /\ x.mark.pid = x.record
  /\ x.mark.after \/ ~other

-----------------------------------------------------------------------------
(* Replacement (replaceServerIfRequested), as far as it runs at once.      *)

OwnHolds(x, q) == IF x.p[q].proc \in {"idle", "reload"} THEN 0 ELSE 1

\* Mutant: a running turn does not keep the server.
MutReplaces(x, q) ==
  IF Replacing(x) THEN Park(x, q, "join")
  ELSE IF x.use.holds > OwnHolds(x, q) THEN Park(x, q, "pending")
  ELSE IF x.phase \in {"starting", "stopping"} THEN Park(x, q, "wait")
  ELSE Park(BeginStop(x, TRUE), q, "own")

Replaces(x, q) ==
  IF Replacing(x) THEN Park(x, q, "join")
  ELSE IF x.use.turns > 0 \/ x.use.holds > OwnHolds(x, q)
    THEN Park(x, q, "pending")
  ELSE IF x.phase \in {"starting", "stopping"} THEN Park(x, q, "wait")
  ELSE Park(BeginStop(x, TRUE), q, "own")

\* Unrequested, it first asks for the marker file.
ReplaceServerIfRequested(x, q) ==
  IF Replacing(x) \/ ReplacementRequested(x) THEN Replaces(x, q)
  ELSE Park(x, q, "marker")

\* replaceOnceIdle and requestReload run it as a task of its own, where no
\* turn and no hold is left.
Unheld(x) == x.use.turns = 0 /\ x.use.holds = 0

FreeTasks(x) == {t \in Tasks : x.p[t].proc = "none"}

StartsTask(x, proc) ==
  LET t == CHOOSE t \in FreeTasks(x) : TRUE
  IN ReplaceServerIfRequested([x EXCEPT !.p[t].proc = proc], t)

ReplaceOnceIdle(x) == IF Unheld(x) THEN StartsTask(x, "idle") ELSE x

DropHold(x) == ReplaceOnceIdle(ChangeUse(x, "holds", -1))

\* A call of waitUntilCurrent looks again when a replacement task ended.
WakeCurrentWaiters(x) ==
  [x EXCEPT !.waiter =
     IF @ = "waits" /\ (Unheld(x) \/ ~RecordStale(x)) THEN "done" ELSE @]

TaskEnds(x, q) ==
  LET y == [x EXCEPT !.p[q] = Resting]
  IN IF x.p[q].proc = "idle" THEN WakeCurrentWaiters(y) ELSE y

-----------------------------------------------------------------------------
(* The methods of a lease, from await to await.                            *)

Rests(x, q) ==
  LET r == x.p[q]
  IN [x EXCEPT !.p[q] =
        [Resting EXCEPT !.lease = r.lease, !.entry = r.entry, !.own = r.own,
                        !.turn = r.turn, !.tried = r.tried,
                        !.pid = IF r.turn \/ r.entry THEN r.pid ELSE NoPid]]

Throws(x, q) ==
  LET r == x.p[q]
      y == Rests(x, q)
  IN CASE r.proc = "acquire" -> DropHold([y EXCEPT !.p[q].entry = FALSE,
                                                  !.p[q].pid = NoPid])
       [] r.proc \in {"begin", "again", "final"} ->
            DropHold([y EXCEPT !.p[q].own = FALSE])
       [] r.proc = "recover" -> y
       [] OTHER -> TaskEnds(x, q)

\* acquire returns the lease; its hold stays until the caller settles.
Leased(x, q) ==
  LET n == IF x.count.pid = x.record THEN x.count.n ELSE 0
  IN [ChangeUse(Rests(x, q), "leases", 1) EXCEPT
        !.p[q].lease = TRUE, !.p[q].pid = x.record,
        !.count = [pid |-> x.record, n |-> IF n < 2 THEN n + 1 ELSE 2]]

\* beginTurn: the turn counts before its hold ends.
TurnCounts(x, q) ==
  LET y == ChangeUse(Rests(x, q), "turns", 1)
  IN DropHold([y EXCEPT !.p[q].turn = TRUE, !.p[q].own = FALSE,
                        !.p[q].pid = x.record])

\* Mutant: beginTurn does not look again after its wait.
MutEnsured(x, q) ==
  CASE x.p[q].proc = "acquire" -> Leased(x, q)
    [] x.p[q].proc \in {"begin", "final"} -> TurnCounts(x, q)
    [] x.p[q].proc = "recover" ->
         Rests([x EXCEPT !.p[q].pid = x.record], q)
    [] OTHER -> TaskEnds(x, q)

\* The server is there, or was found fit for the turn.
Ensured(x, q) ==
  CASE x.p[q].proc = "acquire" -> Leased(x, q)
    [] x.p[q].proc = "begin" ->
         IF ReplacementRequested(x)
           THEN ReplaceServerIfRequested([x EXCEPT !.p[q].proc = "again",
                                                   !.p[q].since = x.rev], q)
         ELSE TurnCounts(x, q)
    [] x.p[q].proc = "final" -> TurnCounts(x, q)
    [] x.p[q].proc = "recover" ->
         Rests([x EXCEPT !.p[q].pid = x.record], q)
    [] OTHER -> TaskEnds(x, q)

\* ensureServer: join the start or stop in flight, or start.
EnsureServer(x, q, marked) ==
  LET y == [x EXCEPT !.p[q].marked = marked]
  IN IF x.phase \in {"starting", "stopping"} THEN Park(y, q, "ewait")
     ELSE Park(BeginStart(y, marked), q, "estart")

\* The start or stop it joined ended.
EnsureJoined(x, q) ==
  LET marked == x.p[q].marked
  IN IF /\ x.phase \notin {"starting", "stopping"}
        /\ Alive(x) /\ ~(marked /\ x.record = x.mark.pid)
       THEN Ensured(x, q)
     ELSE EnsureServer(x, q, marked)

\* validateServerForTurn to its health check.
ValidateServerForTurn(x, q) ==
  LET others == IF x.p[q].proc = "recover" THEN 1 ELSE 0
      other == x.use.turns > others
      marked == x.mark.pid # NoPid /\ x.mark.pid = x.record
  IN IF ~Alive(x) THEN EnsureServer(x, q, FALSE)
     ELSE IF MarkReplaceable(x, other) THEN EnsureServer(x, q, TRUE)
     ELSE IF marked /\ x.p[q].proc = "recover" THEN Throws(x, q)
     ELSE Park([x EXCEPT !.p[q].other = other, !.p[q].pid = x.record], q,
               "health")

\* replaceServerIfRequested returned.
Replaced(x, q, result) ==
  CASE x.p[q].proc = "acquire" ->
         LET marked == MarkReplaceable(x, x.use.turns > 0)
         IN IF result # "pending" \/ marked \/ ~Alive(x)
              THEN EnsureServer(x, q, marked) ELSE Leased(x, q)
    [] x.p[q].proc = "begin" ->
         IF x.phase = "stopping" THEN Park(x, q, "stop")
         ELSE ValidateServerForTurn(x, q)
    [] x.p[q].proc = "again" ->
         IF result = "replaced"
           THEN ValidateServerForTurn([x EXCEPT !.p[q].proc = "final"], q)
         ELSE TurnCounts(x, q)
    [] OTHER ->
         IF result = "replaced" /\ x.use.leases > 0 /\ x.record = NoPid
           THEN EnsureServer(x, q, FALSE) ELSE TaskEnds(x, q)

\* A process whose await ended goes on.
Resumed(x, q) ==
  LET r == x.p[q]
  IN IF r.go = "fail" /\ r.at \in {"stop", "join", "own", "estart"}
     THEN Throws(x, q)
     ELSE CASE r.at = "pending" -> Replaced(x, q, "pending")
            [] r.at = "wait" -> ReplaceServerIfRequested(x, q)
            [] r.at = "ewait" -> EnsureJoined(x, q)
            [] r.at = "stop" -> IF r.proc = "acquire"
                                  THEN ReplaceServerIfRequested(x, q)
                                ELSE ValidateServerForTurn(x, q)
            [] r.at \in {"join", "own"} -> Replaced(x, q, "replaced")
            [] r.at = "estart" -> IF x.phase = "running" THEN Ensured(x, q)
                                  ELSE EnsureJoined(x, q)

-----------------------------------------------------------------------------
(* Steps.                                                                  *)

Ready(x, q) == \/ x.p[q].at = "pending"
               \/ x.p[q].at \in OpWaits /\ x.p[q].go # "no"

\* The event loop takes the next event when no process is ready. The office
\* exits when its shutdown call returned.
Quiet == sup.exit # "done" /\ \A q \in Procs : ~Ready(sup, q)

\* A stop deferred by a start does not look again whether the server is used.
Overtakes(x) == sup.stopAfter /\ sup.exit = "no" /\ x.phase = "stopping"

Becomes(x) ==
  sup' = x /\ overtaken' = (~Unheld(x) /\ (overtaken \/ Overtakes(x)))
Event == Quiet /\ UNCHANGED faults
Fault == Quiet /\ faults > 0 /\ faults' = faults - 1

\* The last hold or turn to end can start a task, and so can a settings
\* change where none is left.
Room == Unheld(sup) => FreeTasks(sup) # {}

Resume(q) ==
  /\ sup.exit # "done" /\ Ready(sup, q)
  /\ Becomes(Resumed(sup, q)) /\ UNCHANGED faults

MarkerRead(q) ==
  /\ Event /\ sup.p[q].at = "marker"
  /\ Becomes(IF sup.marker THEN Replaces(sup, q)
             ELSE Replaced(sup, q, "none"))

\* The server that was asked is reached, is dead, or does not listen (a
\* fault).
HealthAnswers(q, reached) ==
  /\ sup.p[q].at = "health"
  /\ IF reached \/ sup.p[q].pid \notin sup.live THEN Event ELSE Fault
  /\ reached => sup.p[q].pid \in sup.live
  /\ Becomes(IF reached THEN Ensured(sup, q)
             ELSE IF sup.p[q].other THEN Throws(sup, q)
             ELSE EnsureServer(sup, q, FALSE))

(* Clients.                                                                *)

At(c) == sup.p[c]
Idle(c) == At(c).proc = "none"
Running == sup.exit = "no"

\* A session starts, perhaps with newer settings
\* (openCodeSupervisorForEnvironment, acquire).
Acquire(c, change) ==
  /\ Event /\ Running /\ Room /\ Idle(c) /\ ~At(c).lease /\ ~At(c).turn
  /\ sup.rev + change <= MaxRev
  /\ LET x == ChangeUse([sup EXCEPT !.rev = @ + change,
                                    !.p[c].proc = "acquire",
                                    !.p[c].entry = TRUE], "holds", 1)
     IN Becomes(IF x.phase = "stopping" THEN Park(x, c, "stop")
                ELSE ReplaceServerIfRequested(x, c))

Settle(c) ==
  /\ Event /\ Idle(c) /\ At(c).lease /\ At(c).entry
  /\ Becomes(DropHold([sup EXCEPT !.p[c].entry = FALSE, !.p[c].pid = NoPid]))

EndedTurn(x, c) ==
  ReplaceOnceIdle(ChangeUse(
    [x EXCEPT !.p[c].turn = FALSE, !.p[c].tried = FALSE,
              !.p[c].pid = IF x.p[c].proc = "none" THEN NoPid ELSE @],
    "turns", -1))

Released(x, c) ==
  LET y == [x EXCEPT !.p[c].lease = FALSE, !.p[c].entry = FALSE,
                     !.p[c].pid = IF x.p[c].proc = "none" THEN NoPid ELSE @]
  IN ChangeUse(IF x.p[c].entry THEN DropHold(y) ELSE y, "leases", -1)

\* The transport closes, or a listing ends. During beginTurn the turn still
\* counts later, without its lease.
Release(c) ==
  /\ Event /\ At(c).lease
  /\ Becomes(Released(IF At(c).turn THEN EndedTurn(sup, c) ELSE sup, c))

\* A listing ends: it stops a server that only its lease ever used, when
\* nothing is on it now.
ReleaseAndStopIfStarted(c) ==
  /\ Event /\ Idle(c) /\ At(c).lease /\ At(c).entry
  /\ LET x == Released(sup, c)
         pid == At(c).pid
     IN Becomes(IF /\ pid # NoPid /\ pid = x.record
                   /\ x.count = [pid |-> pid, n |-> 1] /\ ~InUse(x)
                  THEN Shutdown(x) ELSE x)

BeginTurn(c) ==
  /\ Event /\ Running /\ Room /\ Idle(c) /\ At(c).lease /\ ~At(c).turn
  /\ LET x == IF At(c).entry THEN sup ELSE ChangeUse(sup, "holds", 1)
     IN Becomes(ReplaceServerIfRequested(
                  [x EXCEPT !.p[c].proc = "begin", !.p[c].entry = FALSE,
                            !.p[c].own = TRUE], c))

RecoverBeforePrompt(c) ==
  /\ Event /\ Idle(c) /\ At(c).lease /\ At(c).turn /\ ~At(c).tried
  /\ Becomes(ValidateServerForTurn([sup EXCEPT !.p[c].proc = "recover",
                                               !.p[c].tried = TRUE], c))

EndTurn(c) ==
  /\ Event /\ Idle(c) /\ At(c).turn
  /\ Becomes(EndedTurn(sup, c))

\* The turn missed a deadline on the server it runs on. It fails, or, before
\* the prompt, may go on to recoverBeforePrompt. On a closed transport the
\* failure is silent and the turn stays.
MarkUnresponsive(c, after, ends) ==
  /\ Fault /\ Idle(c) /\ At(c).turn
  /\ sup.record # NoPid /\ sup.record = At(c).pid
  /\ ends => At(c).lease
  /\ after /\ At(c).lease => ends
  /\ LET x == [sup EXCEPT !.mark =
                 [pid |-> sup.record,
                  after |-> after \/ (@.pid = sup.record /\ @.after)]]
     IN Becomes(IF ends THEN EndedTurn(x, c) ELSE x)

(* The office.                                                             *)

UpdateSettings ==
  /\ Event /\ Running /\ Room /\ sup.rev < MaxRev
  /\ Becomes(ReplaceOnceIdle([sup EXCEPT !.rev = @ + 1]))

WaitUntilCurrent ==
  /\ Event /\ Running /\ Room /\ sup.waiter = "no" /\ RecordStale(sup)
  /\ Becomes(ReplaceOnceIdle([sup EXCEPT !.waiter = "waits"]))

RequestReload ==
  /\ Fault /\ Running /\ Room
  /\ LET x == [sup EXCEPT !.reload = TRUE]
     IN Becomes(IF Unheld(x) THEN StartsTask(x, "reload") ELSE x)

\* shutdown before the office process exits.
OfficeStops ==
  /\ Event /\ Running
  /\ Becomes([Shutdown(sup) EXCEPT !.exit = "asked"])

IdleTimerFires ==
  /\ Event /\ sup.timer
  /\ Becomes(Shutdown(sup))

(* A start (startServer and its helper) and a stop.                        *)

\* The config is written; the helper gets the revisions of this moment.
StartRuns ==
  /\ Event /\ sup.step = "write"
  /\ Becomes([sup EXCEPT !.step = "run", !.launch.rev = sup.rev,
                         !.launch.pid = IF sup.launch.marked THEN sup.mark.pid
                                        ELSE NoPid])

Adoptable(x) ==
  /\ x.disk \in x.live /\ x.has[x.disk] = x.launch.rev
  /\ x.disk # x.launch.pid

UnusedPids(x) ==
  Pids \ (x.live \cup {x.record, x.disk, x.mark.pid, x.count.pid}
                 \cup {x.p[c].pid : c \in Clients})

\* Mutant: the helper does not write the record of the server.
MutStarted(x, record) ==
  Settles(StopAfterStart([SetServer(x, "running", record) EXCEPT
            !.step = "none", !.launch = NoLaunch,
            !.mark = IF @.pid = record THEN @ ELSE NoMark]), "ok")

Started(x, record) ==
  Settles(StopAfterStart([SetServer(x, "running", record) EXCEPT
            !.step = "none", !.launch = NoLaunch, !.disk = record,
            !.mark = IF @.pid = record THEN @ ELSE NoMark]), "ok")

\* The helper adopts the server of the record, or stops it and starts one.
\* `reached': that server answered the health check.
StartEnds(reached) ==
  /\ sup.step = "run"
  /\ IF reached \/ ~Adoptable(sup) THEN Event ELSE Fault
  /\ ~reached => Adoptable(sup)
  /\ IF reached /\ Adoptable(sup) THEN Becomes(Started(sup, sup.disk))
     ELSE /\ UnusedPids(sup) # {}
          /\ LET new == CHOOSE i \in UnusedPids(sup) : TRUE
             IN Becomes(Started([sup EXCEPT
                  !.live = (@ \ {sup.disk}) \cup {new},
                  !.has[new] = sup.launch.rev], new))

\* As before the start; the helper may have stopped that server.
StartFails ==
  /\ Fault /\ sup.step \in {"write", "run"}
  /\ \E dead \in {{}, {sup.disk}} :
       /\ dead # {} => sup.step = "run" /\ sup.disk \in sup.live
       /\ Becomes(Settles(StopAfterStart(
                   [SetServer(sup, IF sup.record = NoPid THEN "none"
                                   ELSE "running", sup.record) EXCEPT
                      !.step = "none", !.launch = NoLaunch,
                      !.live = @ \ dead]), "fail"))

\* The stop's promise settles; the shutdown call of the office returns.
Stopped(x, how) ==
  Settles([x EXCEPT !.step = "none", !.replace = FALSE,
                    !.exit = IF @ = "asked" THEN "done" ELSE @], how)

\* The helper stops the server of the record; one that exits with an error
\* (a fault) is taken as done. A replacement has then met the reload
\* requests, and removes the marker.
StopKills(killed) ==
  /\ sup.step = "kill"
  /\ IF killed THEN Event ELSE Fault
  /\ LET x == IF killed THEN [sup EXCEPT !.live = @ \ {sup.disk},
                                         !.disk = NoPid] ELSE sup
     IN Becomes(IF sup.replace
                  THEN [x EXCEPT !.reload = FALSE, !.step = "remove"]
                ELSE Stopped(SetServer(x, "none", NoPid), "ok"))

StopRemoves(ok) ==
  /\ sup.step = "remove"
  /\ IF ok THEN Event ELSE Fault
  /\ Becomes(Stopped([SetServer(sup, "none", NoPid) EXCEPT
                        !.marker = IF ok THEN FALSE ELSE @],
                     IF ok THEN "ok" ELSE "fail"))

StopFails ==
  /\ Fault /\ sup.step = "kill"
  /\ Becomes(Stopped(SetServer(sup, IF sup.record = NoPid THEN "none"
                                    ELSE "running", sup.record), "fail"))

Crash ==
  /\ Fault /\ \E i \in sup.live : Becomes([sup EXCEPT !.live = @ \ {i}])

-----------------------------------------------------------------------------
Returns ==
  \E q \in Procs : Resume(q) \/ MarkerRead(q) \/ HealthAnswers(q, TRUE)
                    \/ HealthAnswers(q, FALSE)

Helper == \/ StartRuns
          \/ \E ok \in BOOLEAN : StopKills(ok) \/ StopRemoves(ok) \/ StartEnds(ok)

Calls ==
  \E c \in Clients :
    \/ \E change \in {0, 1} : Acquire(c, change)
    \/ Settle(c) \/ Release(c) \/ ReleaseAndStopIfStarted(c) \/ BeginTurn(c)
    \/ RecoverBeforePrompt(c) \/ EndTurn(c)
    \/ \E after, ends \in BOOLEAN : MarkUnresponsive(c, after, ends)

Next ==
  \/ Returns \/ Helper \/ Calls
  \/ UpdateSettings \/ WaitUntilCurrent \/ RequestReload \/ OfficeStops
  \/ IdleTimerFires \/ StartFails \/ StopFails \/ Crash

Spec == Init /\ [][Next]_vars

\* What a process does next, at most one of these: the event loop runs what is
\* ready and delivers every answer, however often other events come first; a
\* caller settles its acquire and a turn ends, on a transport that is not
\* closed.
Moves(q) ==
  \/ Resume(q) \/ MarkerRead(q) \/ HealthAnswers(q, TRUE)
  \/ HealthAnswers(q, FALSE)
  \/ q \in Clients /\ (Settle(q) \/ (At(q).lease /\ EndTurn(q)))

Fairness ==
  /\ \A q \in Procs : SF_vars(Moves(q))
  /\ SF_vars(Helper) /\ WF_vars(IdleTimerFires)

FairSpec == Spec /\ Fairness

-----------------------------------------------------------------------------
(* Properties.                                                             *)

\* The supervisor keeps its type; counts never go below zero.
TypeOK ==
  /\ sup \in Supervisor /\ faults \in 0..MaxFaults /\ overtaken \in BOOLEAN

Uses(c, i) == sup.p[c].pid = i /\ (sup.p[c].turn \/ sup.p[c].entry)
Kills(i) == i \in sup.live \ sup'.live

\* No stop - of an idle server, after a listing or of a replaced one - takes
\* down a server with a turn or held work on it; only a start does, whose
\* helper finds other revisions or the marked server. The exception is a
\* listing's stop that a start deferred and that began under sessions that came
\* during the start (overtaken): they lose the server.
StopsSpareUse ==
  [][\A i \in Pids, c \in Clients :
       (Kills(i) /\ Uses(c, i)) =>
          \/ faults' < faults \/ sup.exit # "no" \/ overtaken
          \/ /\ sup.step = "run"
             /\ i = sup.launch.pid \/ sup.has[i] # sup.launch.rev]_vars

\* A turn never counts without a server or on one that a stop is taking down,
\* unless the office itself stops or a deferred stop began under its use
\* (overtaken); and it enters a server with older settings only where another
\* turn or hold refused the replacement a moment before, or when the settings
\* changed again after its second look.
FreshTurn ==
  [][\A c \in Clients :
       (sup'.p[c].turn /\ ~sup.p[c].turn) =>
          /\ \/ overtaken \/ sup.exit # "no"
             \/ sup'.record # NoPid /\ sup'.phase # "stopping"
          /\ \/ ~RecordStale(sup')
             \/ sup.p[c].proc = "again" /\ sup.p[c].at = "pending"
             \/ /\ sup.p[c].proc \in {"again", "final"}
                /\ sup.has[sup'.record] >= sup.p[c].since]_vars

\* No server outlives the office's shutdown, one that a start brings up
\* meanwhile included (stopAfter). One that its helper failed to stop, in the
\* stop that the shutdown joins, is in the record for the next office.
ShutdownLeavesNothing ==
  [][(sup'.exit = "done" /\ sup.exit # "done") =>
       \/ sup'.live = {}
       \/ /\ faults' < faults \/ sup.step = "remove"
          /\ sup'.live = {sup'.disk}]_vars

\* Every call of a lease and every replacement task returns, and so does
\* waitUntilCurrent when the turns on the server end. A turn whose transport
\* closed during beginTurn may never end.
CallsReturn ==
  /\ \A q \in Procs : sup.p[q].at # "rest" ~>
                        sup.p[q].at = "rest" \/ sup.exit = "done"
  /\ sup.waiter = "waits" ~>
       \/ sup.waiter = "done" \/ sup.exit = "done"
       \/ \E c \in Clients : sup.p[c].turn /\ ~sup.p[c].lease

\* A server nobody uses stops: on every path to a running server without
\* users the idle timer is armed, and no failed or cancelled acquire, turn
\* entry or release leaves a count behind that keeps the server.
IdleServerStops ==
  LET Used == \E c \in Clients : \/ sup.p[c].lease \/ sup.p[c].turn
                                 \/ sup.p[c].entry \/ sup.p[c].own
  IN sup.record # NoPid /\ ~Used ~>
       sup.record = NoPid \/ Used \/ sup.exit = "done"
=============================================================================
