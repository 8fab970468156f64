---------------------- MODULE OpenCodeSupervisorProofs ----------------------
(***************************************************************************)
(* Proofs about OpenCodeSupervisor, for any sessions, tasks, processes,    *)
(* settings and faults: the types, with counts that never go below zero;   *)
(* the office's shutdown leaves no server (ShutdownLeavesNothing); no stop *)
(* takes down a server in use (StopsSpareUse); a turn enters a server that *)
(* lives and has the settings it saw (FreshTurn).                          *)
(*                                                                         *)
(* The last two say by name what they except: `overtaken', a stop that a   *)
(* listing asked for during a start and that began under the use of others.*)
(*                                                                         *)
(* Sound, the inductive invariant, relates the counts to the sessions      *)
(* (Counted), the phase to its timer, steps and process (Server), and each *)
(* process to the await it is at (Fits).  A method runs from one await to  *)
(* the next in pieces, between which the process that runs need not fit    *)
(* and a count may be off: Sound(x, off, e, Q) exempts the processes of Q  *)
(* and says by how much.  `e' excuses what an overtaken stop does to the   *)
(* sessions under it: the invariant holds with e = overtaken, and without  *)
(* any excuse again as soon as no turn and no hold is left (Unexcused).    *)
(***************************************************************************)
EXTENDS OpenCodeSupervisor, TLAPS, FiniteSetTheorems

-----------------------------------------------------------------------------
(* The invariant.                                                          *)

\* The sessions that a count of the supervisor counts.
Counts(s, k) ==
  \/ k = "leases" /\ s.lease
  \/ k = "turns" /\ s.turn
  \/ k = "holds" /\ (s.entry \/ s.own)
Users(x, k) == {c \in Clients : Counts(x.p[c], k)}

\* A count is the number of its sessions, and `off' more where a handler has
\* changed one of the two only.
Counted(x, off) ==
  \A k \in Kinds : /\ off[k] \in Nat
                   /\ x.use[k] = Cardinality(Users(x, k)) + off[k]

\* A stop that no session may be using the server of. `e' excuses one that
\* began under their use.
Stopping(x, e) == x.phase = "stopping" /\ x.exit = "no" /\ ~e

Server(x) ==
  /\ x.phase = "starting" <=> x.step \in {"write", "run"}
  /\ x.phase = "stopping" <=> x.step \in {"kill", "remove"}
  /\ x.phase = "running" => x.record # NoPid
  /\ x.live \subseteq {x.disk}
  /\ x.timer => x.phase = "running" /\ ~InUse(x)
  /\ ~Unheld(x) => FreeTasks(x) # {}

Flags(s) ==
  CASE s.proc = "none" -> /\ ~s.own /\ (s.entry => s.lease /\ ~s.turn)
                          /\ ~s.turn /\ ~s.entry => s.pid = NoPid
    [] s.proc = "acquire" ->
         s.entry /\ ~s.own /\ ~s.lease /\ ~s.turn /\ s.pid = NoPid
    [] s.proc \in {"begin", "again", "final"} -> s.own /\ ~s.entry /\ ~s.turn
    [] s.proc = "recover" -> ~s.own /\ ~s.entry
    [] OTHER -> FALSE

Places(proc) ==
  CASE proc = "none" -> {"rest"}
    [] proc = "acquire" -> OpWaits \cup {"marker", "pending"}
    [] proc = "begin" -> OpWaits \cup {"marker", "pending", "health"}
    [] proc = "again" -> {"join", "own", "wait", "marker", "pending"}
    [] proc = "final" -> {"ewait", "estart"}
    [] proc = "recover" -> {"ewait", "estart", "health"}
    [] OTHER -> {}

\* A turn entry here may go on to use the server there is.
Keeps(proc, at) ==
  \/ proc = "begin" /\ at = "health"
  \/ proc = "again" /\ at \in {"marker", "pending", "wait"}

Newer(x, since) ==
  /\ x.record # NoPid => x.has[x.record] >= since
  /\ x.step = "run" => x.launch.rev >= since

\* A client between two awaits.
Acts(x, s, e) ==
  /\ Flags(s) /\ s.since <= x.rev
  /\ Stopping(x, e) => ~s.turn /\ (s.entry => s.pid = NoPid)

\* What lets it wait at `at'.
Stays(x, s, at, e) ==
  /\ at \in Places(s.proc)
  /\ Stopping(x, e) => /\ s.proc = "acquire" => at \notin {"marker", "pending"}
                       /\ ~Keeps(s.proc, at)
  /\ Keeps(s.proc, at) => x.record # NoPid \/ x.exit # "no" \/ e
  /\ s.proc = "final" \/ (s.proc = "again" /\ at = "marker") => Newer(x, s.since)

Awaits(x, s, e) ==
  /\ s.at \in OpWaits /\ s.go # "no" => x.step # "run"
  /\ s.at \in OpWaits /\ s.go # "no" /\ (s.entry \/ s.own) => ~Stopping(x, e)
  /\ s.at \in {"own", "join"} /\ s.go = "no" => x.phase = "stopping"
  /\ s.at \in {"own", "join"} /\ s.go = "ok" => x.record = NoPid

TaskFits(s) ==
  s.proc \in {"none", "idle", "reload"} /\ ~s.entry /\ ~s.own /\ ~s.turn

\* A task that runs.
Busy(s) == TaskFits(s) /\ s.proc # "none"

Fits(x, r, e) ==
  /\ Awaits(x, x.p[r], e)
  /\ r \in Clients => Acts(x, x.p[r], e) /\ Stays(x, x.p[r], x.p[r].at, e)
  /\ r \in Tasks => TaskFits(x.p[r]) /\ (Busy(x.p[r]) \/ x.p[r].at = "rest")

\* The invariant for all processes but those of Q, which run.
Sound(x, off, e, Q) ==
  /\ x \in Supervisor /\ Server(x) /\ Counted(x, off)
  /\ \A r \in Procs \ Q : Fits(x, r, e)

NoOff == [k \in Kinds |-> 0]
Inv(e) == Sound(sup, NoOff, e, {}) /\ faults \in 0..MaxFaults

-----------------------------------------------------------------------------
(* The pieces.                                                             *)

\* What no piece of a method changes.
Steady(x, y) ==
  /\ y.live = x.live /\ y.disk = x.disk /\ y.exit = x.exit /\ y.rev = x.rev
  /\ y.has = x.has /\ y.record = x.record

\* The server is left alone.
Spares(x, y) ==
  /\ Steady(x, y)
  /\ y.phase = x.phase /\ y.step = x.step /\ y.stopAfter = x.stopAfter
  /\ y.replace = x.replace /\ y.launch = x.launch /\ y.mark = x.mark
  /\ y.reload = x.reload /\ y.marker = x.marker

\* Only process q is not where it was.
Alone(x, y, q) ==
  /\ Spares(x, y) /\ y.use = x.use /\ y.timer = x.timer
  /\ \A r \in Procs : r # q => y.p[r] = x.p[r]

\* It waits at `at' now.
Parked(x, y, q, at) ==
  Alone(x, y, q) /\ y.p[q] = [x.p[q] EXCEPT !.at = at, !.go = "no"]

\* A new phase.
Phased(x, y, phase, record) ==
  /\ y.phase = phase /\ y.record = record
  /\ y.timer => phase = "running" /\ ~InUse(x)
  /\ y.live = x.live /\ y.disk = x.disk /\ y.exit = x.exit /\ y.rev = x.rev
  /\ y.has = x.has /\ y.use = x.use /\ y.p = x.p
  /\ y.step = x.step /\ y.stopAfter = x.stopAfter /\ y.replace = x.replace
  /\ y.launch = x.launch /\ y.mark = x.mark
  /\ y.reload = x.reload /\ y.marker = x.marker

\* A start or stop begins.
Begun(x, y) ==
  /\ Steady(x, y) /\ y.use = x.use /\ y.p = x.p /\ ~y.timer
  /\ y.mark = x.mark /\ y.reload = x.reload /\ y.marker = x.marker

LEMMA SetServerIs ==
  ASSUME NEW x \in Supervisor,
         NEW phase \in {"none", "starting", "running", "stopping"},
         NEW record \in Pids \cup {NoPid}
  PROVE  /\ SetServer(x, phase, record) \in Supervisor
         /\ Phased(x, SetServer(x, phase, record), phase, record)
<1> DEFINE z == [x EXCEPT !.phase = phase, !.record = record]
<1>1. z.phase = phase /\ z.use = x.use
  BY DEF Supervisor
<1>2. InUse(z) <=> InUse(x)
  BY <1>1 DEF InUse
<1>3. SetServer(x, phase, record) = [z EXCEPT !.timer = z.phase = "running" /\ ~InUse(z)]
  BY DEF SetServer, ReconcileIdleTimer
<1>4. SetServer(x, phase, record)
           = [x EXCEPT !.phase = phase, !.record = record,
                       !.timer = phase = "running" /\ ~InUse(x)]
  BY <1>1, <1>2, <1>3 DEF Supervisor
<1> QED BY ZenonT(40), <1>4 DEF Supervisor, Phased

LEMMA BeginStopIs ==
  ASSUME NEW x \in Supervisor, NEW replace \in BOOLEAN
  PROVE  LET y == BeginStop(x, replace)
         IN /\ y \in Supervisor /\ Begun(x, y)
            /\ y.phase = "stopping" /\ y.step = "kill" /\ y.replace = replace
            /\ y.stopAfter = x.stopAfter /\ y.launch = x.launch
<1>1. x.record \in Pids \cup {NoPid}
  BY DEF Supervisor
<1>2. PICK z \in Supervisor : /\ z = SetServer(x, "stopping", x.record)
                              /\ Phased(x, z, "stopping", x.record)
  BY <1>1, SetServerIs
<1>3. BeginStop(x, replace) = [z EXCEPT !.step = "kill", !.replace = replace]
  BY <1>2 DEF BeginStop
<1>4. BeginStop(x, replace) \in Supervisor
  BY ZenonT(40), <1>3 DEF Supervisor
<1> QED BY <1>2, <1>3, <1>4 DEF Supervisor, Phased, Begun, Steady

LEMMA BeginStartIs ==
  ASSUME NEW x \in Supervisor, NEW marked \in BOOLEAN
  PROVE  LET y == BeginStart(x, marked)
         IN /\ y \in Supervisor /\ Begun(x, y)
            /\ y.phase = "starting" /\ y.step = "write" /\ y.stopAfter = FALSE
<1> DEFINE l == [NoLaunch EXCEPT !.marked = marked]
<1>1. x.record \in Pids \cup {NoPid}
  BY DEF Supervisor
<1>2. PICK z \in Supervisor : /\ z = SetServer(x, "starting", x.record)
                              /\ Phased(x, z, "starting", x.record)
  BY <1>1, SetServerIs
<1>3. BeginStart(x, marked) = [z EXCEPT !.step = "write", !.stopAfter = FALSE, !.launch = l]
  BY <1>2 DEF BeginStart
<1>4. l \in [rev : 0..MaxRev, marked : BOOLEAN, pid : Pids \cup {NoPid}]
  BY BoundsAssumption DEF NoLaunch
<1> HIDE DEF l
<1>5. BeginStart(x, marked) \in Supervisor
  BY ZenonT(40), <1>3, <1>4 DEF Supervisor
<1> QED BY <1>2, <1>3, <1>5 DEF Supervisor, Phased, Begun, Steady

LEMMA ChangeUseIs ==
  ASSUME NEW x \in Supervisor, NEW k \in Kinds, NEW by \in Int,
         x.use[k] + by \in Nat
  PROVE  LET y == ChangeUse(x, k, by)
         IN /\ y \in Supervisor /\ Spares(x, y) /\ y.p = x.p
            /\ y.use = [x.use EXCEPT ![k] = @ + by]
            /\ y.timer => y.phase = "running" /\ ~InUse(y)
  BY ZenonT(40) DEF ChangeUse, ReconcileIdleTimer, Supervisor, Steady, Spares, InUse

LEMMA ParkIs ==
  ASSUME NEW x \in Supervisor, NEW q \in Procs, NEW at \in Stages
  PROVE  Park(x, q, at) \in Supervisor /\ Parked(x, Park(x, q, at), q, at)
<1> DEFINE p == [x.p EXCEPT ![q].at = at, ![q].go = "no"]
<1>1. Park(x, q, at) = [x EXCEPT !.p = p]
  BY DEF Park, Supervisor
<1>2. p \in [Procs -> Process]
  BY SMTT(30) DEF Supervisor, Process
<1>3. p[q] = [x.p[q] EXCEPT !.at = at, !.go = "no"] /\ \A r \in Procs : r # q => p[r] = x.p[r]
  BY DEF Supervisor
<1> HIDE DEF p
<1>4. [x EXCEPT !.p = p] \in Supervisor
  BY <1>2 DEF Supervisor
<1>5. Spares(x, [x EXCEPT !.p = p])
  BY DEF Supervisor, Spares, Steady
<1>6. LET y == [x EXCEPT !.p = p] IN y.use = x.use /\ y.timer = x.timer /\ y.p = p
  BY DEF Supervisor
<1> QED BY <1>1, <1>3, <1>4, <1>5, <1>6 DEF Alone, Parked

-----------------------------------------------------------------------------
(* What the pieces keep.                                                   *)

LEMMA ProcessOf ==
  ASSUME NEW x \in Supervisor, NEW q \in Procs
  PROVE  x.p[q] \in Process
BY DEF Supervisor

\* A process fits as long as neither it nor the server changes.
LEMMA FitsKept ==
  ASSUME NEW x \in Supervisor, NEW y \in Supervisor, NEW r \in Procs, NEW e \in BOOLEAN,
         Fits(x, r, e), Spares(x, y), y.p[r] = x.p[r]
  PROVE  Fits(y, r, e)
<1>1. Stopping(y, e) <=> Stopping(x, e)
  BY DEF Spares, Steady, Stopping
<1>2. Newer(y, x.p[r].since) <=> Newer(x, x.p[r].since)
  BY DEF Spares, Steady, Newer
<1>3. /\ y.phase = x.phase /\ y.step = x.step /\ y.record = x.record
      /\ y.rev = x.rev /\ y.exit = x.exit
  BY DEF Spares, Steady
<1>4. Awaits(y, y.p[r], e)
  BY <1>1, <1>3 DEF Fits, Awaits
<1>5. ASSUME r \in Clients
      PROVE  Acts(y, y.p[r], e) /\ Stays(y, y.p[r], y.p[r].at, e)
  BY <1>1, <1>2, <1>3, <1>5 DEF Fits, Acts, Stays
<1> QED BY <1>4, <1>5 DEF Fits

\* A stop begins, of a server this process does not use.
LEMMA FitsStop ==
  ASSUME NEW x \in Supervisor, NEW y \in Supervisor, NEW r \in Procs, NEW e \in BOOLEAN,
         Fits(x, r, e), Begun(x, y), y.phase = "stopping", y.step = "kill",
         LET s == x.p[r]
         IN e \/ x.exit # "no" \/ (~s.turn /\ ~s.entry /\ ~s.own)
  PROVE  Fits(y, r, e)
<1> DEFINE s == x.p[r]
<1>1. /\ y.record = x.record /\ y.rev = x.rev /\ y.exit = x.exit /\ y.has = x.has
      /\ y.p[r] = s
  BY DEF Begun, Steady
<1>2. Stopping(y, e) => ~s.turn /\ ~s.entry /\ ~s.own
  BY <1>1 DEF Stopping
<1>3. \A n : Newer(x, n) => Newer(y, n)
  BY <1>1 DEF Newer
<1> HIDE DEF s
<1>4. Awaits(x, s, e)
  BY DEF Fits, s
<1>5. Awaits(y, s, e)
  BY <1>1, <1>2, <1>4 DEF Awaits
<1>6. ASSUME r \in Clients
      PROVE  Acts(y, s, e) /\ Stays(y, s, s.at, e)
  <2>1. Acts(x, s, e) /\ Stays(x, s, s.at, e)
    BY <1>6 DEF Fits, s
  <2>2. Acts(y, s, e)
    BY <1>1, <1>2, <2>1 DEF Acts
  <2>3. ~s.own /\ ~s.entry => s.proc \in {"none", "recover"}
    BY <2>1 DEF Acts, Flags
  <2>4. Stays(y, s, s.at, e)
    BY <1>1, <1>2, <1>3, <2>1, <2>3 DEF Stays, Keeps
  <2> QED BY <2>2, <2>4
<1> QED BY <1>1, <1>5, <1>6 DEF Fits, s

\* A start begins where no stop is in flight.
LEMMA FitsStart ==
  ASSUME NEW x \in Supervisor, NEW y \in Supervisor, NEW r \in Procs, NEW e \in BOOLEAN,
         Fits(x, r, e), Begun(x, y), y.phase = "starting", y.step = "write",
         x.phase # "stopping"
  PROVE  Fits(y, r, e)
<1> DEFINE s == x.p[r]
<1>1. /\ y.record = x.record /\ y.rev = x.rev /\ y.exit = x.exit /\ y.has = x.has
      /\ y.p[r] = s
  BY DEF Begun, Steady
<1>2. ~Stopping(y, e) /\ ~Stopping(x, e)
  BY DEF Stopping
<1>3. \A n : Newer(x, n) => Newer(y, n)
  BY <1>1 DEF Newer
<1> HIDE DEF s
<1>4. Awaits(x, s, e)
  BY DEF Fits, s
<1>5. Awaits(y, s, e)
  BY <1>1, <1>2, <1>4 DEF Awaits
<1>6. ASSUME r \in Clients
      PROVE  Acts(y, s, e) /\ Stays(y, s, s.at, e)
  <2>1. Acts(x, s, e) /\ Stays(x, s, s.at, e)
    BY <1>6 DEF Fits, s
  <2> QED BY <1>1, <1>2, <1>3, <2>1 DEF Acts, Stays
<1> QED BY <1>1, <1>5, <1>6 DEF Fits, s

\* A count depends on the sessions' flags only.
LEMMA CountKept ==
  ASSUME NEW x \in Supervisor, NEW y \in Supervisor, NEW off,
         Counted(x, off), y.use = x.use,
         \A c \in Clients, k \in Kinds : Counts(y.p[c], k) <=> Counts(x.p[c], k)
  PROVE  Counted(y, off)
<1>1. ASSUME NEW k \in Kinds PROVE Users(y, k) = Users(x, k)
  BY DEF Users
<1> QED BY <1>1 DEF Counted

\* A session that a handler moves from one count to another.
LEMMA Recount ==
  ASSUME NEW x \in Supervisor, NEW y \in Supervisor, NEW off, NEW new, NEW q \in Clients,
         Counted(x, off), y.use = x.use, \A r \in Clients : r # q => y.p[r] = x.p[r],
         \A k \in Kinds :
           /\ new[k] \in Nat
           /\ new[k] = off[k] + (IF Counts(x.p[q], k) THEN 1 ELSE 0)
                              - (IF Counts(y.p[q], k) THEN 1 ELSE 0)
  PROVE  Counted(y, new)
<1> SUFFICES ASSUME NEW k \in Kinds
             PROVE  y.use[k] = Cardinality(Users(y, k)) + new[k]
  BY DEF Counted
<1> DEFINE A == Users(x, k) \ {q}
<1>1. IsFiniteSet(A) /\ q \notin A
  BY ProcsAssumption, FS_Subset DEF Users
<1>2. Cardinality(A) \in Nat /\ Cardinality(A \cup {q}) = Cardinality(A) + 1
  BY <1>1, FS_CardinalityType, FS_AddElement
<1>3. Users(x, k) = IF Counts(x.p[q], k) THEN A \cup {q} ELSE A
  BY DEF Users
<1>4. Users(y, k) = IF Counts(y.p[q], k) THEN A \cup {q} ELSE A
  BY DEF Users
<1>5. x.use[k] = Cardinality(Users(x, k)) + off[k] /\ off[k] \in Nat
  BY DEF Counted
<1> HIDE DEF A
<1>6. Cardinality(Users(x, k)) = Cardinality(A) + (IF Counts(x.p[q], k) THEN 1 ELSE 0)
  BY <1>2, <1>3
<1>7. Cardinality(Users(y, k)) = Cardinality(A) + (IF Counts(y.p[q], k) THEN 1 ELSE 0)
  BY <1>2, <1>4
<1> QED BY <1>2, <1>5, <1>6, <1>7

\* Who is counted where.
LEMMA CountFacts ==
  ASSUME NEW x \in Supervisor, NEW off, Counted(x, off), NEW k \in Kinds
  PROVE  /\ Cardinality(Users(x, k)) \in Nat /\ off[k] \in Nat
         /\ x.use[k] = Cardinality(Users(x, k)) + off[k]
         /\ x.use[k] = 0 => \A c \in Clients : ~Counts(x.p[c], k)
         /\ \A q \in Clients : Counts(x.p[q], k) =>
              /\ x.use[k] >= 1 + off[k]
              /\ x.use[k] <= 1 => \A c \in Clients : Counts(x.p[c], k) => c = q
<1> DEFINE U == Users(x, k)
<1>1. IsFiniteSet(U)
  BY ProcsAssumption, FS_Subset DEF Users
<1>2. Cardinality(U) \in Nat
  BY <1>1, FS_CardinalityType
<1>3. off[k] \in Nat /\ x.use[k] = Cardinality(U) + off[k]
  BY DEF Counted
<1>4. \A c \in Clients : Counts(x.p[c], k) <=> c \in U
  BY DEF Users
<1>5. Cardinality(U) = 0 => U = {}
  BY <1>1, FS_EmptySet
<1>6. ASSUME NEW q \in U
      PROVE  /\ Cardinality(U) >= 1
             /\ Cardinality(U) <= 1 => U = {q}
  <2>1. IsFiniteSet(U \ {q}) /\ Cardinality(U \ {q}) = Cardinality(U) - 1
    BY <1>1, <1>6, FS_RemoveElement
  <2>2. Cardinality(U \ {q}) \in Nat /\ (Cardinality(U \ {q}) = 0 => U \ {q} = {})
    BY <2>1, FS_CardinalityType, FS_EmptySet
  <2> QED BY <1>2, <2>1, <2>2
<1> HIDE DEF U
<1> QED BY <1>2, <1>3, <1>4, <1>5, <1>6 DEF U

LEMMA ServerKept ==
  ASSUME NEW x \in Supervisor, NEW y \in Supervisor, NEW e \in BOOLEAN,
         Server(x), Spares(x, y), y.use = x.use,
         y.timer => y.phase = "running" /\ ~InUse(y),
         FreeTasks(x) \subseteq FreeTasks(y)
  PROVE  Server(y)
BY DEF Server, Spares, Steady, Unheld

LEMMA ServerStop ==
  ASSUME NEW x \in Supervisor, NEW y \in Supervisor, NEW e \in BOOLEAN,
         Server(x), Begun(x, y), y.phase = "stopping", y.step = "kill",
         y.stopAfter => x.stopAfter
  PROVE  Server(y)
BY DEF Server, Begun, Steady, Unheld, FreeTasks

LEMMA ServerStart ==
  ASSUME NEW x \in Supervisor, NEW y \in Supervisor, NEW e \in BOOLEAN,
         Server(x), Begun(x, y), y.phase = "starting", y.step = "write",
         y.stopAfter = FALSE
  PROVE  Server(y)
BY DEF Server, Begun, Steady, Unheld, FreeTasks

\* A process parks where it may stay.
Parkable(x, q, at, e) ==
  /\ at \in {"own", "join"} => x.phase = "stopping"
  /\ q \in Clients => Acts(x, x.p[q], e) /\ Stays(x, x.p[q], at, e)
  /\ q \in Tasks => Busy(x.p[q])

LEMMA ParkSound ==
  ASSUME NEW x, NEW q \in Procs, NEW at \in Stages, NEW off, NEW e \in BOOLEAN,
         Sound(x, off, e, {q}), Parkable(x, q, at, e)
  PROVE  Sound(Park(x, q, at), off, e, {}) /\ Parked(x, Park(x, q, at), q, at)
<1>1. x \in Supervisor /\ Server(x) /\ Counted(x, off)
      /\ \A r \in Procs \ {q} : Fits(x, r, e)
  BY DEF Sound
<1>2. PICK y \in Supervisor : y = Park(x, q, at) /\ Parked(x, y, q, at)
  BY <1>1, ParkIs
<1>3. PICK s \in Process : s = x.p[q]
  BY <1>1, ProcessOf
<1>4. PICK z \in Process : z = y.p[q]
  BY <1>2, ProcessOf
<1>5. /\ z.at = at /\ z.go = "no" /\ z.proc = s.proc /\ z.lease = s.lease
      /\ z.entry = s.entry /\ z.own = s.own /\ z.turn = s.turn
      /\ z.since = s.since /\ z.pid = s.pid
  BY <1>2, <1>3, <1>4 DEF Process, Parked
<1>6. /\ Spares(x, y) /\ y.use = x.use /\ y.timer = x.timer
      /\ \A r \in Procs : r # q => y.p[r] = x.p[r]
  BY <1>2 DEF Alone, Parked
<1>7. FreeTasks(x) \subseteq FreeTasks(y)
  BY <1>3, <1>4, <1>5, <1>6 DEF FreeTasks, Procs
<1>8. InUse(y) <=> InUse(x)
  BY <1>6 DEF InUse
<1>9. Server(y)
  BY <1>1, <1>2, <1>6, <1>7, <1>8, ServerKept DEF Server, Spares
<1>10. ASSUME NEW c \in Clients, NEW k \in Kinds
       PROVE  Counts(y.p[c], k) <=> Counts(x.p[c], k)
  BY <1>3, <1>4, <1>5, <1>6 DEF Counts, Procs
<1>11. Counted(y, off)
  BY <1>1, <1>2, <1>6, <1>10, CountKept
<1>12. ASSUME NEW r \in Procs, r # q PROVE Fits(y, r, e)
  BY <1>1, <1>2, <1>6, <1>12, FitsKept
<1>13. Fits(y, q, e)
  <2>1. Awaits(y, z, e)
    BY <1>3, <1>5, <1>6 DEF Parkable, Awaits, Spares
  <2>2. ASSUME q \in Clients
        PROVE  Acts(y, z, e) /\ Stays(y, z, z.at, e)
    <3>1. Acts(x, s, e) /\ Stays(x, s, at, e)
      BY <1>3, <2>2 DEF Parkable
    <3>2. (Stopping(y, e) <=> Stopping(x, e)) /\ y.rev = x.rev
          /\ y.record = x.record /\ y.exit = x.exit
      BY <1>6 DEF Spares, Steady, Stopping
    <3>3. Newer(y, s.since) <=> Newer(x, s.since)
      BY <1>6 DEF Newer, Spares, Steady
    <3>4. Flags(z) <=> Flags(s)
      BY <1>5 DEF Flags
    <3> QED BY <1>5, <3>1, <3>2, <3>3, <3>4 DEF Acts, Stays
  <2>3. q \in Tasks => Busy(z)
    BY <1>3, <1>5 DEF Parkable, Busy, TaskFits
  <2>4. q \in Tasks => TaskFits(z) /\ (Busy(z) \/ z.at = "rest")
    BY <2>3 DEF Busy
  <2> QED BY <1>4, <2>1, <2>2, <2>4 DEF Fits
<1> QED BY <1>2, <1>9, <1>11, <1>12, <1>13 DEF Sound

LEMMA BeginStopSound ==
  ASSUME NEW x, NEW q \in Procs, NEW off, NEW e \in BOOLEAN, NEW replace \in BOOLEAN,
         Sound(x, off, e, {q}),
         \/ e \/ x.exit # "no"
         \/ \A r \in Clients \ {q} : ~x.p[r].turn /\ ~x.p[r].entry /\ ~x.p[r].own
  PROVE  LET y == BeginStop(x, replace)
         IN /\ Sound(y, off, e, {q}) /\ Begun(x, y)
            /\ y.phase = "stopping" /\ y.replace = replace
<1>1. x \in Supervisor /\ Server(x) /\ Counted(x, off)
      /\ \A r \in Procs \ {q} : Fits(x, r, e)
  BY DEF Sound
<1>2. PICK y \in Supervisor :
        /\ y = BeginStop(x, replace) /\ Begun(x, y)
        /\ y.phase = "stopping" /\ y.step = "kill" /\ y.replace = replace
        /\ y.stopAfter = x.stopAfter
  BY <1>1, BeginStopIs
<1>3. Server(y)
  BY <1>1, <1>2, ServerStop
<1>4. Counted(y, off)
  BY <1>1, <1>2, CountKept DEF Begun
<1>5. ASSUME NEW r \in Procs, r # q PROVE Fits(y, r, e)
  <2>1. Fits(x, r, e)
    BY <1>1, <1>5
  <2>2. r \in Tasks => ~x.p[r].turn /\ ~x.p[r].entry /\ ~x.p[r].own
    BY <2>1 DEF Fits, TaskFits
  <2> QED BY <1>1, <1>2, <1>5, <2>1, <2>2, FitsStop DEF Procs
<1> QED BY <1>2, <1>3, <1>4, <1>5 DEF Sound

LEMMA BeginStartSound ==
  ASSUME NEW x, NEW q \in Procs, NEW off, NEW e \in BOOLEAN, NEW marked \in BOOLEAN,
         Sound(x, off, e, {q}), x.phase # "stopping"
  PROVE  LET y == BeginStart(x, marked)
         IN /\ Sound(y, off, e, {q}) /\ Begun(x, y)
            /\ y.phase = "starting" /\ y.step = "write"
<1>1. x \in Supervisor /\ Server(x) /\ Counted(x, off)
      /\ \A r \in Procs \ {q} : Fits(x, r, e)
  BY DEF Sound
<1>2. PICK y \in Supervisor :
        /\ y = BeginStart(x, marked) /\ Begun(x, y)
        /\ y.phase = "starting" /\ y.step = "write" /\ y.stopAfter = FALSE
  BY <1>1, BeginStartIs
<1>3. Server(y)
  BY <1>1, <1>2, ServerStart
<1>4. Counted(y, off)
  BY <1>1, <1>2, CountKept DEF Begun
<1>5. ASSUME NEW r \in Procs, r # q PROVE Fits(y, r, e)
  BY <1>1, <1>2, <1>5, FitsStart
<1> QED BY <1>2, <1>3, <1>4, <1>5 DEF Sound

\* What a piece of process q leaves when it does not count anything.
Acted(x, y, q) ==
  /\ Steady(x, y) /\ y.use = x.use
  /\ \A r \in Procs : r # q => y.p[r] = x.p[r]
  /\ y.p[q].turn = x.p[q].turn

LEMMA ParkActed ==
  ASSUME NEW x \in Supervisor, NEW y \in Supervisor, NEW q \in Procs, NEW at \in Stages,
         Parked(x, y, q, at)
  PROVE  Acted(x, y, q)
<1>1. x.p[q] \in Process
  BY ProcessOf
<1>2. y.p[q].turn = x.p[q].turn
  BY <1>1 DEF Parked, Process
<1> QED BY <1>2 DEF Parked, Alone, Spares, Acted

LEMMA BegunActed ==
  ASSUME NEW x, NEW y, NEW z, NEW q \in Procs, Begun(x, y), Acted(y, z, q)
  PROVE  Acted(x, z, q)
BY DEF Begun, Acted, Steady

-----------------------------------------------------------------------------
(* A replacement.                                                          *)

MayReplace(x, q, e) ==
  /\ q \in Tasks => Busy(x.p[q])
  /\ q \in Clients =>
       /\ Acts(x, x.p[q], e) /\ x.p[q].proc \in {"acquire", "begin", "again"}
       /\ x.p[q].proc # "begin" => ~Stopping(x, e)
       /\ x.p[q].proc = "again" => x.record # NoPid \/ x.exit # "no" \/ e

LEMMA ReplacesSound ==
  ASSUME NEW x, NEW q \in Procs, NEW off, NEW e \in BOOLEAN,
         Sound(x, off, e, {q}), MayReplace(x, q, e)
  PROVE  Sound(Replaces(x, q), off, e, {}) /\ Acted(x, Replaces(x, q), q)
<1>1. x \in Supervisor /\ Counted(x, off)
  BY DEF Sound
<1>2. ASSUME NEW at \in {"join", "pending", "wait"},
             at = "join" => x.phase = "stopping"
      PROVE  Sound(Park(x, q, at), off, e, {}) /\ Acted(x, Park(x, q, at), q)
  <2>1. at \in Stages
    BY <1>2 DEF Stages, OpWaits
  <2>2. q \in Clients => Stays(x, x.p[q], at, e)
    BY <1>2 DEF MayReplace, Stays, Places, Keeps, OpWaits
  <2>3. Parkable(x, q, at, e)
    BY <1>2, <2>2 DEF Parkable, MayReplace
  <2>4. Sound(Park(x, q, at), off, e, {}) /\ Parked(x, Park(x, q, at), q, at)
    BY <2>1, <2>3, ParkSound
  <2> QED BY <1>1, <2>1, <2>4, ParkActed DEF Sound
<1>3. CASE Replacing(x)
  BY <1>2, <1>3 DEF Replaces, Replacing
<1>4. CASE ~Replacing(x) /\ (x.use.turns > 0 \/ x.use.holds > OwnHolds(x, q))
  BY <1>2, <1>4 DEF Replaces
<1>5. CASE /\ ~Replacing(x) /\ ~(x.use.turns > 0 \/ x.use.holds > OwnHolds(x, q))
           /\ x.phase \in {"starting", "stopping"}
  BY <1>2, <1>5 DEF Replaces
<1>6. CASE /\ ~Replacing(x) /\ ~(x.use.turns > 0 \/ x.use.holds > OwnHolds(x, q))
           /\ x.phase \notin {"starting", "stopping"}
  <2>1. Replaces(x, q) = Park(BeginStop(x, TRUE), q, "own")
    BY <1>6 DEF Replaces
  <2>2. "turns" \in Kinds /\ "holds" \in Kinds
    BY DEF Kinds
  <2>3. x.use \in [Kinds -> Nat]
    BY <1>1 DEF Supervisor
  <2>4. x.use.turns = 0 /\ x.use.holds <= OwnHolds(x, q)
    BY <1>6, <2>2, <2>3 DEF OwnHolds
  <2>5. \A c \in Clients : ~Counts(x.p[c], "turns")
    BY <1>1, <2>2, <2>4, CountFacts
  <2>6. ASSUME NEW c \in Clients \ {q} PROVE ~Counts(x.p[c], "holds")
    <3>1. CASE q \in Clients
      <4>1. Counts(x.p[q], "holds")
        BY <3>1 DEF MayReplace, Acts, Flags, Counts
      <4>2. x.use.holds <= 1
        BY <2>2, <2>3, <2>4 DEF OwnHolds
      <4> QED BY <1>1, <2>2, <2>6, <3>1, <4>1, <4>2, CountFacts
    <3>2. CASE q \in Tasks
      <4>1. x.p[q].proc \in {"idle", "reload"}
        BY <3>2 DEF MayReplace, Busy, TaskFits
      <4>2. x.use.holds = 0
        BY <2>2, <2>3, <2>4, <4>1 DEF OwnHolds
      <4> QED BY <1>1, <2>2, <2>6, <4>2, CountFacts
    <3> QED BY <3>1, <3>2 DEF Procs
  <2>7. \A r \in Clients \ {q} : ~x.p[r].turn /\ ~x.p[r].entry /\ ~x.p[r].own
    BY <2>5, <2>6 DEF Counts
  <2>8. PICK y : /\ y = BeginStop(x, TRUE) /\ Sound(y, off, e, {q}) /\ Begun(x, y)
                 /\ y.phase = "stopping"
    BY <2>7, BeginStopSound
  <2>9. y.p = x.p /\ y.rev = x.rev
    BY <2>8 DEF Begun, Steady
  <2>10. Parkable(y, q, "own", e)
    <3>1. q \in Clients => Acts(y, y.p[q], e)
      BY <2>9 DEF MayReplace, Acts, Flags
    <3>2. q \in Clients => Stays(y, y.p[q], "own", e)
      BY <2>9 DEF MayReplace, Stays, Places, Keeps, OpWaits
    <3> QED BY <2>8, <2>9, <3>1, <3>2 DEF Parkable, MayReplace
  <2>11. "own" \in Stages
    BY DEF Stages, OpWaits
  <2>12. PICK z : z = Park(y, q, "own") /\ Sound(z, off, e, {}) /\ Parked(y, z, q, "own")
    BY <2>8, <2>10, <2>11, ParkSound
  <2>13. Acted(y, z, q)
    BY <2>8, <2>11, <2>12, ParkActed DEF Sound
  <2> QED BY <2>1, <2>8, <2>12, <2>13, BegunActed
<1> QED BY <1>3, <1>4, <1>5, <1>6

LEMMA RequestedSound ==
  ASSUME NEW x, NEW q \in Procs, NEW off, NEW e \in BOOLEAN,
         Sound(x, off, e, {q}), MayReplace(x, q, e),
         q \in Clients /\ x.p[q].proc = "again" =>
           ReplacementRequested(x) \/ x.step # "run"
  PROVE  LET y == ReplaceServerIfRequested(x, q)
         IN Sound(y, off, e, {}) /\ Acted(x, y, q)
<1>1. CASE Replacing(x) \/ ReplacementRequested(x)
  BY <1>1, ReplacesSound DEF ReplaceServerIfRequested
<1>2. CASE ~Replacing(x) /\ ~ReplacementRequested(x)
  <2>1. "marker" \in Stages /\ x \in Supervisor
    BY DEF Stages, Sound
  <2>2. q \in Clients => Stays(x, x.p[q], "marker", e)
    <3> SUFFICES ASSUME q \in Clients PROVE Stays(x, x.p[q], "marker", e)
      OBVIOUS
    <3>1. ASSUME x.p[q].proc = "again" PROVE Newer(x, x.p[q].since)
      <4>1. x.record # NoPid => x.has[x.record] = x.rev
        BY <1>2 DEF ReplacementRequested, RecordStale
      <4>2. x.rev \in Nat /\ x.p[q].since \in Nat /\ x.p[q].since <= x.rev
        BY <2>1, ProcessOf, BoundsAssumption DEF MayReplace, Acts, Supervisor, Process
      <4> QED BY <1>2, <3>1, <4>1, <4>2 DEF Newer
    <3> QED BY <3>1 DEF MayReplace, Stays, Places, Keeps
  <2>3. Parkable(x, q, "marker", e)
    BY <2>2 DEF Parkable, MayReplace
  <2>4. PICK y : /\ y = Park(x, q, "marker") /\ Sound(y, off, e, {})
                 /\ Parked(x, y, q, "marker")
    BY <2>1, <2>3, ParkSound
  <2>5. Acted(x, y, q)
    BY <2>1, <2>4, ParkActed DEF Sound
  <2> QED BY <1>2, <2>4, <2>5 DEF ReplaceServerIfRequested
<1> QED BY <1>1, <1>2

-----------------------------------------------------------------------------
(* Tasks, and the end of a hold.                                           *)

Put(x, q, s) == [x EXCEPT !.p = [@ EXCEPT ![q] = s]]

LEMMA PutIs ==
  ASSUME NEW x \in Supervisor, NEW q \in Procs, NEW s \in Process
  PROVE  /\ Put(x, q, s) \in Supervisor /\ Alone(x, Put(x, q, s), q)
         /\ Put(x, q, s).p[q] = s
<1> DEFINE p == [x.p EXCEPT ![q] = s]
<1>1. Put(x, q, s) = [x EXCEPT !.p = p]
  BY DEF Put, Supervisor
<1>2. p \in [Procs -> Process] /\ p[q] = s /\ \A r \in Procs : r # q => p[r] = x.p[r]
  BY DEF Supervisor
<1> HIDE DEF p
<1>3. [x EXCEPT !.p = p] \in Supervisor
  BY <1>2 DEF Supervisor
<1>4. Spares(x, [x EXCEPT !.p = p])
  BY DEF Supervisor, Spares, Steady
<1>5. LET y == [x EXCEPT !.p = p] IN y.use = x.use /\ y.timer = x.timer /\ y.p = p
  BY DEF Supervisor
<1> QED BY <1>1, <1>2, <1>3, <1>4, <1>5 DEF Alone

\* Whatever a process that runs does to itself, the others fit.
LEMMA AloneSound ==
  ASSUME NEW x, NEW y \in Supervisor, NEW q \in Procs, NEW off, NEW new, NEW e \in BOOLEAN,
         Sound(x, off, e, {q}) \/ Sound(x, off, e, {}),
         Alone(x, y, q), Counted(y, new),
         Unheld(x) \/ q \in Clients \/ y.p[q].proc = "none" \/ x.p[q].proc # "none"
  PROVE  Sound(y, new, e, {q})
<1>1. x \in Supervisor /\ Server(x) /\ \A r \in Procs \ {q} : Fits(x, r, e)
  BY DEF Sound
<1>2. /\ Spares(x, y) /\ y.use = x.use /\ y.timer = x.timer
      /\ \A r \in Procs : r # q => y.p[r] = x.p[r]
  BY DEF Alone
<1>3. ASSUME NEW r \in Procs, r # q PROVE Fits(y, r, e)
  BY <1>1, <1>2, <1>3, FitsKept
<1>4. InUse(y) <=> InUse(x)
  BY <1>2 DEF InUse
<1>5. y.timer => y.phase = "running" /\ ~InUse(y)
  BY <1>1, <1>2, <1>4 DEF Server, Spares
<1>6. Server(y)
  <2>1. CASE FreeTasks(x) \subseteq FreeTasks(y)
    BY <1>1, <1>2, <1>5, <2>1, ServerKept
  <2>2. CASE ~(FreeTasks(x) \subseteq FreeTasks(y))
    <3>1. Unheld(x)
      BY <1>2, <2>2, ProcsAssumption DEF FreeTasks, Procs
    <3> QED BY <1>1, <1>2, <1>5, <3>1 DEF Server, Spares, Steady, Unheld
  <2> QED BY <2>1, <2>2
<1> QED BY <1>3, <1>6 DEF Sound

\* The clients and the counts are left alone.
Clear(x, y) ==
  Steady(x, y) /\ y.use = x.use /\ \A c \in Clients : y.p[c] = x.p[c]

LEMMA StartsTaskSound ==
  ASSUME NEW x, NEW off, NEW e \in BOOLEAN, NEW proc \in {"idle", "reload"},
         Sound(x, off, e, {}), Unheld(x), FreeTasks(x) # {}
  PROVE  LET y == StartsTask(x, proc)
         IN Sound(y, off, e, {}) /\ Clear(x, y)
<1>1. PICK t \in FreeTasks(x) : t = CHOOSE u \in FreeTasks(x) : TRUE
  OBVIOUS
<1>2. t \in Tasks /\ t \in Procs /\ t \notin Clients /\ x \in Supervisor
  BY <1>1, ProcsAssumption DEF FreeTasks, Procs, Sound
<1>3. PICK s \in Process : s = x.p[t]
  BY <1>2, ProcessOf
<1> DEFINE u == [s EXCEPT !.proc = proc]
<1>4. /\ u \in Process /\ u.proc = proc
      /\ u.entry = s.entry /\ u.own = s.own /\ u.turn = s.turn
  BY DEF Process
<1> HIDE DEF u
<1>5. PICK z \in Supervisor : z = Put(x, t, u) /\ Alone(x, z, t) /\ z.p[t] = u
  BY <1>2, <1>4, PutIs
<1>6. z = [x EXCEPT !.p[t].proc = proc]
  BY <1>3, <1>5 DEF Put, u
<1>7. \A c \in Clients : z.p[c] = x.p[c]
  BY <1>2, <1>5 DEF Alone, Procs
<1>8. Counted(z, off)
  BY <1>2, <1>5, <1>7, CountKept DEF Sound, Alone
<1>9. Sound(z, off, e, {t})
  BY <1>2, <1>5, <1>8, AloneSound
<1>10. TaskFits(s)
  BY <1>2, <1>3 DEF Sound, Fits
<1>11. MayReplace(z, t, e)
  BY <1>2, <1>4, <1>5, <1>10 DEF MayReplace, Busy, TaskFits
<1>12. PICK y : /\ y = ReplaceServerIfRequested(z, t)
                /\ Sound(y, off, e, {}) /\ Acted(z, y, t)
  BY <1>2, <1>9, <1>11, RequestedSound
<1>13. Clear(x, y)
  BY <1>2, <1>5, <1>7, <1>12 DEF Clear, Acted, Alone, Spares, Steady, Procs
<1> QED BY <1>1, <1>6, <1>12, <1>13 DEF StartsTask

\* A count changes.
Used(x, y, k, by) ==
  Spares(x, y) /\ y.p = x.p /\ y.use = [x.use EXCEPT ![k] = @ + by]

LEMMA ChangeUseSound ==
  ASSUME NEW x, NEW off \in [Kinds -> Nat], NEW e \in BOOLEAN, NEW Q,
         NEW k \in Kinds, NEW by \in {1, -1},
         Sound(x, off, e, Q), off[k] + by \in Nat,
         by = 1 => FreeTasks(x) # {} \/ k = "leases"
  PROVE  LET y == ChangeUse(x, k, by)
         IN Sound(y, [off EXCEPT ![k] = @ + by], e, Q) /\ Used(x, y, k, by)
<1>1. x \in Supervisor /\ Server(x) /\ Counted(x, off)
      /\ \A r \in Procs \ Q : Fits(x, r, e)
  BY DEF Sound
<1>2. x.use \in [Kinds -> Nat] /\ by \in Int
  BY <1>1 DEF Supervisor
<1>3. Cardinality(Users(x, k)) \in Nat /\ x.use[k] = Cardinality(Users(x, k)) + off[k]
  BY <1>1, CountFacts
<1>4. x.use[k] + by \in Nat
  BY <1>2, <1>3
<1>5. PICK y \in Supervisor :
        /\ y = ChangeUse(x, k, by) /\ Spares(x, y) /\ y.p = x.p
        /\ y.use = [x.use EXCEPT ![k] = @ + by]
        /\ y.timer => y.phase = "running" /\ ~InUse(y)
  BY <1>1, <1>2, <1>4, ChangeUseIs
<1>6. Server(y)
  <2>1. FreeTasks(y) = FreeTasks(x)
    BY <1>5 DEF FreeTasks
  <2>2. ~Unheld(y) => FreeTasks(y) # {}
    <3>1. CASE by = 1 /\ k # "leases"
      BY <2>1, <3>1
    <3>2. CASE by = -1 \/ k = "leases"
      <4>1. Unheld(x) => Unheld(y)
        BY <1>2, <1>4, <1>5, <3>2 DEF Unheld, Kinds
      <4> QED BY <1>1, <2>1, <4>1 DEF Server
    <3> QED BY <3>1, <3>2
  <2> QED BY <1>1, <1>5, <2>2 DEF Server, Spares, Steady
<1>7. Counted(y, [off EXCEPT ![k] = @ + by])
  <2> SUFFICES ASSUME NEW j \in Kinds
               PROVE  LET new == [off EXCEPT ![k] = @ + by]
                      IN new[j] \in Nat /\ y.use[j] = Cardinality(Users(y, j)) + new[j]
    BY DEF Counted
  <2>1. Users(y, j) = Users(x, j)
    BY <1>5 DEF Users
  <2>2. /\ Cardinality(Users(x, j)) \in Nat
        /\ x.use[j] = Cardinality(Users(x, j)) + off[j]
    BY <1>1, CountFacts
  <2> QED BY <1>2, <1>5, <2>1, <2>2
<1>8. ASSUME NEW r \in Procs \ Q PROVE Fits(y, r, e)
  BY <1>1, <1>5, <1>8, FitsKept
<1> QED BY <1>5, <1>6, <1>7, <1>8 DEF Sound, Used

\* A hold ends; the last one can start a task.
Dropped(x, y) ==
  /\ Steady(x, y) /\ y.use = [x.use EXCEPT !["holds"] = @ - 1]
  /\ \A c \in Clients : y.p[c] = x.p[c]
  /\ x.use.turns > 0 => y.phase = x.phase

LEMMA ReplaceOnceIdleSound ==
  ASSUME NEW x, NEW off, NEW e \in BOOLEAN,
         Sound(x, off, e, {}), Unheld(x) => FreeTasks(x) # {}
  PROVE  LET y == ReplaceOnceIdle(x)
         IN /\ Sound(y, off, e, {}) /\ Clear(x, y)
            /\ x.use.turns > 0 => y.phase = x.phase
<1>1. CASE Unheld(x)
  <2>1. x.use.turns = 0
    BY <1>1 DEF Unheld
  <2> QED BY <1>1, <2>1, StartsTaskSound DEF ReplaceOnceIdle
<1>2. CASE ~Unheld(x)
  BY <1>2 DEF ReplaceOnceIdle, Clear, Steady
<1> QED BY <1>1, <1>2

LEMMA DropHoldSound ==
  ASSUME NEW x, NEW off \in [Kinds -> Nat], NEW e \in BOOLEAN,
         Sound(x, off, e, {}), off["holds"] >= 1
  PROVE  LET y == DropHold(x)
         IN Sound(y, [off EXCEPT !["holds"] = @ - 1], e, {}) /\ Dropped(x, y)
<1>1. "holds" \in Kinds /\ "turns" \in Kinds /\ off["holds"] \in Nat
  BY DEF Kinds
<1>2. PICK z : /\ z = ChangeUse(x, "holds", -1)
               /\ Sound(z, [off EXCEPT !["holds"] = @ + (-1)], e, {})
               /\ Used(x, z, "holds", -1)
  <2>1. PICK by \in {1, -1} : by = -1
    OBVIOUS
  <2>2. off["holds"] + by \in Nat /\ by # 1
    BY <1>1, <2>1
  <2>3. LET z == ChangeUse(x, "holds", by)
        IN Sound(z, [off EXCEPT !["holds"] = @ + by], e, {}) /\ Used(x, z, "holds", by)
    BY <1>1, <2>2, ChangeUseSound
  <2> QED BY <2>1, <2>3
<1>3. x.use.holds > 0
  <2>1. /\ x \in Supervisor /\ Cardinality(Users(x, "holds")) \in Nat
        /\ x.use["holds"] = Cardinality(Users(x, "holds")) + off["holds"]
    BY <1>1, CountFacts DEF Sound
  <2> QED BY <1>1, <2>1
<1>4. FreeTasks(z) # {}
  BY <1>2, <1>3 DEF Sound, Server, Unheld, FreeTasks, Used
<1>5. PICK y : /\ y = ReplaceOnceIdle(z)
               /\ Sound(y, [off EXCEPT !["holds"] = @ + (-1)], e, {})
               /\ Clear(z, y)
               /\ z.use.turns > 0 => y.phase = z.phase
  BY <1>2, <1>4, ReplaceOnceIdleSound
<1>6. y = DropHold(x)
  BY <1>2, <1>5 DEF DropHold
<1>7. x.use \in [Kinds -> Nat]
  BY DEF Sound, Supervisor
<1>8. z.use = [x.use EXCEPT !["holds"] = @ - 1] /\ z.use.turns = x.use.turns
  BY <1>1, <1>2, <1>7 DEF Used
<1>9. Dropped(x, y)
  BY <1>2, <1>5, <1>8 DEF Dropped, Clear, Used, Spares, Steady
<1>10. [off EXCEPT !["holds"] = @ + (-1)] = [off EXCEPT !["holds"] = @ - 1]
  BY <1>1
<1> QED BY <1>5, <1>6, <1>9, <1>10

-----------------------------------------------------------------------------
(* A method returns or throws.                                             *)

\* No session starts a turn.
Turnless(x, y) ==
  Steady(x, y) /\ \A c \in Clients : y.p[c].turn <=> x.p[c].turn

LEMMA ClosedSound ==
  ASSUME NEW x, NEW q \in Procs, NEW off, NEW e \in BOOLEAN,
         Sound(x, off, e, {q}), Fits(x, q, e)
  PROVE  Sound(x, off, e, {})
BY DEF Sound

LEMMA AloneTrans ==
  ASSUME NEW x, NEW y, NEW z, NEW q \in Procs, Alone(x, y, q), Alone(y, z, q)
  PROVE  Alone(x, z, q)
BY DEF Alone, Spares, Steady

LEMMA TaskEndsSound ==
  ASSUME NEW x, NEW q \in Tasks, NEW off, NEW e \in BOOLEAN,
         Sound(x, off, e, {q})
  PROVE  LET y == TaskEnds(x, q)
         IN Sound(y, off, e, {}) /\ Turnless(x, y)
<1>1. q \in Procs /\ q \notin Clients /\ x \in Supervisor
  BY ProcsAssumption DEF Procs, Sound
<1>2. Resting \in Process
  BY BoundsAssumption DEF Resting, Process, Stages
<1>3. PICK y \in Supervisor :
        y = Put(x, q, Resting) /\ Alone(x, y, q) /\ y.p[q] = Resting
  BY <1>1, <1>2, PutIs
<1>4. y = [x EXCEPT !.p[q] = Resting]
  BY <1>3 DEF Put
<1>5. \A c \in Clients : y.p[c] = x.p[c]
  BY <1>1, <1>3 DEF Alone, Procs
<1>6. Counted(y, off)
  BY <1>1, <1>3, <1>5, CountKept DEF Sound, Alone
<1>7. Sound(y, off, e, {q})
  BY <1>1, <1>3, <1>6, AloneSound DEF Resting
<1>8. Fits(y, q, e)
  BY <1>1, <1>3 DEF Fits, Awaits, TaskFits, Resting, OpWaits
<1>9. Sound(y, off, e, {}) /\ Turnless(x, y)
  BY <1>1, <1>3, <1>5, <1>7, <1>8, ClosedSound DEF Turnless, Alone, Spares
<1>10. ASSUME NEW w \in {"no", "waits", "done"}
       PROVE  LET z == [y EXCEPT !.waiter = w]
              IN Sound(z, off, e, {}) /\ Turnless(x, z)
  <2> DEFINE z == [y EXCEPT !.waiter = w]
  <2>1. z \in Supervisor
    BY DEF Supervisor
  <2>2. Spares(y, z) /\ z.use = y.use /\ z.timer = y.timer /\ z.p = y.p
    BY DEF Supervisor, Spares, Steady
  <2> HIDE DEF z
  <2>3. \A r \in Procs : Fits(z, r, e)
    BY <1>9, <2>1, <2>2, FitsKept DEF Sound
  <2>4. Counted(z, off)
    BY <1>9, <2>1, <2>2, CountKept DEF Sound
  <2>5. Server(z)
    BY <1>9, <2>1, <2>2, ServerKept DEF Sound, Server, FreeTasks, InUse, Spares
  <2>6. Turnless(x, z)
    BY <1>9, <2>2 DEF Turnless, Spares, Steady
  <2> QED BY <2>1, <2>3, <2>4, <2>5, <2>6 DEF Sound, z
<1>11. WakeCurrentWaiters(y) \in {[y EXCEPT !.waiter = w] : w \in {"no", "waits", "done"}}
  BY DEF WakeCurrentWaiters, Supervisor
<1> QED BY <1>4, <1>9, <1>10, <1>11 DEF TaskEnds

LEMMA RestsIs ==
  ASSUME NEW x \in Supervisor, NEW q \in Procs
  PROVE  LET y == Rests(x, q)
             s == x.p[q]
             u == y.p[q]
         IN /\ y \in Supervisor /\ Alone(x, y, q) /\ u \in Process
            /\ u.proc = "none" /\ u.at = "rest" /\ u.go = "no" /\ u.since = 0
            /\ u.lease = s.lease /\ u.entry = s.entry /\ u.own = s.own
            /\ u.turn = s.turn
            /\ u.pid = IF s.turn \/ s.entry THEN s.pid ELSE NoPid
<1>1. PICK s \in Process : s = x.p[q]
  BY ProcessOf
<1>2. PICK w \in Pids \cup {NoPid} : w = IF s.turn \/ s.entry THEN s.pid ELSE NoPid
  BY DEF Process
<1> DEFINE v == [Resting EXCEPT !.lease = s.lease, !.entry = s.entry, !.own = s.own]
           u == [v EXCEPT !.turn = s.turn, !.tried = s.tried, !.pid = w]
<1>3. /\ v \in Process /\ v.proc = "none" /\ v.at = "rest" /\ v.go = "no"
      /\ v.since = 0 /\ v.lease = s.lease /\ v.entry = s.entry /\ v.own = s.own
  <2>1. 0 \in 0..MaxRev /\ "rest" \in Stages
    BY BoundsAssumption DEF Stages
  <2>2. Resting \in Process
    BY <2>1 DEF Resting, Process
  <2>3. v \in Process
    BY <1>1, <2>2 DEF Process
  <2> QED BY <2>3 DEF Resting
<1>4. u \in Process
  <2> HIDE DEF v
  <2> QED BY ZenonT(40), <1>1, <1>2, <1>3 DEF Process
<1>5. /\ u.proc = "none" /\ u.at = "rest" /\ u.go = "no" /\ u.since = 0
      /\ u.lease = s.lease /\ u.entry = s.entry /\ u.own = s.own
      /\ u.turn = s.turn /\ u.pid = w
  <2> HIDE DEF v
  <2> QED BY <1>3 DEF Process
<1>6. Rests(x, q) = Put(x, q, u)
  BY <1>1, <1>2 DEF Rests, Put
<1> HIDE DEF u, v
<1> QED BY <1>1, <1>2, <1>4, <1>5, <1>6, PutIs

Off(k) == [NoOff EXCEPT ![k] = @ + 1]

LEMMA OffIs ==
  ASSUME NEW k \in Kinds
  PROVE  /\ NoOff \in [Kinds -> Nat] /\ Off(k) \in [Kinds -> Nat]
         /\ Off(k)[k] = 1 /\ [Off(k) EXCEPT ![k] = @ - 1] = NoOff
         /\ \A j \in Kinds : NoOff[j] = 0 /\ (j # k => Off(k)[j] = 0)
BY DEF NoOff, Off

\* What no step of the others looks at changes.
LEMMA AsideSound ==
  ASSUME NEW x, NEW y \in Supervisor, NEW off, NEW e \in BOOLEAN, NEW Q,
         Sound(x, off, e, Q), Spares(x, y), y.use = x.use, y.timer = x.timer,
         y.p = x.p
  PROVE  Sound(y, off, e, Q)
<1>1. x \in Supervisor /\ Server(x) /\ Counted(x, off)
      /\ \A r \in Procs \ Q : Fits(x, r, e)
  BY DEF Sound
<1>2. \A r \in Procs \ Q : Fits(y, r, e)
  BY <1>1, FitsKept
<1>3. Counted(y, off)
  BY <1>1, CountKept
<1>4. Server(y)
  BY <1>1, ServerKept DEF Server, FreeTasks, InUse, Spares
<1> QED BY <1>2, <1>3, <1>4 DEF Sound

\* A process that runs writes its record.
Weight(s, k) == IF Counts(s, k) THEN 1 ELSE 0

LEMMA PutSound ==
  ASSUME NEW x, NEW q \in Procs, NEW s \in Process, NEW off, NEW new, NEW e \in BOOLEAN,
         Sound(x, off, e, {q}) \/ Sound(x, off, e, {}),
         q \in Clients => \A k \in Kinds :
           new[k] \in Nat /\ new[k] = off[k] + Weight(x.p[q], k) - Weight(s, k),
         q \in Tasks => new = off /\ x.p[q].proc # "none"
  PROVE  LET y == Put(x, q, s)
         IN Sound(y, new, e, {q}) /\ Alone(x, y, q) /\ y.p[q] = s
<1>1. x \in Supervisor /\ Counted(x, off)
  BY DEF Sound
<1>2. PICK y \in Supervisor : y = Put(x, q, s) /\ Alone(x, y, q) /\ y.p[q] = s
  BY <1>1, PutIs
<1>3. y.use = x.use /\ \A r \in Procs : r # q => y.p[r] = x.p[r]
  BY <1>2 DEF Alone
<1>4. Counted(y, new)
  <2>1. CASE q \in Clients
    BY <1>1, <1>2, <1>3, <2>1, Recount DEF Weight, Procs
  <2>2. CASE q \notin Clients
    BY <1>1, <1>2, <1>3, <2>2, CountKept DEF Procs
  <2> QED BY <2>1, <2>2
<1>5. Sound(y, new, e, {q})
  BY <1>2, <1>4, AloneSound DEF Procs
<1> QED BY <1>2, <1>5

\* It writes what no count depends on.
LEMMA WriteSound ==
  ASSUME NEW x, NEW q \in Procs, NEW s \in Process, NEW u \in Process, NEW e \in BOOLEAN,
         Sound(x, NoOff, e, {q}) \/ Sound(x, NoOff, e, {}), s = x.p[q],
         u.lease = s.lease, u.entry = s.entry, u.own = s.own, u.turn = s.turn,
         q \in Tasks => s.proc # "none"
  PROVE  LET y == Put(x, q, u)
         IN Sound(y, NoOff, e, {q}) /\ Alone(x, y, q) /\ y.p[q] = u
<1>1. ASSUME NEW k \in Kinds
      PROVE  /\ NoOff[k] \in Nat
             /\ NoOff[k] = NoOff[k] + Weight(x.p[q], k) - Weight(u, k)
  <2>1. Weight(u, k) = Weight(x.p[q], k) /\ Weight(u, k) \in {0, 1}
    BY DEF Weight, Counts
  <2>2. NoOff[k] = 0
    BY OffIs
  <2> QED BY <2>1, <2>2
<1> QED BY <1>1, PutSound

\* The method of client q returned.
Rested(x, y, q) ==
  LET s == x.p[q]
      u == y.p[q]
  IN /\ Alone(x, y, q) /\ u \in Process
     /\ u.proc = "none" /\ u.at = "rest" /\ u.go = "no" /\ u.since = 0
     /\ u.lease = s.lease /\ u.entry = s.entry /\ u.own = s.own /\ u.turn = s.turn
     /\ u.pid = IF s.turn \/ s.entry THEN s.pid ELSE NoPid

LEMMA RestsSound ==
  ASSUME NEW x, NEW q \in Clients, NEW off, NEW e \in BOOLEAN, Sound(x, off, e, {q})
  PROVE  Sound(Rests(x, q), off, e, {q}) /\ Rested(x, Rests(x, q), q)
<1>1. x \in Supervisor /\ q \in Procs /\ Counted(x, off)
  BY DEF Sound, Procs
<1>2. PICK y \in Supervisor : y = Rests(x, q) /\ Rested(x, y, q)
  BY <1>1, RestsIs DEF Rested
<1>3. Alone(x, y, q)
  BY <1>2 DEF Rested
<1>4. ASSUME NEW c \in Clients, NEW k \in Kinds
      PROVE  Counts(y.p[c], k) <=> Counts(x.p[c], k)
  BY <1>2, <1>3 DEF Counts, Rested, Alone, Procs
<1>5. Counted(y, off)
  BY <1>1, <1>3, <1>4, CountKept DEF Alone
<1>6. Sound(y, off, e, {q})
  BY <1>1, <1>3, <1>5, AloneSound
<1> QED BY <1>2, <1>6

LEMMA RestingFits ==
  ASSUME NEW x \in Supervisor, NEW q \in Clients, NEW e \in BOOLEAN, NEW s \in Process,
         s = x.p[q], s.proc = "none", s.at = "rest", s.since = 0 \/ s.since <= x.rev, ~s.own,
         s.entry => s.lease /\ ~s.turn,
         ~s.turn /\ ~s.entry => s.pid = NoPid,
         Stopping(x, e) => ~s.turn /\ (s.entry => s.pid = NoPid)
  PROVE  Fits(x, q, e)
<1>1. q \notin Tasks /\ 0 <= x.rev
  BY ProcsAssumption, BoundsAssumption DEF Supervisor
<1>2. Awaits(x, s, e)
  BY DEF Awaits, OpWaits
<1>3. Acts(x, s, e)
  BY <1>1 DEF Acts, Flags
<1>4. Stays(x, s, s.at, e)
  BY DEF Stays, Places, Keeps
<1> QED BY <1>1, <1>2, <1>3, <1>4 DEF Fits

\* A process in one of the methods.
Calling(x, q, e) ==
  /\ q \in Clients => Acts(x, x.p[q], e) /\ x.p[q].proc # "none"
  /\ q \in Tasks => Busy(x.p[q])

LEMMA ThrowsSound ==
  ASSUME NEW x, NEW q \in Procs, NEW e \in BOOLEAN,
         Sound(x, NoOff, e, {q}), Calling(x, q, e)
  PROVE  LET y == Throws(x, q)
         IN Sound(y, NoOff, e, {}) /\ Turnless(x, y)
<1>1. CASE q \in Tasks
  <2>1. Throws(x, q) = TaskEnds(x, q)
    BY <1>1 DEF Throws, Calling, Busy, TaskFits
  <2> QED BY <1>1, <2>1, TaskEndsSound
<1>2. CASE q \in Clients
  <2>1. x \in Supervisor
    BY DEF Sound
  <2>2. PICK s \in Process : s = x.p[q]
    BY <2>1, ProcessOf
  <2>3. Acts(x, s, e) /\ s.proc # "none"
    BY <1>2, <2>2 DEF Calling
  <2>4. PICK y : y = Rests(x, q) /\ Sound(y, NoOff, e, {q}) /\ Rested(x, y, q)
    BY <1>2, RestsSound
  <2>5. PICK u \in Process : u = y.p[q]
    BY <2>4 DEF Rested
  <2>6. /\ u.proc = "none" /\ u.at = "rest" /\ u.since = 0
        /\ u.lease = s.lease /\ u.entry = s.entry /\ u.own = s.own /\ u.turn = s.turn
        /\ u.pid = IF s.turn \/ s.entry THEN s.pid ELSE NoPid
    BY <2>2, <2>4, <2>5 DEF Rested
  <2>7. /\ Alone(x, y, q) /\ y \in Supervisor /\ (Stopping(y, e) <=> Stopping(x, e))
        /\ y.p[q].turn = x.p[q].turn
    BY <2>2, <2>4, <2>5, <2>6 DEF Rested, Alone, Spares, Steady, Stopping, Sound
  <2>8. ASSUME NEW v \in Process, v.proc = "none", v.at = "rest", v.since = 0,
               v.lease = u.lease, v.turn = u.turn, ~v.turn, ~v.entry, ~v.own,
               v.pid = NoPid, u.entry \/ u.own
        PROVE  LET z == DropHold(Put(y, q, v))
               IN Sound(z, NoOff, e, {}) /\ Turnless(x, z)
    <3>1. "holds" \in Kinds
      BY DEF Kinds
    <3>2. \A k \in Kinds :
            /\ Off("holds")[k] \in Nat
            /\ Off("holds")[k] = NoOff[k] + Weight(y.p[q], k) - Weight(v, k)
      BY <2>5, <2>8, <3>1, OffIs DEF Weight, Counts, Kinds
    <3>3. PICK z : /\ z = Put(y, q, v) /\ Sound(z, Off("holds"), e, {q})
                   /\ Alone(y, z, q) /\ z.p[q] = v
      BY <1>2, <2>4, <2>8, <3>2, ProcsAssumption, PutSound
    <3>4. Fits(z, q, e)
      BY <1>2, <2>8, <3>3, RestingFits DEF Sound
    <3>5. Sound(z, Off("holds"), e, {})
      BY <3>3, <3>4, ClosedSound
    <3>6. PICK w : w = DropHold(z) /\ Sound(w, NoOff, e, {}) /\ Dropped(z, w)
      BY <3>1, <3>5, OffIs, DropHoldSound
    <3>7. Steady(x, w)
      BY <2>7, <3>3, <3>6 DEF Alone, Spares, Steady, Dropped
    <3>8. \A c \in Clients : w.p[c].turn <=> x.p[c].turn
      BY <2>5, <2>7, <2>8, <3>3, <3>6 DEF Alone, Dropped, Procs
    <3> QED BY <3>3, <3>6, <3>7, <3>8 DEF Turnless
  <2>9. CASE s.proc = "acquire"
    <3> DEFINE v == [u EXCEPT !.entry = FALSE, !.pid = NoPid]
    <3>1. s.entry /\ ~s.own /\ ~s.lease /\ ~s.turn
      BY <2>3, <2>9 DEF Acts, Flags
    <3>2. /\ v \in Process /\ v.proc = "none" /\ v.at = "rest" /\ v.since = 0
          /\ v.lease = u.lease /\ v.turn = u.turn /\ ~v.turn /\ ~v.entry /\ ~v.own
          /\ v.pid = NoPid /\ u.entry
      BY <2>6, <3>1 DEF Process
    <3>3. [y EXCEPT !.p[q].entry = FALSE, !.p[q].pid = NoPid] = Put(y, q, v)
      BY <2>5, <2>7 DEF Put, Supervisor
    <3>4. Throws(x, q) = DropHold(Put(y, q, v))
      BY <2>2, <2>4, <2>9, <3>3 DEF Throws
    <3> HIDE DEF v
    <3> QED BY <2>8, <3>2, <3>4
  <2>10. CASE s.proc \in {"begin", "again", "final"}
    <3> DEFINE v == [u EXCEPT !.own = FALSE]
    <3>1. s.own /\ ~s.entry /\ ~s.turn
      BY <2>3, <2>10 DEF Acts, Flags
    <3>2. /\ v \in Process /\ v.proc = "none" /\ v.at = "rest" /\ v.since = 0
          /\ v.lease = u.lease /\ v.turn = u.turn /\ ~v.turn /\ ~v.entry /\ ~v.own
          /\ v.pid = NoPid /\ u.own
      BY <2>6, <3>1 DEF Process
    <3>3. [y EXCEPT !.p[q].own = FALSE] = Put(y, q, v)
      BY <2>5, <2>7 DEF Put, Supervisor
    <3>4. Throws(x, q) = DropHold(Put(y, q, v))
      BY <2>2, <2>4, <2>10, <3>3 DEF Throws
    <3> HIDE DEF v
    <3> QED BY <2>8, <3>2, <3>4
  <2>11. CASE s.proc = "recover"
    <3>1. Throws(x, q) = y
      BY <2>2, <2>4, <2>11 DEF Throws
    <3>2. ~s.own /\ ~s.entry /\ (Stopping(x, e) => ~s.turn)
      BY <2>3, <2>11 DEF Acts, Flags
    <3>3. Fits(y, q, e)
      BY <1>2, <2>5, <2>6, <2>7, <3>2, RestingFits
    <3>4. Turnless(x, y)
      BY <2>7 DEF Turnless, Alone, Spares, Procs
    <3> QED BY <2>4, <3>1, <3>3, <3>4, ClosedSound
  <2> QED BY <2>3, <2>9, <2>10, <2>11 DEF Acts, Flags
<1> QED BY <1>1, <1>2 DEF Procs

LEMMA AddUse ==
  ASSUME NEW x, NEW e \in BOOLEAN, NEW Q, NEW k \in Kinds, Sound(x, NoOff, e, Q),
         FreeTasks(x) # {} \/ k = "leases"
  PROVE  LET y == ChangeUse(x, k, 1)
         IN Sound(y, Off(k), e, Q) /\ Used(x, y, k, 1)
<1>1. PICK by \in {1, -1} : by = 1
  OBVIOUS
<1>2. NoOff \in [Kinds -> Nat] /\ NoOff[k] = 0
  BY OffIs
<1>3. NoOff[k] + by \in Nat
  BY <1>1, <1>2
<1>4. LET y == ChangeUse(x, k, by)
      IN Sound(y, [NoOff EXCEPT ![k] = @ + by], e, Q) /\ Used(x, y, k, by)
  BY <1>2, <1>3, ChangeUseSound
<1> QED BY <1>1, <1>4 DEF Off

LEMMA LeasedSound ==
  ASSUME NEW x, NEW q \in Clients, NEW e \in BOOLEAN,
         Sound(x, NoOff, e, {q}), Acts(x, x.p[q], e), x.p[q].proc = "acquire",
         ~Stopping(x, e)
  PROVE  LET y == Leased(x, q)
         IN Sound(y, NoOff, e, {}) /\ Turnless(x, y)
<1>1. x \in Supervisor /\ q \in Procs /\ "leases" \in Kinds /\ q \notin Tasks
  BY ProcsAssumption DEF Sound, Procs, Kinds
<1>2. PICK s \in Process : s = x.p[q]
  BY <1>1, ProcessOf
<1>3. s.entry /\ ~s.own /\ ~s.lease /\ ~s.turn
  BY <1>2 DEF Acts, Flags
<1>4. PICK y : y = Rests(x, q) /\ Sound(y, NoOff, e, {q}) /\ Rested(x, y, q)
  BY RestsSound
<1>5. PICK z : /\ z = ChangeUse(y, "leases", 1)
               /\ Sound(z, Off("leases"), e, {q}) /\ Used(y, z, "leases", 1)
  BY <1>1, <1>4, AddUse
<1>6. PICK u \in Process : u = z.p[q]
  BY <1>1, <1>5, ProcessOf DEF Sound
<1>7. /\ u.proc = "none" /\ u.at = "rest" /\ u.since = 0
      /\ u.entry /\ ~u.own /\ ~u.lease /\ ~u.turn
  BY <1>2, <1>3, <1>4, <1>5, <1>6 DEF Rested, Used
<1>8. /\ z \in Supervisor /\ (Stopping(z, e) <=> Stopping(x, e)) /\ Steady(x, z)
      /\ x.record \in Pids \cup {NoPid}
      /\ \A c \in Clients : z.p[c].turn <=> x.p[c].turn
  BY <1>1, <1>4, <1>5, <1>6
     DEF Rested, Used, Alone, Spares, Steady, Stopping, Sound, Procs, Supervisor
<1> DEFINE v == [u EXCEPT !.lease = TRUE, !.pid = x.record]
<1>9. /\ v \in Process /\ v.proc = "none" /\ v.at = "rest" /\ v.since = 0
      /\ v.entry /\ ~v.own /\ v.lease /\ ~v.turn
  BY <1>7, <1>8 DEF Process
<1>10. [z EXCEPT !.p[q].lease = TRUE, !.p[q].pid = x.record] = Put(z, q, v)
  <2>1. z \in Supervisor
    BY <1>8
  <2> QED BY ZenonT(40), <1>1, <1>6, <2>1 DEF Put, Supervisor
<1> HIDE DEF v
<1>11. \A k \in Kinds : /\ NoOff[k] \in Nat
                        /\ NoOff[k] = Off("leases")[k] + Weight(z.p[q], k) - Weight(v, k)
  BY <1>1, <1>6, <1>7, <1>9, OffIs DEF Weight, Counts, Kinds
<1>12. PICK w : w = Put(z, q, v) /\ Sound(w, NoOff, e, {q}) /\ Alone(z, w, q) /\ w.p[q] = v
  BY <1>1, <1>5, <1>9, <1>11, PutSound
<1>13. Fits(w, q, e)
  <2>1. ~Stopping(w, e) /\ w \in Supervisor
    BY <1>8, <1>12 DEF Alone, Spares, Steady, Stopping, Sound
  <2> QED BY <1>9, <1>12, <2>1, RestingFits
<1>14. Sound(w, NoOff, e, {}) /\ Turnless(x, w)
  BY <1>6, <1>7, <1>8, <1>9, <1>12, <1>13, ClosedSound DEF Turnless, Alone, Spares, Steady, Procs
<1>15. ASSUME NEW count \in [pid : Pids \cup {NoPid}, n : 0..2]
       PROVE  LET o == [w EXCEPT !.count = count]
              IN Sound(o, NoOff, e, {}) /\ Turnless(x, o)
  <2> DEFINE o == [w EXCEPT !.count = count]
  <2>1. o \in Supervisor
    BY <1>14 DEF Supervisor, Sound
  <2>2. Spares(w, o) /\ o.use = w.use /\ o.timer = w.timer /\ o.p = w.p
    BY <1>14 DEF Supervisor, Spares, Steady, Sound
  <2> HIDE DEF o
  <2>3. Sound(o, NoOff, e, {})
    BY <1>14, <2>1, <2>2, AsideSound
  <2>4. Turnless(x, o)
    BY <1>14, <2>2 DEF Turnless, Spares, Steady
  <2> QED BY <2>3, <2>4 DEF o
<1> DEFINE n == IF x.count.pid = x.record THEN x.count.n ELSE 0
           count == [pid |-> x.record, n |-> IF n < 2 THEN n + 1 ELSE 2]
<1>16. count \in [pid : Pids \cup {NoPid}, n : 0..2]
  <2>1. n \in 0..2
    BY <1>1 DEF Supervisor
  <2> QED BY <1>8, <2>1
<1>17. Leased(x, q) = [w EXCEPT !.count = count]
  BY <1>4, <1>5, <1>10, <1>12 DEF Leased
<1> QED BY <1>15, <1>16, <1>17

\* beginTurn counts the turn, and nobody stops the server.
Turned(x, y, q) ==
  /\ Steady(x, y) /\ y.phase = x.phase
  /\ \A c \in Clients : c # q => (y.p[c].turn <=> x.p[c].turn)

LEMMA TurnCountsSound ==
  ASSUME NEW x, NEW q \in Clients, NEW e \in BOOLEAN,
         Sound(x, NoOff, e, {q}), Acts(x, x.p[q], e),
         x.p[q].proc \in {"begin", "again", "final"}, ~Stopping(x, e)
  PROVE  LET y == TurnCounts(x, q)
         IN Sound(y, NoOff, e, {}) /\ Turned(x, y, q)
<1>1. /\ x \in Supervisor /\ q \in Procs /\ "turns" \in Kinds /\ "holds" \in Kinds
      /\ q \notin Tasks /\ Counted(x, NoOff) /\ Server(x)
  BY ProcsAssumption DEF Sound, Procs, Kinds
<1>2. PICK s \in Process : s = x.p[q]
  BY <1>1, ProcessOf
<1>3. s.own /\ ~s.entry /\ ~s.turn
  BY <1>2 DEF Acts, Flags
<1>4. FreeTasks(x) # {}
  <2>1. Counts(x.p[q], "holds")
    BY <1>2, <1>3 DEF Counts
  <2>2. NoOff["holds"] = 0 /\ x.use["holds"] >= 1 + NoOff["holds"]
    BY <1>1, <2>1, CountFacts, OffIs
  <2> QED BY <1>1, <2>2 DEF Server, Unheld
<1>5. PICK y : y = Rests(x, q) /\ Sound(y, NoOff, e, {q}) /\ Rested(x, y, q)
  BY RestsSound
<1>6. FreeTasks(y) # {}
  BY <1>1, <1>4, <1>5 DEF Rested, Alone, FreeTasks, Procs
<1>7. PICK z : /\ z = ChangeUse(y, "turns", 1)
               /\ Sound(z, Off("turns"), e, {q}) /\ Used(y, z, "turns", 1)
  BY <1>1, <1>5, <1>6, AddUse
<1>8. PICK u \in Process : u = z.p[q]
  BY <1>1, <1>7, ProcessOf DEF Sound
<1>9. /\ u.proc = "none" /\ u.at = "rest" /\ u.since = 0
      /\ ~u.entry /\ u.own /\ ~u.turn
  BY <1>2, <1>3, <1>5, <1>7, <1>8 DEF Rested, Used
<1>10. /\ z \in Supervisor /\ (Stopping(z, e) <=> Stopping(x, e)) /\ Steady(x, z)
       /\ x.record \in Pids \cup {NoPid} /\ z.phase = x.phase
       /\ \A c \in Clients : z.p[c].turn <=> x.p[c].turn
  BY <1>1, <1>5, <1>7, <1>8
     DEF Rested, Used, Alone, Spares, Steady, Stopping, Sound, Procs, Supervisor
<1>11. z.use.turns > 0
  <2>1. z.use["turns"] = Cardinality(Users(z, "turns")) + Off("turns")["turns"]
        /\ Cardinality(Users(z, "turns")) \in Nat
    BY <1>1, <1>7, CountFacts DEF Sound
  <2> QED BY <1>1, <2>1, OffIs
<1> DEFINE v == [u EXCEPT !.turn = TRUE, !.own = FALSE, !.pid = x.record]
<1>12. /\ v \in Process /\ v.proc = "none" /\ v.at = "rest" /\ v.since = 0
       /\ ~v.entry /\ ~v.own /\ v.turn /\ v.lease = u.lease
  BY <1>9, <1>10 DEF Process
<1>13. [z EXCEPT !.p[q].turn = TRUE, !.p[q].own = FALSE, !.p[q].pid = x.record] = Put(z, q, v)
  <2>1. z \in Supervisor
    BY <1>10
  <2> QED BY ZenonT(40), <1>1, <1>8, <2>1 DEF Put, Supervisor
<1> HIDE DEF v
<1>14. PICK holds \in [Kinds -> Nat] : /\ holds = Off("holds") /\ holds["holds"] = 1
                                       /\ holds["turns"] = 0 /\ holds["leases"] = 0
  BY <1>1, OffIs DEF Kinds
<1>15. PICK turns \in [Kinds -> Nat] : /\ turns = Off("turns") /\ turns["turns"] = 1
                                       /\ turns["holds"] = 0 /\ turns["leases"] = 0
  BY <1>1, OffIs DEF Kinds
<1>16. ASSUME NEW k \in Kinds
       PROVE  holds[k] \in Nat /\ holds[k] = turns[k] + Weight(z.p[q], k) - Weight(v, k)
  <2>1. /\ Weight(u, "holds") = 1 /\ Weight(v, "holds") = 0
        /\ Weight(u, "turns") = 0 /\ Weight(v, "turns") = 1
        /\ Weight(v, "leases") = Weight(u, "leases") /\ Weight(u, "leases") \in {0, 1}
    BY <1>9, <1>12 DEF Weight, Counts
  <2> QED BY <1>8, <1>14, <1>15, <2>1 DEF Kinds
<1>17. Sound(z, turns, e, {q})
  BY <1>7, <1>15
<1>18. PICK w : w = Put(z, q, v) /\ Sound(w, holds, e, {q}) /\ Alone(z, w, q) /\ w.p[q] = v
  <2>1. LET w == Put(z, q, v)
        IN Sound(w, holds, e, {q}) /\ Alone(z, w, q) /\ w.p[q] = v
    BY <1>1, <1>12, <1>16, <1>17, PutSound
  <2> QED BY <2>1
<1>19. Fits(w, q, e)
  <2>1. ~Stopping(w, e) /\ w \in Supervisor
    BY <1>10, <1>18 DEF Alone, Spares, Steady, Stopping, Sound
  <2> QED BY <1>12, <1>18, <2>1, RestingFits
<1>20. Sound(w, Off("holds"), e, {})
  BY <1>1, <1>14, <1>18, <1>19, ClosedSound
<1>21. PICK o : o = DropHold(w) /\ Sound(o, NoOff, e, {}) /\ Dropped(w, o)
  BY <1>1, <1>20, OffIs, DropHoldSound
<1>22. Turned(x, o, q)
  <2>1. w.use.turns > 0 /\ w.phase = x.phase /\ o.phase = w.phase
    BY <1>10, <1>11, <1>18, <1>21 DEF Alone, Spares, Dropped
  <2> QED BY <1>10, <1>18, <1>21, <2>1 DEF Turned, Alone, Spares, Steady, Dropped, Procs
<1>23. o = TurnCounts(x, q)
  BY <1>5, <1>7, <1>13, <1>18, <1>21 DEF TurnCounts
<1> QED BY <1>21, <1>22, <1>23

-----------------------------------------------------------------------------
(* From await to await.                                                    *)

\* Process q may enter the server with a turn, where it lives and has the
\* settings that the turn saw.
Enters(x, y, q, e) ==
  /\ Steady(x, y)
  /\ \A c \in Clients : y.p[c].turn /\ ~x.p[c].turn =>
       /\ c = q
       /\ e \/ x.exit # "no" \/ (x.record # NoPid /\ y.phase # "stopping")
       /\ \/ ~RecordStale(x)
          \/ x.p[c].proc = "again" /\ x.p[c].at = "pending"
          \/ /\ x.p[c].proc \in {"again", "final"}
             /\ x.has[x.record] >= x.p[c].since

LEMMA TurnlessEnters ==
  ASSUME NEW x, NEW y, NEW q, NEW e, Turnless(x, y)
  PROVE  Enters(x, y, q, e)
BY DEF Turnless, Enters

LEMMA ActedTurnless ==
  ASSUME NEW x, NEW y, NEW q, Acted(x, y, q)
  PROVE  Turnless(x, y)
BY DEF Turnless, Acted, Procs

\* It can wait for a start.
Starts(x, q, e) ==
  /\ Calling(x, q, e)
  /\ q \in Clients =>
       /\ x.p[q].proc \in {"acquire", "begin", "final", "recover"}
       /\ x.p[q].proc = "final" => Newer(x, x.p[q].since)

LEMMA EnsureServerSound ==
  ASSUME NEW x, NEW q \in Procs, NEW e \in BOOLEAN, NEW marked \in BOOLEAN,
         Sound(x, NoOff, e, {q}), Starts(x, q, e)
  PROVE  LET y == EnsureServer(x, q, marked)
         IN Sound(y, NoOff, e, {}) /\ Turnless(x, y)
<1>1. x \in Supervisor /\ (q \in Clients => q \notin Tasks)
  BY ProcsAssumption DEF Sound
<1>2. PICK s \in Process : s = x.p[q]
  BY <1>1, ProcessOf
<1> DEFINE u == [s EXCEPT !.marked = marked]
<1>3. /\ u \in Process /\ u.proc = s.proc /\ u.lease = s.lease /\ u.entry = s.entry
      /\ u.own = s.own /\ u.turn = s.turn /\ u.since = s.since /\ u.pid = s.pid
  BY DEF Process
<1>4. [x EXCEPT !.p[q].marked = marked] = Put(x, q, u)
  BY <1>1, <1>2 DEF Put, Supervisor
<1> HIDE DEF u
<1>5. q \in Tasks => s.proc # "none"
  BY <1>1, <1>2 DEF Starts, Calling, Busy
<1>6. PICK y : y = Put(x, q, u) /\ Sound(y, NoOff, e, {q}) /\ Alone(x, y, q) /\ y.p[q] = u
  BY <1>2, <1>3, <1>5, WriteSound
<1>7. /\ y \in Supervisor /\ y.phase = x.phase /\ Turnless(x, y)
      /\ (Stopping(y, e) <=> Stopping(x, e)) /\ y.rev = x.rev
  BY <1>2, <1>3, <1>6 DEF Sound, Alone, Spares, Steady, Stopping, Turnless, Procs
<1>8. Newer(y, u.since) <=> Newer(x, s.since)
  BY <1>3, <1>6 DEF Newer, Alone, Spares, Steady
<1>9. q \in Tasks => Busy(u)
  BY <1>2, <1>3 DEF Starts, Calling, Busy, TaskFits
<1>10. ASSUME q \in Clients
       PROVE  /\ Acts(y, u, e) /\ u.proc \in {"acquire", "begin", "final", "recover"}
              /\ u.proc = "final" => Newer(y, u.since)
  <2>1. Acts(x, s, e)
    BY <1>2, <1>10 DEF Starts, Calling
  <2>2. Flags(u)
    BY <1>3, <2>1 DEF Acts, Flags
  <2>3. Acts(y, u, e)
    BY <1>3, <1>7, <2>1, <2>2 DEF Acts
  <2> QED BY <1>2, <1>3, <1>8, <1>10, <2>3 DEF Starts
<1>11. ASSUME NEW z, NEW at \in {"ewait", "estart"}, Sound(z, NoOff, e, {q}),
              z.p[q] = u, Turnless(y, z),
              q \in Clients => Acts(z, u, e) /\ (Newer(y, u.since) => Newer(z, u.since))
       PROVE  LET w == Park(z, q, at)
              IN Sound(w, NoOff, e, {}) /\ Turnless(x, w)
  <2>1. at \in Stages /\ z \in Supervisor
    BY <1>11 DEF Stages, OpWaits, Sound
  <2>2. q \in Clients => Stays(z, u, at, e)
    BY <1>10, <1>11 DEF Stays, Places, OpWaits, Keeps
  <2>3. Parkable(z, q, at, e)
    BY <1>9, <1>11, <2>2 DEF Parkable
  <2>4. PICK w : w = Park(z, q, at) /\ Sound(w, NoOff, e, {}) /\ Parked(z, w, q, at)
    BY <1>11, <2>1, <2>3, ParkSound
  <2>5. Turnless(z, w)
    BY <2>1, <2>4, ParkActed, ActedTurnless DEF Sound
  <2> QED BY <1>7, <1>11, <2>4, <2>5 DEF Turnless, Steady
<1>12. CASE x.phase \in {"starting", "stopping"}
  <2>1. Turnless(y, y)
    BY DEF Turnless, Steady
  <2>2. EnsureServer(x, q, marked) = Park(y, q, "ewait")
    BY <1>4, <1>6, <1>12 DEF EnsureServer
  <2> QED BY <1>6, <1>10, <1>11, <2>1, <2>2
<1>13. CASE x.phase \notin {"starting", "stopping"}
  <2>1. PICK z : /\ z = BeginStart(y, marked) /\ Sound(z, NoOff, e, {q}) /\ Begun(y, z)
                 /\ z.phase = "starting" /\ z.step = "write"
    BY <1>6, <1>7, <1>13, BeginStartSound
  <2>2. z.p = y.p /\ Turnless(y, z)
    BY <2>1 DEF Begun, Turnless, Steady
  <2>3. q \in Clients => Acts(z, u, e) /\ (Newer(y, u.since) => Newer(z, u.since))
    BY <1>10, <2>1 DEF Acts, Stopping, Newer, Begun, Steady
  <2>4. EnsureServer(x, q, marked) = Park(z, q, "estart")
    BY <1>4, <1>6, <1>13, <2>1 DEF EnsureServer
  <2> QED BY <1>6, <1>11, <2>1, <2>2, <2>3, <2>4
<1> QED BY <1>12, <1>13

\* It can use the server there is.
Fit(x, q, e) ==
  /\ Starts(x, q, e)
  /\ q \in Clients /\ x.p[q].proc # "recover" =>
       ~Stopping(x, e) /\ (x.record # NoPid \/ x.exit # "no" \/ e)

LEMMA EnsuredSound ==
  ASSUME NEW x, NEW q \in Procs, NEW e \in BOOLEAN,
         Sound(x, NoOff, e, {q}), Fit(x, q, e)
  PROVE  LET y == Ensured(x, q)
         IN Sound(y, NoOff, e, {}) /\ Enters(x, y, q, e)
<1>1. /\ x \in Supervisor /\ (q \in Clients => q \notin Tasks) /\ x.record \in Pids \cup {NoPid}
      /\ x.rev \in 0..MaxRev
  BY ProcsAssumption DEF Sound, Supervisor
<1>2. PICK s \in Process : s = x.p[q]
  BY <1>1, ProcessOf
<1>3. CASE q \in Tasks
  <2>1. Ensured(x, q) = TaskEnds(x, q)
    BY <1>3 DEF Ensured, Fit, Starts, Calling, Busy, TaskFits
  <2> QED BY <1>3, <2>1, TaskEndsSound, TurnlessEnters
<1>4. CASE q \in Clients /\ s.proc = "acquire"
  <2>1. Ensured(x, q) = Leased(x, q)
    BY <1>2, <1>4 DEF Ensured
  <2>2. Acts(x, x.p[q], e) /\ ~Stopping(x, e) /\ x.p[q].proc = "acquire"
    BY <1>2, <1>4 DEF Fit, Starts, Calling
  <2> QED BY <1>4, <2>1, <2>2, LeasedSound, TurnlessEnters
<1>5. ASSUME q \in Clients, s.proc \in {"begin", "final"}, s.proc = "begin" => ~RecordStale(x)
      PROVE  LET y == TurnCounts(x, q)
             IN Sound(y, NoOff, e, {}) /\ Enters(x, y, q, e)
  <2>1. /\ Acts(x, x.p[q], e) /\ ~Stopping(x, e) /\ x.p[q].proc \in {"begin", "again", "final"}
        /\ x.record # NoPid \/ x.exit # "no" \/ e
        /\ s.proc = "final" => Newer(x, s.since)
    BY <1>2, <1>5 DEF Fit, Starts, Calling
  <2>2. PICK y : y = TurnCounts(x, q) /\ Sound(y, NoOff, e, {}) /\ Turned(x, y, q)
    BY <1>5, <2>1, TurnCountsSound
  <2>3. e \/ x.exit # "no" \/ (x.record # NoPid /\ y.phase # "stopping")
    BY <2>1, <2>2 DEF Stopping, Turned
  <2>4. ~RecordStale(x) \/ (s.proc \in {"again", "final"} /\ x.has[x.record] >= s.since)
    <3>1. CASE s.proc = "begin"
      BY <1>5, <3>1
    <3>2. CASE s.proc = "final" /\ RecordStale(x)
      <4>1. x.record # NoPid
        BY <3>2 DEF RecordStale
      <4> QED BY <2>1, <3>2, <4>1 DEF Newer
    <3> QED BY <1>5, <3>1, <3>2
  <2> QED BY <1>2, <2>2, <2>3, <2>4 DEF Enters, Turned
<1>6. CASE q \in Clients /\ s.proc = "begin"
  <2>1. CASE ~ReplacementRequested(x)
    <3>1. Ensured(x, q) = TurnCounts(x, q)
      BY <1>2, <1>6, <2>1 DEF Ensured
    <3> QED BY <1>5, <1>6, <2>1, <3>1 DEF ReplacementRequested
  <2>2. CASE ReplacementRequested(x)
    <3> DEFINE u == [s EXCEPT !.proc = "again", !.since = x.rev]
    <3>1. /\ u \in Process /\ u.proc = "again" /\ u.since = x.rev /\ u.lease = s.lease
          /\ u.entry = s.entry /\ u.own = s.own /\ u.turn = s.turn /\ u.pid = s.pid
      BY <1>1 DEF Process
    <3>2. [x EXCEPT !.p[q].proc = "again", !.p[q].since = x.rev] = Put(x, q, u)
      BY ZenonT(40), <1>1, <1>2 DEF Put, Supervisor
    <3> HIDE DEF u
    <3>3. q \in Tasks => s.proc # "none"
      BY <1>1, <1>6
    <3>4. PICK y : y = Put(x, q, u) /\ Sound(y, NoOff, e, {q}) /\ Alone(x, y, q) /\ y.p[q] = u
      <4>1. /\ Sound(Put(x, q, u), NoOff, e, {q}) /\ Alone(x, Put(x, q, u), q)
            /\ Put(x, q, u).p[q] = u
        BY <1>2, <3>1, <3>3, WriteSound
      <4> QED BY <4>1
    <3>5. /\ y \in Supervisor /\ y.record = x.record /\ y.exit = x.exit /\ Turnless(x, y)
          /\ (Stopping(y, e) <=> Stopping(x, e)) /\ y.rev = x.rev
      BY <1>2, <3>1, <3>4 DEF Sound, Alone, Spares, Steady, Stopping, Turnless, Procs
    <3>6. ReplacementRequested(y)
      BY <2>2, <3>4 DEF ReplacementRequested, RecordStale, Alone, Spares, Steady
    <3>7. /\ Acts(x, s, e) /\ ~Stopping(x, e) /\ (x.record # NoPid \/ x.exit # "no" \/ e)
      BY <1>2, <1>6 DEF Fit, Starts, Calling
    <3>8. Flags(u)
      BY <1>6, <3>1, <3>7 DEF Acts, Flags
    <3>9. Acts(y, u, e)
      BY <1>1, <3>1, <3>5, <3>7, <3>8, BoundsAssumption DEF Acts
    <3>10. MayReplace(y, q, e)
      BY <1>1, <1>6, <3>1, <3>4, <3>5, <3>7, <3>9 DEF MayReplace
    <3>11. PICK z : /\ z = ReplaceServerIfRequested(y, q) /\ Sound(z, NoOff, e, {})
                    /\ Acted(y, z, q)
      BY <3>4, <3>6, <3>10, RequestedSound
    <3>12. Turnless(x, z)
      BY <3>5, <3>11, ActedTurnless DEF Turnless, Steady
    <3>13. Ensured(x, q) = z
      BY <1>2, <1>6, <2>2, <3>2, <3>4, <3>11 DEF Ensured
    <3> QED BY <3>11, <3>12, <3>13, TurnlessEnters
  <2> QED BY <2>1, <2>2
<1>7. CASE q \in Clients /\ s.proc = "final"
  <2>1. Ensured(x, q) = TurnCounts(x, q)
    BY <1>2, <1>7 DEF Ensured
  <2> QED BY <1>5, <1>7, <2>1
<1>8. CASE q \in Clients /\ s.proc = "recover"
  <2> DEFINE u == [s EXCEPT !.pid = x.record]
  <2>1. /\ u \in Process /\ u.proc = s.proc /\ u.lease = s.lease /\ u.entry = s.entry
        /\ u.own = s.own /\ u.turn = s.turn
    BY <1>1 DEF Process
  <2>2. [x EXCEPT !.p[q].pid = x.record] = Put(x, q, u)
    BY <1>1, <1>2 DEF Put, Supervisor
  <2> HIDE DEF u
  <2>3. q \in Tasks => s.proc # "none"
    BY <1>1, <1>8
  <2>4. PICK y : y = Put(x, q, u) /\ Sound(y, NoOff, e, {q}) /\ Alone(x, y, q) /\ y.p[q] = u
    BY <1>2, <2>1, <2>3, WriteSound
  <2>5. PICK z : z = Rests(y, q) /\ Sound(z, NoOff, e, {q}) /\ Rested(y, z, q)
    BY <1>8, <2>4, RestsSound
  <2>6. PICK v \in Process : v = z.p[q]
    BY <2>5 DEF Rested
  <2>7. /\ v.proc = "none" /\ v.at = "rest" /\ v.since = 0 /\ v.lease = s.lease
        /\ v.entry = s.entry /\ v.own = s.own /\ v.turn = s.turn
        /\ ~v.turn /\ ~v.entry => v.pid = NoPid
    BY <2>1, <2>4, <2>5, <2>6 DEF Rested
  <2>8. Alone(x, z, q)
    BY <2>4, <2>5, AloneTrans DEF Rested
  <2>9. (Stopping(z, e) <=> Stopping(x, e)) /\ Turnless(x, z) /\ z \in Supervisor
    BY <1>2, <2>5, <2>6, <2>7, <2>8 DEF Alone, Spares, Steady, Stopping, Turnless, Procs, Sound
  <2>10. ~s.own /\ ~s.entry /\ (Stopping(x, e) => ~s.turn)
    BY <1>2, <1>8 DEF Fit, Starts, Calling, Acts, Flags
  <2>11. Fits(z, q, e)
    BY <1>8, <2>6, <2>7, <2>9, <2>10, RestingFits
  <2>12. Ensured(x, q) = z
    BY <1>2, <1>8, <2>2, <2>4, <2>5 DEF Ensured
  <2> QED BY <2>5, <2>9, <2>11, <2>12, ClosedSound, TurnlessEnters
<1>9. q \in Clients => s.proc \in {"acquire", "begin", "final", "recover"}
  BY <1>2 DEF Fit, Starts
<1> QED BY <1>3, <1>4, <1>6, <1>7, <1>8, <1>9 DEF Procs

LEMMA EnsureJoinedSound ==
  ASSUME NEW x, NEW q \in Procs, NEW e \in BOOLEAN,
         Sound(x, NoOff, e, {q}), Starts(x, q, e)
  PROVE  LET y == EnsureJoined(x, q)
         IN Sound(y, NoOff, e, {}) /\ Enters(x, y, q, e)
<1>1. PICK marked \in BOOLEAN : marked = x.p[q].marked
  BY ProcessOf DEF Sound, Process
<1> DEFINE joins == /\ x.phase \notin {"starting", "stopping"}
                    /\ Alive(x) /\ ~(marked /\ x.record = x.mark.pid)
<1>2. CASE joins
  <2>1. Fit(x, q, e)
    BY <1>2 DEF Fit, Stopping, Alive
  <2> QED BY <1>1, <1>2, <2>1, EnsuredSound DEF EnsureJoined
<1>3. CASE ~joins
  <2>1. EnsureJoined(x, q) = EnsureServer(x, q, marked)
    BY <1>1, <1>3 DEF EnsureJoined
  <2> QED BY <2>1, EnsureServerSound, TurnlessEnters
<1> QED BY <1>2, <1>3

LEMMA ValidateSound ==
  ASSUME NEW x, NEW q \in Procs, NEW e \in BOOLEAN,
         Sound(x, NoOff, e, {q}), Starts(x, q, e),
         q \in Clients =>
           /\ x.p[q].proc \in {"begin", "final", "recover"}
           /\ x.p[q].proc = "begin" => ~Stopping(x, e)
           /\ x.p[q].proc = "final" => x.record = NoPid
  PROVE  LET y == ValidateServerForTurn(x, q)
         IN Sound(y, NoOff, e, {}) /\ Turnless(x, y)
<1>1. x \in Supervisor /\ (q \in Clients => q \notin Tasks) /\ x.record \in Pids \cup {NoPid}
  BY ProcsAssumption DEF Sound, Supervisor
<1>2. PICK s \in Process : s = x.p[q]
  BY <1>1, ProcessOf
<1>3. PICK other \in BOOLEAN : other <=> x.use.turns > (IF s.proc = "recover" THEN 1 ELSE 0)
  OBVIOUS
<1> DEFINE marked == x.mark.pid # NoPid /\ x.mark.pid = x.record
           others == IF x.p[q].proc = "recover" THEN 1 ELSE 0
<1>4. (x.use.turns > others) = other
  BY <1>2, <1>3
<1>5. CASE ~Alive(x)
  <2>1. ValidateServerForTurn(x, q) = EnsureServer(x, q, FALSE)
    BY <1>5 DEF ValidateServerForTurn
  <2> QED BY <2>1, EnsureServerSound
<1>6. CASE Alive(x) /\ MarkReplaceable(x, other)
  <2>1. ValidateServerForTurn(x, q) = EnsureServer(x, q, TRUE)
    BY <1>4, <1>6 DEF ValidateServerForTurn
  <2> QED BY <2>1, EnsureServerSound
<1>7. CASE /\ Alive(x) /\ ~MarkReplaceable(x, other)
           /\ marked /\ x.p[q].proc = "recover"
  <2>1. ValidateServerForTurn(x, q) = Throws(x, q)
    BY <1>4, <1>7 DEF ValidateServerForTurn
  <2> QED BY <2>1, ThrowsSound DEF Starts
<1>8. CASE /\ Alive(x) /\ ~MarkReplaceable(x, other)
           /\ ~(marked /\ x.p[q].proc = "recover")
  <2> DEFINE u == [s EXCEPT !.other = other, !.pid = x.record]
  <2>1. /\ u \in Process /\ u.proc = s.proc /\ u.lease = s.lease /\ u.entry = s.entry
        /\ u.own = s.own /\ u.turn = s.turn /\ u.since = s.since
    BY <1>1 DEF Process
  <2>2. [x EXCEPT !.p[q].other = other, !.p[q].pid = x.record] = Put(x, q, u)
    BY ZenonT(40), <1>1, <1>2 DEF Put, Supervisor
  <2> HIDE DEF u
  <2>3. q \in Tasks => s.proc # "none"
    BY <1>1, <1>2 DEF Starts, Calling, Busy
  <2>4. PICK y : y = Put(x, q, u) /\ Sound(y, NoOff, e, {q}) /\ Alone(x, y, q) /\ y.p[q] = u
    BY <1>2, <2>1, <2>3, WriteSound
  <2>5. /\ y \in Supervisor /\ y.phase = x.phase /\ Turnless(x, y)
        /\ (Stopping(y, e) <=> Stopping(x, e)) /\ y.rev = x.rev /\ y.record = x.record
    BY <1>2, <2>1, <2>4 DEF Sound, Alone, Spares, Steady, Stopping, Turnless, Procs
  <2>6. q \in Tasks => Busy(u)
    BY <1>2, <2>1 DEF Starts, Calling, Busy, TaskFits
  <2>7. ASSUME q \in Clients
        PROVE  Acts(y, u, e) /\ Stays(y, u, "health", e)
    <3>1. /\ Acts(x, s, e) /\ s.proc \in {"begin", "recover"} /\ x.record # NoPid
          /\ s.proc = "begin" => ~Stopping(x, e)
      BY <1>2, <1>8, <2>7 DEF Starts, Calling, Alive
    <3>2. Flags(u) /\ ~u.entry
      BY <2>1, <3>1 DEF Acts, Flags
    <3>3. Acts(y, u, e)
      BY <2>1, <2>5, <3>1, <3>2 DEF Acts
    <3>4. Stays(y, u, "health", e)
      BY <2>1, <2>5, <3>1 DEF Stays, Places, Keeps
    <3> QED BY <3>3, <3>4
  <2>8. Parkable(y, q, "health", e) /\ "health" \in Stages
    BY <2>4, <2>6, <2>7 DEF Parkable, Stages
  <2>9. PICK z : z = Park(y, q, "health") /\ Sound(z, NoOff, e, {}) /\ Parked(y, z, q, "health")
    BY <2>4, <2>8, ParkSound
  <2>10. Turnless(y, z)
    BY <2>5, <2>8, <2>9, ParkActed, ActedTurnless DEF Sound
  <2>11. Turnless(x, z)
    BY <2>5, <2>10 DEF Turnless, Steady
  <2>12. ValidateServerForTurn(x, q) = z
    BY <1>4, <1>8, <2>2, <2>4, <2>9 DEF ValidateServerForTurn
  <2> QED BY <2>9, <2>11, <2>12
<1> QED BY <1>5, <1>6, <1>7, <1>8

\* How a replacement came to its end.
Came(s, result) ==
  \/ result = "pending" /\ s.at = "pending"
  \/ result = "none" /\ s.at = "marker"
  \/ result = "replaced" /\ s.at \in {"join", "own"} /\ s.go = "ok"

LEMMA ReplacedSound ==
  ASSUME NEW x, NEW q \in Procs, NEW e \in BOOLEAN,
         NEW result \in {"none", "pending", "replaced"},
         Sound(x, NoOff, e, {}), Came(x.p[q], result)
  PROVE  LET y == Replaced(x, q, result)
         IN Sound(y, NoOff, e, {}) /\ Enters(x, y, q, e)
<1>1. x \in Supervisor /\ (q \in Clients => q \notin Tasks) /\ Fits(x, q, e)
  BY ProcsAssumption DEF Sound
<1>2. PICK s \in Process : s = x.p[q]
  BY <1>1, ProcessOf
<1>3. Sound(x, NoOff, e, {q})
  BY DEF Sound
<1>4. ASSUME q \in Clients
      PROVE  /\ Acts(x, s, e) /\ Stays(x, s, s.at, e) /\ Awaits(x, s, e)
             /\ s.proc \in {"acquire", "begin", "again"}
  BY <1>1, <1>2, <1>4 DEF Fits, Stays, Places, OpWaits, Came
<1>5. q \in Tasks => Busy(s)
  BY <1>1, <1>2 DEF Fits, Came
<1>6. CASE q \in Clients /\ s.proc = "acquire"
  <2> DEFINE marked == MarkReplaceable(x, x.use.turns > 0)
  <2>1. PICK m \in BOOLEAN : m = marked
    BY DEF MarkReplaceable
  <2>2. Starts(x, q, e)
    BY <1>1, <1>2, <1>4, <1>6 DEF Starts, Calling
  <2>3. CASE result # "pending" \/ m \/ ~Alive(x)
    <3>1. Replaced(x, q, result) = EnsureServer(x, q, m)
      BY <1>2, <1>6, <2>1, <2>3 DEF Replaced
    <3> QED BY <1>3, <2>2, <3>1, EnsureServerSound, TurnlessEnters
  <2>4. CASE ~(result # "pending" \/ m \/ ~Alive(x))
    <3>1. Replaced(x, q, result) = Leased(x, q)
      BY <1>2, <1>6, <2>1, <2>4 DEF Replaced
    <3>2. s.at = "pending"
      BY <1>2, <2>4 DEF Came
    <3>3. ~Stopping(x, e)
      BY <1>4, <1>6, <3>2 DEF Stays
    <3> QED BY <1>2, <1>3, <1>4, <1>6, <3>1, <3>3, LeasedSound, TurnlessEnters
  <2> QED BY <2>3, <2>4
<1>7. CASE q \in Clients /\ s.proc = "begin"
  <2>1. CASE x.phase = "stopping"
    <3>1. Replaced(x, q, result) = Park(x, q, "stop")
      BY <1>2, <1>7, <2>1 DEF Replaced
    <3>2. Parkable(x, q, "stop", e) /\ "stop" \in Stages
      BY <1>1, <1>2, <1>4, <1>7 DEF Parkable, Stays, Places, OpWaits, Keeps, Stages
    <3>3. PICK y : y = Park(x, q, "stop") /\ Sound(y, NoOff, e, {}) /\ Parked(x, y, q, "stop")
      BY <1>3, <3>2, ParkSound
    <3>4. Turnless(x, y)
      BY <1>1, <3>2, <3>3, ParkActed, ActedTurnless DEF Sound
    <3> QED BY <3>1, <3>3, <3>4, TurnlessEnters
  <2>2. CASE x.phase # "stopping"
    <3>1. Replaced(x, q, result) = ValidateServerForTurn(x, q)
      BY <1>2, <1>7, <2>2 DEF Replaced
    <3>2. Starts(x, q, e) /\ ~Stopping(x, e)
      BY <1>1, <1>2, <1>4, <1>7, <2>2 DEF Starts, Calling, Stopping
    <3> QED BY <1>2, <1>3, <1>7, <3>1, <3>2, ValidateSound, TurnlessEnters
  <2> QED BY <2>1, <2>2
<1>8. CASE q \in Clients /\ s.proc = "again" /\ result = "replaced"
  <2> DEFINE u == [s EXCEPT !.proc = "final"]
  <2>1. /\ u \in Process /\ u.proc = "final" /\ u.lease = s.lease /\ u.entry = s.entry
        /\ u.own = s.own /\ u.turn = s.turn /\ u.since = s.since /\ u.pid = s.pid
    BY DEF Process
  <2>2. [x EXCEPT !.p[q].proc = "final"] = Put(x, q, u)
    BY <1>1, <1>2 DEF Put, Supervisor
  <2> HIDE DEF u
  <2>3. q \in Tasks => s.proc # "none"
    BY <1>1, <1>8
  <2>4. PICK y : y = Put(x, q, u) /\ Sound(y, NoOff, e, {q}) /\ Alone(x, y, q) /\ y.p[q] = u
    BY <1>2, <2>1, <2>3, WriteSound
  <2>5. /\ y \in Supervisor /\ y.step = x.step /\ Turnless(x, y)
        /\ (Stopping(y, e) <=> Stopping(x, e)) /\ y.rev = x.rev /\ y.record = x.record
    BY <1>2, <2>1, <2>4 DEF Sound, Alone, Spares, Steady, Stopping, Turnless, Procs
  <2>6. x.record = NoPid /\ x.step # "run"
    BY <1>2, <1>4, <1>8 DEF Awaits, Came, OpWaits
  <2>7. Flags(u)
    BY <1>4, <1>8, <2>1 DEF Acts, Flags
  <2>8. Acts(y, u, e)
    BY <1>4, <1>8, <2>1, <2>5, <2>7 DEF Acts
  <2>9. Newer(y, u.since)
    BY <2>5, <2>6 DEF Newer
  <2>10. Starts(y, q, e)
    BY <1>1, <1>8, <2>1, <2>4, <2>8, <2>9 DEF Starts, Calling
  <2>11. PICK z : z = ValidateServerForTurn(y, q) /\ Sound(z, NoOff, e, {}) /\ Turnless(y, z)
    BY <2>1, <2>4, <2>5, <2>6, <2>10, ValidateSound
  <2>12. Turnless(x, z)
    BY <2>5, <2>11 DEF Turnless, Steady
  <2>13. Replaced(x, q, result) = z
    BY <1>2, <1>8, <2>2, <2>4, <2>11 DEF Replaced
  <2> QED BY <2>11, <2>12, <2>13, TurnlessEnters
<1>9. CASE q \in Clients /\ s.proc = "again" /\ result # "replaced"
  <2>1. Replaced(x, q, result) = TurnCounts(x, q)
    BY <1>2, <1>9 DEF Replaced
  <2>2. s.at \in {"marker", "pending"} /\ (s.at = "pending" \/ Newer(x, s.since))
    BY <1>2, <1>4, <1>9 DEF Came, Stays
  <2>3. ~Stopping(x, e) /\ (x.record # NoPid \/ x.exit # "no" \/ e)
    BY <1>4, <1>9, <2>2 DEF Stays, Keeps
  <2>4. PICK y : y = TurnCounts(x, q) /\ Sound(y, NoOff, e, {}) /\ Turned(x, y, q)
    BY <1>2, <1>3, <1>4, <1>9, <2>3, TurnCountsSound
  <2>5. e \/ x.exit # "no" \/ (x.record # NoPid /\ y.phase # "stopping")
    BY <2>3, <2>4 DEF Stopping, Turned
  <2>6. ~RecordStale(x) \/ s.at = "pending" \/ x.has[x.record] >= s.since
    <3>1. CASE RecordStale(x) /\ s.at # "pending"
      <4>1. x.record # NoPid
        BY <3>1 DEF RecordStale
      <4> QED BY <2>2, <3>1, <4>1 DEF Newer
    <3> QED BY <3>1
  <2> QED BY <1>2, <1>9, <2>1, <2>4, <2>5, <2>6 DEF Enters, Turned
<1>10. CASE q \in Tasks
  <2>1. s.proc \notin {"acquire", "begin", "again"} /\ Starts(x, q, e)
    BY <1>1, <1>2, <1>5, <1>10 DEF Busy, TaskFits, Starts, Calling
  <2>2. \/ Replaced(x, q, result) = EnsureServer(x, q, FALSE)
        \/ Replaced(x, q, result) = TaskEnds(x, q)
    BY <1>2, <2>1 DEF Replaced
  <2> QED BY <1>3, <1>10, <2>1, <2>2, EnsureServerSound, TaskEndsSound, TurnlessEnters
<1> QED BY <1>4, <1>6, <1>7, <1>8, <1>9, <1>10 DEF Procs

LEMMA ResumedSound ==
  ASSUME NEW x, NEW q \in Procs, NEW e \in BOOLEAN,
         Sound(x, NoOff, e, {}), Ready(x, q)
  PROVE  LET y == Resumed(x, q)
         IN Sound(y, NoOff, e, {}) /\ Enters(x, y, q, e)
<1>1. /\ x \in Supervisor /\ (q \in Clients => q \notin Tasks) /\ Fits(x, q, e)
      /\ Server(x)
  BY ProcsAssumption DEF Sound
<1>2. PICK s \in Process : s = x.p[q]
  BY <1>1, ProcessOf
<1>3. Sound(x, NoOff, e, {q})
  BY DEF Sound
<1>4. Awaits(x, s, e) /\ (s.at = "pending" \/ (s.at \in OpWaits /\ s.go \in {"ok", "fail"}))
  BY <1>1, <1>2 DEF Fits, Ready, Process
<1>5. q \in Clients => Acts(x, s, e) /\ Stays(x, s, s.at, e)
  BY <1>1, <1>2 DEF Fits
<1>6. q \in Tasks => Busy(s)
  BY <1>1, <1>2, <1>4 DEF Fits, OpWaits
<1>7. q \in Clients => s.proc # "none"
  BY <1>4, <1>5 DEF Stays, Places, OpWaits
<1>8. Calling(x, q, e)
  BY <1>2, <1>5, <1>6, <1>7 DEF Calling
<1>9. q \in Clients /\ s.at \in OpWaits /\ s.proc # "recover" => ~Stopping(x, e)
  BY <1>4, <1>5, <1>7 DEF Acts, Flags, Awaits, OpWaits
<1>10. CASE s.go = "fail" /\ s.at \in {"stop", "join", "own", "estart"}
  <2>1. Resumed(x, q) = Throws(x, q)
    BY <1>2, <1>10 DEF Resumed
  <2> QED BY <1>3, <1>8, <2>1, ThrowsSound, TurnlessEnters
<1> DEFINE goes == ~(s.go = "fail" /\ s.at \in {"stop", "join", "own", "estart"})
<1>11. CASE goes /\ s.at = "pending"
  <2>1. Resumed(x, q) = Replaced(x, q, "pending") /\ Came(x.p[q], "pending")
    BY <1>2, <1>11 DEF Resumed, Came
  <2> QED BY <2>1, ReplacedSound
<1>12. CASE goes /\ s.at \in {"join", "own"}
  <2>1. Resumed(x, q) = Replaced(x, q, "replaced") /\ Came(x.p[q], "replaced")
    BY <1>2, <1>4, <1>12 DEF Resumed, Came, OpWaits
  <2> QED BY <2>1, ReplacedSound
<1>13. ASSUME q \in Clients => s.proc \in {"acquire", "begin", "again"}, s.at \in {"wait", "stop"}
       PROVE  LET y == ReplaceServerIfRequested(x, q)
              IN Sound(y, NoOff, e, {}) /\ Turnless(x, y)
  <2>1. s.at \in OpWaits /\ s.go # "no" /\ x.step # "run"
    BY <1>4, <1>13 DEF Awaits, OpWaits
  <2>2. q \in Clients /\ s.proc = "again" => x.record # NoPid \/ x.exit # "no" \/ e
    BY <1>5, <1>13 DEF Stays, Keeps, Places
  <2>3. MayReplace(x, q, e)
    BY <1>2, <1>5, <1>6, <1>9, <1>13, <2>1, <2>2 DEF MayReplace
  <2>4. PICK y : /\ y = ReplaceServerIfRequested(x, q) /\ Sound(y, NoOff, e, {})
                 /\ Acted(x, y, q)
    BY <1>3, <2>1, <2>3, RequestedSound
  <2> QED BY <2>4, ActedTurnless
<1>14. CASE goes /\ s.at = "wait"
  <2>1. Resumed(x, q) = ReplaceServerIfRequested(x, q)
    BY <1>2, <1>14 DEF Resumed
  <2>2. q \in Clients => s.proc \in {"acquire", "begin", "again"}
    BY <1>5, <1>14 DEF Stays, Places
  <2> QED BY <1>13, <1>14, <2>1, <2>2, TurnlessEnters
<1>15. q \in Clients /\ s.at \in {"ewait", "estart", "stop"} =>
         /\ s.proc \in {"acquire", "begin", "final", "recover"}
         /\ s.proc = "final" => Newer(x, s.since)
         /\ s.at = "stop" => s.proc \in {"acquire", "begin"}
  BY <1>5 DEF Stays, Places
<1>16. s.at \in {"ewait", "estart", "stop"} => Starts(x, q, e)
  BY <1>2, <1>8, <1>15 DEF Starts
<1>17. CASE goes /\ s.at = "stop"
  <2>1. CASE s.proc = "acquire"
    <3>1. Resumed(x, q) = ReplaceServerIfRequested(x, q)
      BY <1>2, <1>17, <2>1 DEF Resumed
    <3> QED BY <1>13, <1>17, <2>1, <3>1, TurnlessEnters
  <2>2. CASE s.proc # "acquire"
    <3>1. Resumed(x, q) = ValidateServerForTurn(x, q)
      BY <1>2, <1>17, <2>2 DEF Resumed
    <3>2. q \in Clients => x.p[q].proc = "begin" /\ ~Stopping(x, e)
      BY <1>2, <1>9, <1>15, <1>17, <2>2 DEF OpWaits
    <3> QED BY <1>3, <1>16, <1>17, <3>1, <3>2, ValidateSound, TurnlessEnters
  <2> QED BY <2>1, <2>2
<1>18. CASE goes /\ s.at \in {"ewait", "estart"}
  <2>1. CASE s.at = "estart" /\ x.phase = "running"
    <3>1. Resumed(x, q) = Ensured(x, q)
      BY <1>2, <1>18, <2>1 DEF Resumed
    <3>2. Fit(x, q, e)
      BY <1>1, <1>16, <2>1 DEF Fit, Stopping, Server
    <3> QED BY <1>3, <3>1, <3>2, EnsuredSound
  <2>2. CASE ~(s.at = "estart" /\ x.phase = "running")
    <3>1. Resumed(x, q) = EnsureJoined(x, q)
      BY <1>2, <1>18, <2>2 DEF Resumed
    <3> QED BY <1>3, <1>16, <1>18, <3>1, EnsureJoinedSound
  <2> QED BY <2>1, <2>2
<1> QED BY <1>4, <1>10, <1>11, <1>12, <1>14, <1>17, <1>18 DEF OpWaits

-----------------------------------------------------------------------------
(* Events.                                                                 *)

\* What the invariant looks at stays, or changes harmlessly.
Near(x, y) ==
  /\ y.phase = x.phase /\ y.record = x.record /\ y.exit = x.exit
  /\ y.stopAfter = x.stopAfter /\ y.has = x.has /\ y.launch = x.launch
  /\ y.use = x.use /\ y.timer = x.timer /\ y.p = x.p
  /\ y.step = x.step \/ (x.step = "kill" /\ y.step = "remove")
  /\ y.live \subseteq {y.disk} /\ y.rev >= x.rev

LEMMA NearSound ==
  ASSUME NEW x, NEW y \in Supervisor, NEW off, NEW e \in BOOLEAN,
         Sound(x, off, e, {}), Near(x, y)
  PROVE  Sound(y, off, e, {})
<1>1. x \in Supervisor /\ Server(x) /\ Counted(x, off)
      /\ \A r \in Procs : Fits(x, r, e)
  BY DEF Sound
<1>2. Counted(y, off)
  BY <1>1, CountKept DEF Near
<1>3. Server(y)
  BY <1>1 DEF Server, Near, InUse, Unheld, FreeTasks
<1>4. ASSUME NEW r \in Procs PROVE Fits(y, r, e)
  <2> DEFINE s == x.p[r]
  <2>1. s \in Process
    BY <1>1, ProcessOf
  <2>2. /\ y.phase = x.phase /\ y.record = x.record /\ y.exit = x.exit /\ y.p[r] = s
        /\ y.step = "run" => x.step = "run"
        /\ Stopping(y, e) <=> Stopping(x, e)
    BY DEF Near, Stopping
  <2>3. \A n : Newer(x, n) => Newer(y, n)
    BY DEF Near, Newer
  <2>4. \A n \in 0..MaxRev : n <= x.rev => n <= y.rev
    BY <1>1, BoundsAssumption DEF Near, Supervisor
  <2> HIDE DEF s
  <2>5. Fits(x, r, e)
    BY <1>1
  <2>6. Awaits(y, s, e)
    BY <2>2, <2>5 DEF Fits, Awaits, s
  <2>7. ASSUME r \in Clients
        PROVE  Acts(y, s, e) /\ Stays(y, s, s.at, e)
    <3>1. Acts(x, s, e) /\ Stays(x, s, s.at, e)
      BY <2>5, <2>7 DEF Fits, s
    <3>2. s.since \in 0..MaxRev
      BY <2>1 DEF Process
    <3>3. Acts(y, s, e)
      BY <2>2, <2>4, <3>1, <3>2 DEF Acts
    <3>4. Stays(y, s, s.at, e)
      BY <2>2, <2>3, <3>1 DEF Stays
    <3> QED BY <3>3, <3>4
  <2> QED BY <2>2, <2>5, <2>6, <2>7 DEF Fits, s
<1> QED BY <1>2, <1>3, <1>4 DEF Sound

\* The office stops, or a stop began under use: any stop is excused.
LEMMA Excusing ==
  ASSUME NEW x, NEW off, NEW e \in BOOLEAN, Sound(x, off, e, {})
  PROVE  Sound(x, off, TRUE, {})
<1>1. Server(x)
  BY DEF Sound, Server
<1>2. ASSUME NEW r \in Procs PROVE Fits(x, r, TRUE)
  <2>1. Fits(x, r, e)
    BY DEF Sound
  <2>2. Awaits(x, x.p[r], TRUE)
    BY <2>1 DEF Fits, Awaits, Stopping
  <2>3. ASSUME r \in Clients
        PROVE  Acts(x, x.p[r], TRUE) /\ Stays(x, x.p[r], x.p[r].at, TRUE)
    BY <2>1, <2>3 DEF Fits, Acts, Stays, Stopping
  <2> QED BY <2>1, <2>2, <2>3 DEF Fits
<1> QED BY <1>1, <1>2 DEF Sound

\* Where no turn and no hold is left, nothing needs an excuse.
LEMMA Unexcused ==
  ASSUME NEW x, NEW e \in BOOLEAN, Sound(x, NoOff, e, {}), Unheld(x)
  PROVE  Sound(x, NoOff, FALSE, {})
<1>1. x \in Supervisor /\ Counted(x, NoOff) /\ \A r \in Procs : Fits(x, r, e)
  BY DEF Sound
<1>2. ASSUME NEW r \in Procs PROVE Fits(x, r, FALSE)
  <2>1. PICK s \in Process : s = x.p[r]
    BY <1>1, ProcessOf
  <2>2. Fits(x, r, e)
    BY <1>1
  <2>3. ~s.turn /\ ~s.entry /\ ~s.own
    <3>1. CASE r \in Clients
      <4>1. "turns" \in Kinds /\ "holds" \in Kinds
        BY DEF Kinds
      <4>2. ~Counts(x.p[r], "turns") /\ ~Counts(x.p[r], "holds")
        BY <1>1, <3>1, <4>1, CountFacts DEF Unheld
      <4> QED BY <2>1, <4>2 DEF Counts
    <3>2. CASE r \in Tasks
      BY <2>1, <2>2, <3>2 DEF Fits, TaskFits
    <3> QED BY <3>1, <3>2 DEF Procs
  <2>4. Awaits(x, s, FALSE)
    BY <2>1, <2>2, <2>3 DEF Fits, Awaits
  <2>5. ASSUME r \in Clients
        PROVE  Acts(x, s, FALSE) /\ Stays(x, s, s.at, FALSE)
    <3>1. Acts(x, s, e) /\ Stays(x, s, s.at, e)
      BY <2>1, <2>2, <2>5 DEF Fits
    <3>2. s.proc # "acquire" /\ ~Keeps(s.proc, s.at)
      BY <2>3, <3>1 DEF Acts, Flags, Keeps
    <3> QED BY <2>3, <3>1, <3>2 DEF Acts, Stays
  <2> QED BY <2>1, <2>2, <2>4, <2>5 DEF Fits
<1> QED BY <1>2 DEF Sound

LEMMA ExitSound ==
  ASSUME NEW x, NEW off, NEW e \in BOOLEAN, Sound(x, off, TRUE, {})
  PROVE  Sound([x EXCEPT !.exit = "asked"], off, e, {})
<1> DEFINE y == [x EXCEPT !.exit = "asked"]
<1>1. x \in Supervisor /\ Server(x) /\ Counted(x, off)
      /\ \A r \in Procs : Fits(x, r, TRUE)
  BY DEF Sound
<1>2. /\ y \in Supervisor /\ y.exit = "asked" /\ y.phase = x.phase /\ y.record = x.record
      /\ y.stopAfter = x.stopAfter /\ y.has = x.has /\ y.launch = x.launch
      /\ y.use = x.use /\ y.timer = x.timer /\ y.p = x.p /\ y.step = x.step
      /\ y.live = x.live /\ y.disk = x.disk /\ y.rev = x.rev
  BY <1>1 DEF Supervisor
<1> HIDE DEF y
<1>3. Counted(y, off)
  BY <1>1, <1>2, CountKept
<1>4. Server(y)
  BY <1>1, <1>2 DEF Server, InUse, Unheld, FreeTasks
<1>5. ~Stopping(y, e)
  BY <1>2 DEF Stopping
<1>6. ASSUME NEW r \in Procs PROVE Fits(y, r, e)
  <2>1. Fits(x, r, TRUE)
    BY <1>1
  <2>2. Awaits(y, x.p[r], e)
    BY <1>2, <1>5, <2>1 DEF Fits, Awaits
  <2>3. \A n : Newer(x, n) => Newer(y, n)
    BY <1>2 DEF Newer
  <2>4. ASSUME r \in Clients
        PROVE  Acts(y, x.p[r], e) /\ Stays(y, x.p[r], x.p[r].at, e)
    BY <1>2, <1>5, <2>1, <2>3, <2>4 DEF Fits, Acts, Stays
  <2> QED BY <1>2, <2>1, <2>2, <2>4 DEF Fits
<1> QED BY <1>2, <1>3, <1>4, <1>6 DEF Sound, y

\* A stop of a server nobody uses, or one that is excused.
LEMMA ShutdownSound ==
  ASSUME NEW x, NEW e \in BOOLEAN, Sound(x, NoOff, e, {}),
         e \/ x.exit # "no" \/ ~InUse(x)
  PROVE  LET y == Shutdown(x)
         IN /\ Sound(y, NoOff, e, {}) /\ Steady(x, y) /\ y.p = x.p
<1>1. x \in Supervisor /\ Server(x) /\ Counted(x, NoOff)
      /\ \A r \in Procs : Fits(x, r, e)
  BY DEF Sound
<1>2. CASE x.phase = "stopping"
  BY <1>2 DEF Shutdown, Steady
<1>3. CASE x.phase = "starting"
  <2> DEFINE y == [x EXCEPT !.stopAfter = TRUE]
  <2>1. /\ y \in Supervisor /\ y.stopAfter /\ y.phase = x.phase
        /\ y.use = x.use /\ y.timer = x.timer /\ y.p = x.p /\ y.step = x.step
        /\ y.launch = x.launch /\ Steady(x, y)
    BY <1>1 DEF Supervisor, Steady
  <2>2. y = Shutdown(x)
    BY <1>3 DEF Shutdown
  <2> HIDE DEF y
  <2>3. Counted(y, NoOff)
    BY <1>1, <2>1, CountKept
  <2>4. Server(y)
    BY <1>1, <1>3, <2>1 DEF Server, InUse, Unheld, FreeTasks, Steady
  <2>5. ASSUME NEW r \in Procs PROVE Fits(y, r, e)
    <3>1. Fits(x, r, e)
      BY <1>1
    <3>2. ~Stopping(y, e) /\ ~Stopping(x, e)
      BY <1>3, <2>1 DEF Stopping
    <3>3. \A n : Newer(x, n) => Newer(y, n)
      BY <2>1 DEF Newer, Steady
    <3>4. Awaits(y, x.p[r], e)
      BY <2>1, <3>1, <3>2 DEF Fits, Awaits, Steady
    <3>5. ASSUME r \in Clients
          PROVE  Acts(y, x.p[r], e) /\ Stays(y, x.p[r], x.p[r].at, e)
      BY <2>1, <3>1, <3>2, <3>3, <3>5 DEF Fits, Acts, Stays, Steady
    <3> QED BY <2>1, <3>1, <3>4, <3>5 DEF Fits
  <2> QED BY <2>1, <2>2, <2>3, <2>4, <2>5 DEF Sound
<1>4. CASE x.phase \notin {"starting", "stopping"}
  <2>1. PICK y \in Supervisor :
          /\ y = BeginStop(x, FALSE) /\ Begun(x, y)
          /\ y.phase = "stopping" /\ y.step = "kill"
          /\ y.stopAfter = x.stopAfter
    BY <1>1, BeginStopIs
  <2>2. Shutdown(x) = y
    BY <1>4, <2>1 DEF Shutdown
  <2>3. Server(y)
    BY <1>1, <2>1, ServerStop
  <2>4. Counted(y, NoOff)
    BY <1>1, <2>1, CountKept DEF Begun
  <2>5. ASSUME NEW r \in Procs PROVE Fits(y, r, e)
    <3>1. Fits(x, r, e)
      BY <1>1
    <3>2. ASSUME ~InUse(x), r \in Clients
          PROVE  ~x.p[r].turn /\ ~x.p[r].entry /\ ~x.p[r].own
      <4>1. x.use \in [Kinds -> Nat]
        BY <1>1 DEF Supervisor
      <4>2. x.use["turns"] = 0 /\ x.use["holds"] = 0 /\ "turns" \in Kinds /\ "holds" \in Kinds
        BY <3>2, <4>1 DEF InUse, Kinds
      <4>3. ~Counts(x.p[r], "turns") /\ ~Counts(x.p[r], "holds")
        BY <1>1, <3>2, <4>2, CountFacts
      <4> QED BY <4>3 DEF Counts
    <3>3. r \in Tasks => ~x.p[r].turn /\ ~x.p[r].entry /\ ~x.p[r].own
      BY <3>1 DEF Fits, TaskFits
    <3> QED BY <1>1, <2>1, <3>1, <3>2, <3>3, FitsStop DEF Procs
  <2> QED BY <2>1, <2>2, <2>3, <2>4, <2>5 DEF Sound, Begun
<1> QED BY <1>2, <1>3, <1>4

\* A start or stop ended: y is x afterwards, before its waiters hear of it.
Over(x, y, how, e) ==
  /\ y.p = x.p /\ y.use = x.use /\ y.rev = x.rev
  /\ y.step # "run" /\ ~Stopping(y, e)
  /\ x.exit # "no" => y.exit # "no"
  /\ how = "ok" /\ x.phase = "stopping" => y.record = NoPid
  /\ x.phase # "stopping" /\ x.record # NoPid => y.record # NoPid
  /\ \A n \in 0..MaxRev : Newer(x, n) => Newer(y, n)

\* Its waiters are ready.
Settled(y, z, how) ==
  /\ Spares(y, z) /\ z.use = y.use /\ z.timer = y.timer
  /\ \A r \in Procs :
       z.p[r] = IF y.p[r].at \in OpWaits /\ y.p[r].go = "no"
                  THEN [y.p[r] EXCEPT !.go = how] ELSE y.p[r]

LEMMA SettlesIs ==
  ASSUME NEW y \in Supervisor, NEW how \in {"ok", "fail"}
  PROVE  Settles(y, how) \in Supervisor /\ Settled(y, Settles(y, how), how)
<1> DEFINE p == [r \in Procs |-> IF y.p[r].at \in OpWaits /\ y.p[r].go = "no"
                                   THEN [y.p[r] EXCEPT !.go = how] ELSE y.p[r]]
<1>1. Settles(y, how) = [y EXCEPT !.p = p]
  BY DEF Settles, Supervisor
<1>2. p \in [Procs -> Process]
  BY DEF Supervisor, Process
<1>3. \A r \in Procs : p[r] = IF y.p[r].at \in OpWaits /\ y.p[r].go = "no"
                                THEN [y.p[r] EXCEPT !.go = how] ELSE y.p[r]
  OBVIOUS
<1> HIDE DEF p
<1>4. [y EXCEPT !.p = p] \in Supervisor
  BY <1>2 DEF Supervisor
<1>5. Spares(y, [y EXCEPT !.p = p])
  BY DEF Supervisor, Spares, Steady
<1>6. LET z == [y EXCEPT !.p = p] IN z.use = y.use /\ z.timer = y.timer /\ z.p = p
  BY DEF Supervisor
<1> QED BY <1>1, <1>3, <1>4, <1>5, <1>6 DEF Settled

LEMMA SettlesSound ==
  ASSUME NEW x, NEW y \in Supervisor, NEW how \in {"ok", "fail"}, NEW e \in BOOLEAN,
         Sound(x, NoOff, e, {}), \A r \in Procs : ~Ready(x, r),
         Server(y), Over(x, y, how, e)
  PROVE  LET z == Settles(y, how)
         IN /\ Sound(z, NoOff, e, {}) /\ Spares(y, z)
            /\ \A c \in Clients : z.p[c].turn <=> x.p[c].turn
<1>1. x \in Supervisor /\ Counted(x, NoOff) /\ \A r \in Procs : Fits(x, r, e)
  BY DEF Sound
<1>2. PICK z \in Supervisor : z = Settles(y, how) /\ Settled(y, z, how)
  BY SettlesIs
<1>3. Spares(y, z) /\ z.use = y.use /\ z.timer = y.timer
  BY <1>2 DEF Settled
<1>4. ASSUME NEW r \in Procs
      PROVE  /\ z.p[r].at = x.p[r].at /\ z.p[r].proc = x.p[r].proc
             /\ z.p[r].lease = x.p[r].lease /\ z.p[r].entry = x.p[r].entry
             /\ z.p[r].own = x.p[r].own /\ z.p[r].turn = x.p[r].turn
             /\ z.p[r].since = x.p[r].since /\ z.p[r].pid = x.p[r].pid
             /\ z.p[r].at \in OpWaits => z.p[r].go = how /\ x.p[r].go = "no"
  <2>1. PICK s \in Process : s = x.p[r] /\ s = y.p[r]
    BY <1>1, ProcessOf DEF Over
  <2>2. z.p[r] = IF s.at \in OpWaits /\ s.go = "no" THEN [s EXCEPT !.go = how] ELSE s
    BY <1>2, <2>1 DEF Settled
  <2>3. s.at \in OpWaits => s.go = "no"
    BY <2>1 DEF Ready
  <2> QED BY <2>1, <2>2, <2>3 DEF Process
<1>5. Counted(z, NoOff)
  <2>1. z.use = x.use
    BY <1>3 DEF Over
  <2>2. \A c \in Clients, k \in Kinds : Counts(z.p[c], k) <=> Counts(x.p[c], k)
    BY <1>4 DEF Counts, Procs
  <2> QED BY <1>1, <2>1, <2>2, CountKept
<1>6. Server(z)
  <2>1. FreeTasks(y) \subseteq FreeTasks(z)
    BY <1>4 DEF FreeTasks, Over, Procs
  <2>2. z.timer => z.phase = "running" /\ ~InUse(z)
    BY <1>3 DEF Server, InUse, Spares
  <2> QED BY <1>3, <2>1, <2>2, ServerKept
<1>7. ASSUME NEW r \in Procs PROVE Fits(z, r, e)
  <2> DEFINE s == x.p[r]
             t == z.p[r]
  <2>1. /\ t.at = s.at /\ t.proc = s.proc /\ t.lease = s.lease /\ t.entry = s.entry
        /\ t.own = s.own /\ t.turn = s.turn /\ t.since = s.since /\ t.pid = s.pid
        /\ t.at \in OpWaits => t.go = how /\ s.go = "no"
    BY <1>4
  <2>2. Fits(x, r, e) /\ s.since \in 0..MaxRev
    BY <1>1, ProcessOf DEF Process
  <2>3. /\ z.rev = x.rev /\ z.step # "run" /\ ~Stopping(z, e)
        /\ x.exit # "no" => z.exit # "no"
        /\ how = "ok" /\ x.phase = "stopping" => z.record = NoPid
        /\ x.phase # "stopping" /\ x.record # NoPid => z.record # NoPid
    BY <1>3 DEF Over, Spares, Steady, Stopping
  <2>4. Newer(x, s.since) => Newer(z, s.since)
    BY <1>3, <2>2 DEF Over, Newer, Spares, Steady
  <2> HIDE DEF s, t
  <2>5. Awaits(x, s, e)
    BY <2>2 DEF Fits, s
  <2>6. Awaits(z, t, e)
    <3>1. t.at \in {"own", "join"} => t.at \in OpWaits
      BY DEF OpWaits
    <3>2. t.at \in {"own", "join"} /\ t.go = "ok" => z.record = NoPid
      BY <2>1, <2>3, <2>5, <3>1 DEF Awaits
    <3> QED BY <2>1, <2>3, <3>1, <3>2 DEF Awaits
  <2>7. ASSUME r \in Clients
        PROVE  Acts(z, t, e) /\ Stays(z, t, t.at, e)
    <3>1. Acts(x, s, e) /\ Stays(x, s, s.at, e)
      BY <2>2, <2>7 DEF Fits, s
    <3>2. Flags(t)
      BY <2>1, <3>1 DEF Acts, Flags
    <3>3. Acts(z, t, e)
      BY <2>1, <2>3, <3>1, <3>2 DEF Acts
    <3>4. Keeps(t.proc, t.at) => z.record # NoPid \/ z.exit # "no" \/ e
      <4>1. CASE x.phase = "stopping"
        BY <2>1, <2>3, <3>1, <4>1 DEF Stays, Stopping
      <4>2. CASE x.phase # "stopping"
        BY <2>1, <2>3, <3>1, <4>2 DEF Stays
      <4> QED BY <4>1, <4>2
    <3>5. Stays(z, t, t.at, e)
      BY <2>1, <2>3, <2>4, <3>1, <3>4 DEF Stays
    <3> QED BY <3>3, <3>5
  <2>8. r \in Tasks => TaskFits(t) /\ (Busy(t) \/ t.at = "rest")
    BY <2>1, <2>2 DEF Fits, TaskFits, Busy, s
  <2> QED BY <2>6, <2>7, <2>8 DEF Fits, t
<1>8. \A c \in Clients : z.p[c].turn <=> x.p[c].turn
  BY <1>4 DEF Procs
<1> QED BY <1>2, <1>3, <1>5, <1>6, <1>7, <1>8 DEF Sound

\* The stop that waits for the start, if any, may take the server from its users.
Excused(x, e) == x.stopAfter => x.exit # "no" \/ e

\* The stop that waited for the start begins.
LEMMA StopAfterStartIs ==
  ASSUME NEW x \in Supervisor, NEW e \in BOOLEAN, Server(x), x.step = "none",
         Excused(x, e)
  PROVE  LET y == StopAfterStart(x)
         IN /\ y \in Supervisor /\ Server(y) /\ ~Stopping(y, e) /\ y.step # "run"
            /\ Steady(x, y) /\ y.p = x.p /\ y.use = x.use
            /\ x.stopAfter => y.phase = "stopping"
<1>1. CASE ~x.stopAfter
  BY <1>1 DEF StopAfterStart, Server, Stopping, Steady
<1>2. CASE x.stopAfter
  <2> DEFINE z == [x EXCEPT !.stopAfter = FALSE]
  <2>1. /\ z \in Supervisor /\ Steady(x, z) /\ z.p = x.p /\ z.use = x.use
        /\ z.stopAfter = FALSE
    BY DEF Supervisor, Steady
  <2> HIDE DEF z
  <2>2. PICK y \in Supervisor :
          /\ y = BeginStop(z, FALSE) /\ Begun(z, y)
          /\ y.phase = "stopping" /\ y.step = "kill" /\ y.stopAfter = z.stopAfter
    BY <2>1, BeginStopIs
  <2>3. Steady(x, y) /\ y.p = x.p /\ y.use = x.use /\ ~y.timer
    BY <2>1, <2>2 DEF Begun, Steady
  <2>4. x.exit # "no" \/ e
    BY <1>2 DEF Excused
  <2>5. ~Stopping(y, e)
    BY <2>3, <2>4 DEF Stopping, Steady
  <2>6. Server(y)
    BY <2>1, <2>2, <2>3 DEF Server, Steady, Unheld, FreeTasks
  <2>7. StopAfterStart(x) = y
    BY <1>2, <2>2 DEF StopAfterStart, z
  <2> QED BY <2>2, <2>3, <2>5, <2>6, <2>7
<1> QED BY <1>1, <1>2 DEF Supervisor

\* No session starts a turn, and the server stays as it is.
Same(o, x) ==
  /\ x.p = o.p /\ x.use = o.use /\ x.rev = o.rev /\ x.exit = o.exit
  /\ x.stopAfter = o.stopAfter

LEMMA StartedSound ==
  ASSUME NEW o, NEW x \in Supervisor, NEW record \in Pids, NEW e \in BOOLEAN,
         Sound(o, NoOff, e, {}), \A r \in Procs : ~Ready(o, r), o.step = "run",
         Excused(o, e), Same(o, x), x.live \subseteq {record}, x.has[record] = o.launch.rev
  PROVE  LET y == Started(x, record)
         IN /\ Sound(y, NoOff, e, {}) /\ y.live = x.live /\ y.exit = o.exit
            /\ o.stopAfter => y.phase = "stopping"
            /\ \A c \in Clients : y.p[c].turn <=> o.p[c].turn
<1>1. /\ o \in Supervisor /\ Server(o) /\ o.phase = "starting"
      /\ record \in Pids \cup {NoPid} /\ record # NoPid
  BY PidsAssumption DEF Sound, Server
<1>2. PICK z \in Supervisor : /\ z = SetServer(x, "running", record)
                              /\ Phased(x, z, "running", record)
  BY <1>1, SetServerIs
<1>3. PICK mark \in [pid : Pids \cup {NoPid}, after : BOOLEAN] :
        mark = IF z.mark.pid = record THEN z.mark ELSE NoMark
  BY DEF Supervisor, NoMark
<1>4. NoLaunch \in [rev : 0..MaxRev, marked : BOOLEAN, pid : Pids \cup {NoPid}]
  BY BoundsAssumption DEF NoLaunch
<1> DEFINE w == [z EXCEPT !.step = "none", !.launch = NoLaunch, !.disk = record,
                          !.mark = mark]
<1>5. w \in Supervisor
  <2>1. [z EXCEPT !.step = "none", !.launch = NoLaunch] \in Supervisor
    BY ZenonT(40), <1>4 DEF Supervisor
  <2>2. PICK u \in Supervisor : u = [z EXCEPT !.step = "none", !.launch = NoLaunch]
    BY <2>1
  <2>3. [u EXCEPT !.disk = record] \in Supervisor
    BY <1>1 DEF Supervisor
  <2>4. PICK v \in Supervisor : v = [u EXCEPT !.disk = record]
    BY <2>3
  <2>5. w = [v EXCEPT !.mark = mark]
    BY <2>2, <2>4
  <2>6. [v EXCEPT !.mark = mark] \in Supervisor
    BY SMTT(30), <1>3 DEF Supervisor
  <2> QED BY <2>5, <2>6
<1>6. /\ w.step = "none" /\ w.disk = record /\ w.phase = "running" /\ w.record = record
      /\ w.timer => ~InUse(x)
      /\ w.p = o.p /\ w.use = o.use /\ w.rev = o.rev /\ w.exit = o.exit
      /\ w.stopAfter = o.stopAfter /\ w.live = x.live /\ w.has = x.has
  BY <1>2 DEF Supervisor, Phased, Same
<1>7. Started(x, record) = Settles(StopAfterStart(w), "ok")
  BY <1>2, <1>3 DEF Started
<1> HIDE DEF w
<1>8. Server(w) /\ Excused(w, e)
  BY <1>1, <1>6 DEF Server, InUse, Same, Unheld, FreeTasks, Excused
<1>9. PICK y \in Supervisor :
        /\ y = StopAfterStart(w) /\ Server(y) /\ ~Stopping(y, e) /\ y.step # "run"
        /\ Steady(w, y) /\ y.p = w.p /\ y.use = w.use
        /\ o.stopAfter => y.phase = "stopping"
  BY <1>5, <1>6, <1>8, StopAfterStartIs
<1> DEFINE how == "ok"
<1>10. how \in {"ok", "fail"} /\ Over(o, y, how, e)
  <2>1. /\ y.p = o.p /\ y.use = o.use /\ y.rev = o.rev /\ y.exit = o.exit
        /\ y.record = record /\ y.has[record] = o.launch.rev
    BY <1>6, <1>9 DEF Steady
  <2>2. \A n \in 0..MaxRev : Newer(o, n) => Newer(y, n)
    BY <1>9, <2>1 DEF Newer
  <2> QED BY <1>1, <1>9, <2>1, <2>2 DEF Over
<1> HIDE DEF how
<1>11. PICK v : /\ v = Settles(y, how) /\ Sound(v, NoOff, e, {}) /\ Spares(y, v)
                /\ \A c \in Clients : v.p[c].turn <=> o.p[c].turn
  <2>1. Server(y) /\ how \in {"ok", "fail"} /\ Over(o, y, how, e)
    BY <1>9, <1>10
  <2>2. Sound(o, NoOff, e, {}) /\ \A r \in Procs : ~Ready(o, r)
    OBVIOUS
  <2>3. LET v == Settles(y, how)
        IN /\ Sound(v, NoOff, e, {}) /\ Spares(y, v)
           /\ \A c \in Clients : v.p[c].turn <=> o.p[c].turn
    BY SMTT(30), <2>1, <2>2, SettlesSound
  <2> QED BY <2>3
<1>12. v.live = x.live /\ v.exit = o.exit /\ (o.stopAfter => v.phase = "stopping")
  BY <1>6, <1>9, <1>11 DEF Spares, Steady
<1> QED BY <1>7, <1>9, <1>11, <1>12 DEF how

\* The supervisor after a failed start.
StartFailed(x, dead) ==
  Settles(StopAfterStart(
    [SetServer(x, IF x.record = NoPid THEN "none" ELSE "running", x.record) EXCEPT
       !.step = "none", !.launch = NoLaunch, !.live = @ \ dead]), "fail")

LEMMA StartFailsSound ==
  ASSUME NEW x, NEW e \in BOOLEAN, NEW dead,
         Sound(x, NoOff, e, {}), \A r \in Procs : ~Ready(x, r), x.step \in {"write", "run"},
         Excused(x, e)
  PROVE  LET y == StartFailed(x, dead)
         IN /\ Sound(y, NoOff, e, {}) /\ y.exit = x.exit
            /\ x.stopAfter => y.phase = "stopping"
            /\ \A c \in Clients : y.p[c].turn <=> x.p[c].turn
<1>1. x \in Supervisor /\ Server(x) /\ x.phase = "starting"
      /\ x.record \in Pids \cup {NoPid}
  BY DEF Sound, Server, Supervisor
<1>2. PICK phase \in {"none", "running"} : phase = IF x.record = NoPid THEN "none" ELSE "running"
  OBVIOUS
<1>3. PICK z \in Supervisor : /\ z = SetServer(x, phase, x.record)
                              /\ Phased(x, z, phase, x.record)
  BY <1>1, SetServerIs
<1>4. NoLaunch \in [rev : 0..MaxRev, marked : BOOLEAN, pid : Pids \cup {NoPid}]
  BY BoundsAssumption DEF NoLaunch
<1> DEFINE w == [z EXCEPT !.step = "none", !.launch = NoLaunch, !.live = @ \ dead]
<1>5. w \in Supervisor
  <2>1. z.live \ dead \in SUBSET Pids
    BY DEF Supervisor
  <2> QED BY <1>4, <2>1 DEF Supervisor
<1>6. /\ w.step = "none" /\ w.disk = x.disk /\ w.phase = phase /\ w.record = x.record
      /\ w.timer => phase = "running" /\ ~InUse(x)
      /\ w.p = x.p /\ w.use = x.use /\ w.rev = x.rev /\ w.exit = x.exit
      /\ w.stopAfter = x.stopAfter /\ w.live \subseteq x.live /\ w.has = x.has
  BY <1>3 DEF Supervisor, Phased
<1> HIDE DEF w
<1>7. Server(w) /\ Excused(w, e)
  BY <1>1, <1>2, <1>6 DEF Server, InUse, Unheld, FreeTasks, Excused
<1>8. PICK y \in Supervisor :
        /\ y = StopAfterStart(w) /\ Server(y) /\ ~Stopping(y, e) /\ y.step # "run"
        /\ Steady(w, y) /\ y.p = w.p /\ y.use = w.use
        /\ x.stopAfter => y.phase = "stopping"
  BY <1>5, <1>6, <1>7, StopAfterStartIs
<1> DEFINE how == "fail"
<1>9. how \in {"ok", "fail"} /\ Over(x, y, how, e)
  <2>1. /\ y.p = x.p /\ y.use = x.use /\ y.rev = x.rev /\ y.exit = x.exit
        /\ y.record = x.record /\ y.has = x.has
    BY <1>6, <1>8 DEF Steady
  <2>2. \A n \in 0..MaxRev : Newer(x, n) => Newer(y, n)
    BY <1>8, <2>1 DEF Newer
  <2> QED BY <1>1, <1>8, <2>1, <2>2 DEF Over
<1> HIDE DEF how
<1>10. PICK v : /\ v = Settles(y, how) /\ Sound(v, NoOff, e, {}) /\ Spares(y, v)
                /\ \A c \in Clients : v.p[c].turn <=> x.p[c].turn
  <2>1. LET v == Settles(y, how)
        IN /\ Sound(v, NoOff, e, {}) /\ Spares(y, v)
           /\ \A c \in Clients : v.p[c].turn <=> x.p[c].turn
    BY <1>8, <1>9, SettlesSound
  <2> QED BY <2>1
<1>11. v.exit = x.exit /\ (x.stopAfter => v.phase = "stopping")
  BY <1>6, <1>8, <1>10 DEF Spares, Steady
<1> QED BY <1>2, <1>3, <1>8, <1>10, <1>11 DEF w, how, StartFailed

LEMMA StoppedSound ==
  ASSUME NEW o, NEW x \in Supervisor, NEW how \in {"ok", "fail"}, NEW e \in BOOLEAN,
         Sound(o, NoOff, e, {}), \A r \in Procs : ~Ready(o, r), o.phase = "stopping",
         Same(o, x), x.has = o.has, x.live \subseteq {x.disk},
         x.timer => x.phase = "running" /\ ~InUse(x),
         \/ x.phase = "none" /\ x.record \in {NoPid, o.record}
         \/ x.phase = "running" /\ x.record # NoPid /\ x.record = o.record,
         how = "ok" => x.record = NoPid
  PROVE  LET y == Stopped(x, how)
         IN /\ Sound(y, NoOff, e, {}) /\ y.live = x.live /\ y.disk = x.disk
            /\ \A c \in Clients : y.p[c].turn <=> o.p[c].turn
<1>1. o \in Supervisor /\ Server(o)
  BY DEF Sound
<1>2. PICK exit \in {"no", "asked", "done"} : exit = IF x.exit = "asked" THEN "done" ELSE x.exit
  BY DEF Supervisor
<1> DEFINE y == [x EXCEPT !.step = "none", !.replace = FALSE, !.exit = exit]
<1>3. y \in Supervisor
  BY DEF Supervisor
<1>4. /\ y.step = "none" /\ y.exit = exit /\ y.phase = x.phase /\ y.record = x.record
      /\ y.p = o.p /\ y.use = o.use /\ y.rev = o.rev /\ y.has = o.has
      /\ y.stopAfter = o.stopAfter /\ y.live = x.live /\ y.disk = x.disk
      /\ y.timer = x.timer /\ x.use = o.use
  BY DEF Supervisor, Same
<1>5. Stopped(x, how) = Settles(y, how)
  BY <1>2 DEF Stopped
<1> HIDE DEF y
<1>6. o.exit # "no" => exit # "no"
  BY <1>2 DEF Same
<1>7. Server(y)
  BY <1>1, <1>4, <1>6 DEF Server, InUse, Unheld, FreeTasks
<1>8. Over(o, y, how, e)
  <2>1. \A n \in 0..MaxRev : Newer(o, n) => Newer(y, n)
    BY <1>4 DEF Newer
  <2> QED BY <1>4, <1>6, <2>1 DEF Over, Stopping
<1>9. PICK v : /\ v = Settles(y, how) /\ Sound(v, NoOff, e, {}) /\ Spares(y, v)
               /\ \A c \in Clients : v.p[c].turn <=> o.p[c].turn
  <2>1. LET v == Settles(y, how)
        IN /\ Sound(v, NoOff, e, {}) /\ Spares(y, v)
           /\ \A c \in Clients : v.p[c].turn <=> o.p[c].turn
    BY <1>3, <1>7, <1>8, SettlesSound
  <2> QED BY <2>1
<1> QED BY <1>4, <1>5, <1>9 DEF Spares, Steady

-----------------------------------------------------------------------------
(* The calls of a client.                                                  *)

\* A session that gives up its turn, lease or hold still fits.
LEMMA ShedFits ==
  ASSUME NEW x \in Supervisor, NEW y \in Supervisor, NEW q \in Clients, NEW e \in BOOLEAN,
         NEW s, NEW u, s = x.p[q], u = y.p[q],
         Fits(x, q, e), Alone(x, y, q), s.proc # "acquire",
         u.proc = s.proc, u.at = s.at, u.go = s.go, u.since = s.since, u.own = s.own,
         u.entry => s.entry /\ u.lease, u.turn => s.turn, u.pid \in {s.pid, NoPid},
         u.proc = "none" /\ ~u.turn /\ ~u.entry => u.pid = NoPid
  PROVE  Fits(y, q, e)
<1>1. /\ (Stopping(y, e) <=> Stopping(x, e)) /\ y.phase = x.phase /\ y.step = x.step
      /\ y.record = x.record /\ y.rev = x.rev /\ y.exit = x.exit
  BY DEF Alone, Spares, Steady, Stopping
<1>2. \A n : Newer(y, n) <=> Newer(x, n)
  BY DEF Alone, Spares, Steady, Newer
<1>3. Awaits(x, s, e) /\ Acts(x, s, e) /\ Stays(x, s, s.at, e)
  BY DEF Fits
<1>4. Awaits(y, u, e)
  BY <1>1, <1>3 DEF Awaits
<1>5. Flags(u)
  BY <1>3 DEF Acts, Flags
<1>6. Acts(y, u, e)
  BY <1>1, <1>3, <1>5 DEF Acts
<1>7. Stays(y, u, u.at, e)
  BY <1>1, <1>2, <1>3 DEF Stays
<1> QED BY <1>4, <1>6, <1>7, ProcsAssumption DEF Fits

LEMMA PutClient ==
  ASSUME NEW x, NEW q \in Clients, NEW s \in Process, NEW off, NEW new, NEW e \in BOOLEAN,
         Sound(x, off, e, {}),
         \A k \in Kinds : new[k] \in Nat /\ new[k] = off[k] + Weight(x.p[q], k) - Weight(s, k)
  PROVE  LET y == Put(x, q, s)
         IN Sound(y, new, e, {q}) /\ Alone(x, y, q) /\ y.p[q] = s
<1>1. x \in Supervisor /\ q \in Procs /\ Counted(x, off)
  BY DEF Sound, Procs
<1>2. PICK y \in Supervisor : y = Put(x, q, s) /\ Alone(x, y, q) /\ y.p[q] = s
  BY <1>1, PutIs
<1>3. y.use = x.use /\ \A r \in Clients : r # q => y.p[r] = x.p[r]
  BY <1>2 DEF Alone, Procs
<1>4. \A k \in Kinds :
        /\ new[k] \in Nat
        /\ new[k] = off[k] + (IF Counts(x.p[q], k) THEN 1 ELSE 0)
                              - (IF Counts(y.p[q], k) THEN 1 ELSE 0)
  BY <1>2 DEF Weight
<1>5. Counted(y, new)
  BY <1>1, <1>3, <1>4, Recount
<1>6. Sound(x, off, e, {q})
  BY DEF Sound
<1>7. Sound(y, new, e, {q})
  BY <1>2, <1>5, <1>6, AloneSound DEF Procs
<1> QED BY <1>2, <1>7

\* No session starts a turn, and this one keeps its lease.
Ended(x, y, c) ==
  /\ Steady(x, y) /\ ~y.p[c].turn /\ (y.p[c].lease <=> x.p[c].lease)
  /\ \A r \in Clients : y.p[r].turn => x.p[r].turn

LEMMA EndedTurnSound ==
  ASSUME NEW x, NEW c \in Clients, NEW e \in BOOLEAN,
         Sound(x, NoOff, e, {}), x.p[c].turn
  PROVE  LET y == EndedTurn(x, c)
         IN Sound(y, NoOff, e, {}) /\ Ended(x, y, c)
<1>1. /\ x \in Supervisor /\ Counted(x, NoOff) /\ Server(x) /\ Fits(x, c, e)
      /\ c \in Procs /\ "turns" \in Kinds
  BY DEF Sound, Procs, Kinds
<1>2. PICK s \in Process : s = x.p[c]
  BY <1>1, ProcessOf
<1>3. s.turn /\ s.proc \in {"none", "recover"} /\ ~s.entry /\ ~s.own
  BY <1>1, <1>2 DEF Fits, Acts, Flags
<1>4. FreeTasks(x) # {}
  <2>1. Counts(x.p[c], "turns")
    BY <1>2, <1>3 DEF Counts
  <2>2. NoOff["turns"] = 0 /\ x.use["turns"] >= 1 + NoOff["turns"]
    BY <1>1, <2>1, CountFacts, OffIs
  <2> QED BY <1>1, <2>2 DEF Server, Unheld
<1> DEFINE v == [s EXCEPT !.turn = FALSE, !.tried = FALSE,
                          !.pid = IF s.proc = "none" THEN NoPid ELSE s.pid]
<1>5. /\ v \in Process /\ v.proc = s.proc /\ v.at = s.at /\ v.go = s.go /\ v.since = s.since
      /\ v.own = s.own /\ ~v.entry /\ v.lease = s.lease /\ ~v.turn
      /\ v.pid = IF s.proc = "none" THEN NoPid ELSE s.pid
  BY <1>3 DEF Process
<1>6. [x EXCEPT !.p[c].turn = FALSE, !.p[c].tried = FALSE,
                !.p[c].pid = IF x.p[c].proc = "none" THEN NoPid ELSE @] = Put(x, c, v)
  BY ZenonT(40), <1>1, <1>2 DEF Put, Supervisor
<1> HIDE DEF v
<1>7. PICK turns \in [Kinds -> Nat] : /\ turns = Off("turns") /\ turns["turns"] = 1
                                      /\ turns["holds"] = 0 /\ turns["leases"] = 0
                                      /\ [turns EXCEPT !["turns"] = @ - 1] = NoOff
  BY <1>1, OffIs DEF Kinds
<1>8. ASSUME NEW k \in Kinds
      PROVE  turns[k] \in Nat /\ turns[k] = NoOff[k] + Weight(x.p[c], k) - Weight(v, k)
  <2>1. /\ Weight(s, "holds") = 0 /\ Weight(v, "holds") = 0
        /\ Weight(s, "turns") = 1 /\ Weight(v, "turns") = 0
        /\ Weight(v, "leases") = Weight(s, "leases") /\ Weight(s, "leases") \in {0, 1}
    BY <1>3, <1>5 DEF Weight, Counts
  <2> QED BY <1>2, <1>7, <2>1, OffIs DEF Kinds
<1>9. PICK z : z = Put(x, c, v) /\ Sound(z, turns, e, {c}) /\ Alone(x, z, c) /\ z.p[c] = v
  BY <1>5, <1>8, PutClient
<1>10. Fits(z, c, e)
  <2>1. z \in Supervisor
    BY <1>9 DEF Sound
  <2>2. v.pid \in {s.pid, NoPid} /\ s.proc # "acquire"
    BY <1>3, <1>5
  <2> QED BY <1>1, <1>2, <1>5, <1>9, <2>1, <2>2, ShedFits
<1>11. Sound(z, turns, e, {})
  BY <1>1, <1>9, <1>10, ClosedSound
<1>12. PICK w : /\ w = ChangeUse(z, "turns", -1) /\ Sound(w, NoOff, e, {})
                /\ Used(z, w, "turns", -1)
  <2>1. PICK by \in {1, -1} : by = -1
    OBVIOUS
  <2>2. turns["turns"] + by \in Nat /\ by # 1
    BY <1>7, <2>1
  <2>3. LET w == ChangeUse(z, "turns", by)
        IN Sound(w, [turns EXCEPT !["turns"] = @ + by], e, {}) /\ Used(z, w, "turns", by)
    BY <1>1, <1>11, <2>2, ChangeUseSound
  <2>4. [turns EXCEPT !["turns"] = @ + by] = [turns EXCEPT !["turns"] = @ - 1]
    BY <1>1, <2>1
  <2> QED BY <1>7, <2>1, <2>3, <2>4
<1>13. FreeTasks(w) # {}
  BY <1>1, <1>4, <1>9, <1>12, ProcsAssumption DEF FreeTasks, Used, Alone, Procs
<1>14. PICK y : y = ReplaceOnceIdle(w) /\ Sound(y, NoOff, e, {}) /\ Clear(w, y)
  BY <1>12, <1>13, ReplaceOnceIdleSound
<1>15. EndedTurn(x, c) = y
  BY <1>6, <1>9, <1>12, <1>14 DEF EndedTurn
<1>16. Steady(x, y)
  BY <1>9, <1>12, <1>14 DEF Alone, Spares, Steady, Used, Clear
<1>17. /\ y.p[c] = v
       /\ \A r \in Clients : r # c => y.p[r] = x.p[r]
  BY <1>1, <1>9, <1>12, <1>14 DEF Alone, Used, Clear, Procs
<1>18. Ended(x, y, c)
  BY <1>2, <1>5, <1>16, <1>17 DEF Ended
<1> QED BY <1>14, <1>15, <1>18

LEMMA ReleasedSound ==
  ASSUME NEW x, NEW c \in Clients, NEW e \in BOOLEAN,
         Sound(x, NoOff, e, {}), x.p[c].lease, ~x.p[c].turn
  PROVE  LET y == Released(x, c)
         IN Sound(y, NoOff, e, {}) /\ Turnless(x, y)
<1>1. /\ x \in Supervisor /\ Counted(x, NoOff) /\ Server(x) /\ Fits(x, c, e)
      /\ c \in Procs /\ "leases" \in Kinds /\ "holds" \in Kinds
  BY DEF Sound, Procs, Kinds
<1>2. PICK s \in Process : s = x.p[c]
  BY <1>1, ProcessOf
<1>3. ~s.turn /\ s.lease /\ s.proc # "acquire" /\ (s.entry => ~s.own)
  BY <1>1, <1>2 DEF Fits, Acts, Flags
<1> DEFINE v == [s EXCEPT !.lease = FALSE, !.entry = FALSE,
                          !.pid = IF s.proc = "none" THEN NoPid ELSE s.pid]
<1>4. /\ v \in Process /\ v.proc = s.proc /\ v.at = s.at /\ v.go = s.go /\ v.since = s.since
      /\ v.own = s.own /\ ~v.entry /\ ~v.lease /\ ~v.turn
      /\ v.pid = IF s.proc = "none" THEN NoPid ELSE s.pid
  BY ZenonT(40), <1>3 DEF Process
<1>5. [x EXCEPT !.p[c].lease = FALSE, !.p[c].entry = FALSE,
                !.p[c].pid = IF x.p[c].proc = "none" THEN NoPid ELSE @] = Put(x, c, v)
  BY ZenonT(40), <1>1, <1>2 DEF Put, Supervisor
<1> HIDE DEF v
<1>6. PICK leases \in [Kinds -> Nat] :
        /\ leases = Off("leases") /\ leases["leases"] = 1
        /\ leases["holds"] = 0 /\ leases["turns"] = 0
        /\ [leases EXCEPT !["leases"] = @ - 1] = NoOff
  BY <1>1, OffIs DEF Kinds
<1>7. PICK off \in [Kinds -> Nat] :
        /\ off["leases"] = 1 /\ off["turns"] = 0
        /\ off["holds"] = IF s.entry THEN 1 ELSE 0
        /\ s.entry => [off EXCEPT !["holds"] = @ - 1] = leases
        /\ ~s.entry => off = leases
  <2>1. CASE s.entry
    <3> DEFINE o == [k \in Kinds |-> IF k = "holds" THEN 1 ELSE leases[k]]
    <3>1. o \in [Kinds -> Nat] /\ o["leases"] = 1 /\ o["turns"] = 0 /\ o["holds"] = 1
      BY <1>1, <1>6 DEF Kinds
    <3>2. [o EXCEPT !["holds"] = @ - 1] = [k \in Kinds |-> leases[k]]
      <4> DEFINE less == [o EXCEPT !["holds"] = @ - 1]
      <4>1. \A k \in Kinds : less[k] = IF k = "holds" THEN 0 ELSE leases[k]
        BY <1>1, <3>1
      <4>2. less = [k \in Kinds |-> less[k]]
        OBVIOUS
      <4>3. \A k \in Kinds : less[k] = leases[k]
        BY <1>6, <4>1
      <4> HIDE DEF less
      <4>4. less = [k \in Kinds |-> leases[k]]
        BY <4>2, <4>3
      <4> QED BY <4>4 DEF less
    <3>3. [k \in Kinds |-> leases[k]] = leases
      BY <1>6
    <3> HIDE DEF o
    <3> QED BY <2>1, <3>1, <3>2, <3>3
  <2>2. CASE ~s.entry
    BY <1>6, <2>2
  <2> QED BY <2>1, <2>2
<1>8. ASSUME NEW k \in Kinds
      PROVE  off[k] \in Nat /\ off[k] = NoOff[k] + Weight(x.p[c], k) - Weight(v, k)
  <2>1. /\ Weight(s, "turns") = 0 /\ Weight(v, "turns") = 0
        /\ Weight(s, "leases") = 1 /\ Weight(v, "leases") = 0
    BY <1>3, <1>4 DEF Weight, Counts
  <2>2. /\ s.entry => Weight(s, "holds") = 1 /\ Weight(v, "holds") = 0
        /\ ~s.entry => Weight(v, "holds") = Weight(s, "holds")
        /\ Weight(s, "holds") \in {0, 1}
    BY <1>3, <1>4 DEF Weight, Counts
  <2> QED BY <1>2, <1>7, <2>1, <2>2, OffIs DEF Kinds
<1>9. PICK z : z = Put(x, c, v) /\ Sound(z, off, e, {c}) /\ Alone(x, z, c) /\ z.p[c] = v
  <2>1. v \in Process
    BY <1>4
  <2>2. LET z == Put(x, c, v)
        IN Sound(z, off, e, {c}) /\ Alone(x, z, c) /\ z.p[c] = v
    BY <1>8, <2>1, PutClient
  <2> QED BY <2>2
<1>10. Fits(z, c, e)
  <2>1. z \in Supervisor
    BY <1>9 DEF Sound
  <2>2. v.pid \in {s.pid, NoPid}
    BY <1>4
  <2> QED BY <1>1, <1>2, <1>3, <1>4, <1>9, <2>1, <2>2, ShedFits
<1>11. Sound(z, off, e, {})
  BY <1>1, <1>9, <1>10, ClosedSound
<1>12. Turnless(x, z)
  BY <1>2, <1>3, <1>4, <1>9 DEF Turnless, Alone, Spares, Procs
<1>13. PICK w : /\ w = IF s.entry THEN DropHold(z) ELSE z
                /\ Sound(w, leases, e, {}) /\ Turnless(x, w)
  <2>1. CASE s.entry
    <3>1. PICK w : /\ w = DropHold(z) /\ Sound(w, leases, e, {}) /\ Dropped(z, w)
      BY <1>7, <1>11, <2>1, DropHoldSound
    <3>2. Turnless(x, w)
      BY <1>12, <3>1 DEF Turnless, Dropped, Steady
    <3> QED BY <2>1, <3>1, <3>2
  <2>2. CASE ~s.entry
    BY <1>7, <1>11, <1>12, <2>2
  <2> QED BY <2>1, <2>2
<1>14. PICK y : /\ y = ChangeUse(w, "leases", -1) /\ Sound(y, NoOff, e, {})
                /\ Used(w, y, "leases", -1)
  <2>1. PICK by \in {1, -1} : by = -1
    OBVIOUS
  <2>2. leases["leases"] + by \in Nat /\ by # 1
    BY <1>6, <2>1
  <2>3. LET y == ChangeUse(w, "leases", by)
        IN Sound(y, [leases EXCEPT !["leases"] = @ + by], e, {}) /\ Used(w, y, "leases", by)
    BY <1>1, <1>13, <2>2, ChangeUseSound
  <2>4. [leases EXCEPT !["leases"] = @ + by] = [leases EXCEPT !["leases"] = @ - 1]
    BY <1>1, <2>1
  <2> QED BY <1>6, <2>1, <2>3, <2>4
<1>15. Released(x, c) = y
  <2>1. Released(x, c) = ChangeUse(IF s.entry THEN DropHold(z) ELSE z, "leases", -1)
    BY <1>2, <1>5, <1>9 DEF Released
  <2> QED BY <1>13, <1>14, <2>1
<1>16. Turnless(x, y)
  BY <1>13, <1>14 DEF Turnless, Used, Spares, Steady
<1> QED BY <1>14, <1>15, <1>16

\* A count and a session change in either order.
LEMMA ChangePut ==
  ASSUME NEW x \in Supervisor, NEW q \in Procs, NEW s \in Process,
         NEW k \in Kinds, NEW by \in Int
  PROVE  ChangeUse(Put(x, q, s), k, by) = Put(ChangeUse(x, k, by), q, s)
<1> DEFINE use == [x.use EXCEPT ![k] = @ + by]
           p == [x.p EXCEPT ![q] = s]
           timer == x.phase = "running" /\ ~\E j \in Kinds : use[j] > 0
<1>1. ChangeUse(x, k, by) = [x EXCEPT !.use = use, !.timer = timer]
  BY DEF ChangeUse, ReconcileIdleTimer, InUse, Supervisor
<1>2. Put(x, q, s) = [x EXCEPT !.p = p]
  BY DEF Put
<1>3. Put([x EXCEPT !.use = use, !.timer = timer], q, s)
        = [x EXCEPT !.use = use, !.timer = timer, !.p = p]
  BY DEF Put, Supervisor
<1>4. ChangeUse([x EXCEPT !.p = p], k, by) = [x EXCEPT !.use = use, !.timer = timer, !.p = p]
  BY DEF ChangeUse, ReconcileIdleTimer, InUse, Supervisor
<1> QED BY <1>1, <1>2, <1>3, <1>4

-----------------------------------------------------------------------------
(* Steps.                                                                  *)

\* What a step may never do, as FreshTurn, StopsSpareUse and
\* ShutdownLeavesNothing say; `e' excuses what an overtaken stop does.
Fresh(e) ==
  \A c \in Clients :
    (sup'.p[c].turn /\ ~sup.p[c].turn) =>
       /\ \/ e \/ sup.exit # "no"
          \/ sup'.record # NoPid /\ sup'.phase # "stopping"
       /\ \/ ~RecordStale(sup')
          \/ sup.p[c].proc = "again" /\ sup.p[c].at = "pending"
          \/ /\ sup.p[c].proc \in {"again", "final"}
             /\ sup.has[sup'.record] >= sup.p[c].since

Spared(e) ==
  \A i \in Pids, c \in Clients :
    (Kills(i) /\ Uses(c, i)) =>
       \/ e \/ faults' < faults \/ sup.exit # "no"
       \/ /\ sup.step = "run"
          /\ i = sup.launch.pid \/ sup.has[i] # sup.launch.rev

Emptied ==
  (sup'.exit = "done" /\ sup.exit # "done") =>
    \/ sup'.live = {}
    \/ /\ faults' < faults \/ sup.step = "remove"
       /\ sup'.live = {sup'.disk}

Good(e) == Fresh(e) /\ Spared(e) /\ Emptied

\* No turn starts, no server dies, no office exits.
Calm(x, y) ==
  /\ y.live = x.live /\ (y.exit = "done" => x.exit = "done")
  /\ \A c \in Clients : y.p[c].turn => x.p[c].turn

LEMMA SteadyGood ==
  ASSUME NEW e \in BOOLEAN, NEW q, NEW y, sup' = y, Sound(y, NoOff, e, {}),
         Enters(sup, y, q, e), faults' \in 0..MaxFaults
  PROVE  Inv(e)' /\ Good(e)
<1>1. Fresh(e)
  BY DEF Fresh, Enters, Steady, RecordStale
<1>2. Spared(e) /\ Emptied
  BY DEF Spared, Emptied, Enters, Steady, Kills
<1> QED BY <1>1, <1>2 DEF Inv, Good

LEMMA CalmGood ==
  ASSUME NEW e \in BOOLEAN, NEW y, sup' = y, Sound(y, NoOff, e, {}), Calm(sup, y),
         faults' \in 0..MaxFaults
  PROVE  Inv(e)' /\ Good(e)
  BY DEF Fresh, Spared, Emptied, Kills, Calm, Inv, Good

LEMMA Faulty ==
  ASSUME faults \in 0..MaxFaults, UNCHANGED faults \/ Fault
  PROVE  faults' \in 0..MaxFaults
  BY BoundsAssumption DEF Fault

LEMMA Runs ==
  ASSUME NEW x, NEW e \in BOOLEAN, NEW q, Sound(x, NoOff, e, {})
  PROVE  Sound(x, NoOff, e, {q})
  BY DEF Sound

LEMMA ResumeStep ==
  ASSUME NEW q \in Procs, NEW e \in BOOLEAN, Inv(e), Resume(q)
  PROVE  Inv(e)' /\ Good(e)
<1>1. Sound(sup, NoOff, e, {}) /\ Ready(sup, q) /\ faults' \in 0..MaxFaults
  BY Faulty DEF Inv, Resume
<1>2. PICK y : /\ y = Resumed(sup, q) /\ Sound(y, NoOff, e, {}) /\ Enters(sup, y, q, e)
  BY <1>1, ResumedSound
<1>3. sup' = y
  BY <1>2 DEF Resume, Becomes
<1> QED BY <1>1, <1>2, <1>3, SteadyGood

LEMMA MarkerReadStep ==
  ASSUME NEW q \in Procs, NEW e \in BOOLEAN, Inv(e), MarkerRead(q)
  PROVE  Inv(e)' /\ Good(e)
<1>1. /\ Sound(sup, NoOff, e, {}) /\ Fits(sup, q, e) /\ sup.p[q].at = "marker"
      /\ faults' \in 0..MaxFaults
  BY Faulty DEF Inv, MarkerRead, Event, Sound
<1>2. CASE sup.marker
  <2>1. sup.p[q].at \notin OpWaits
    BY <1>1 DEF OpWaits
  <2>2. q \in Clients => sup.p[q].proc \in {"acquire", "begin", "again"}
    BY <1>1, <2>1 DEF Fits, Stays, Places
  <2>3. MayReplace(sup, q, e)
    BY <1>1, <2>2 DEF MayReplace, Fits, Stays, Keeps
  <2>4. Sound(sup, NoOff, e, {q})
    BY <1>1, Runs
  <2>5. PICK y : /\ y = Replaces(sup, q) /\ Sound(y, NoOff, e, {}) /\ Acted(sup, y, q)
    BY <2>3, <2>4, ReplacesSound
  <2>6. sup' = y
    BY <1>2, <2>5 DEF MarkerRead, Becomes
  <2>7. Enters(sup, y, q, e)
    BY <2>5, ActedTurnless, TurnlessEnters
  <2> QED BY <1>1, <2>5, <2>6, <2>7, SteadyGood
<1>3. CASE ~sup.marker
  <2>1. PICK result \in {"none", "pending", "replaced"} : result = "none"
    OBVIOUS
  <2>2. Came(sup.p[q], result)
    BY <1>1, <2>1 DEF Came
  <2>3. PICK y : /\ y = Replaced(sup, q, result) /\ Sound(y, NoOff, e, {})
                 /\ Enters(sup, y, q, e)
    BY <1>1, <2>2, ReplacedSound
  <2>4. sup' = y
    BY <1>3, <2>1, <2>3 DEF MarkerRead, Becomes
  <2> QED BY <1>1, <2>3, <2>4, SteadyGood
<1> QED BY <1>2, <1>3

LEMMA HealthAnswersStep ==
  ASSUME NEW q \in Procs, NEW reached \in BOOLEAN, NEW e \in BOOLEAN, Inv(e),
         HealthAnswers(q, reached)
  PROVE  Inv(e)' /\ Good(e)
<1>1. /\ Sound(sup, NoOff, e, {}) /\ Fits(sup, q, e) /\ sup.p[q].at = "health"
      /\ faults' \in 0..MaxFaults /\ Sound(sup, NoOff, e, {q})
  BY Faulty, Runs DEF Inv, HealthAnswers, Event, Sound
<1>2. sup.p[q].at \notin OpWaits
  BY <1>1 DEF OpWaits
<1>3. q \in Clients => sup.p[q].proc \in {"begin", "recover"}
  BY <1>1, <1>2 DEF Fits, Stays, Places
<1>4. Calling(sup, q, e)
  BY <1>1, <1>3 DEF Calling, Fits
<1>5. Fit(sup, q, e)
  BY <1>1, <1>3, <1>4 DEF Fit, Starts, Fits, Stays, Keeps
<1>6. CASE reached
  <2>1. PICK y : /\ y = Ensured(sup, q) /\ Sound(y, NoOff, e, {}) /\ Enters(sup, y, q, e)
    BY <1>1, <1>5, EnsuredSound
  <2>2. sup' = y
    BY <1>6, <2>1 DEF HealthAnswers, Becomes
  <2> QED BY <1>1, <2>1, <2>2, SteadyGood
<1>7. CASE ~reached /\ sup.p[q].other
  <2>1. PICK y : /\ y = Throws(sup, q) /\ Sound(y, NoOff, e, {}) /\ Turnless(sup, y)
    BY <1>1, <1>4, ThrowsSound
  <2>2. sup' = y
    BY <1>7, <2>1 DEF HealthAnswers, Becomes
  <2> QED BY <1>1, <2>1, <2>2, TurnlessEnters, SteadyGood
<1>8. CASE ~reached /\ ~sup.p[q].other
  <2>1. PICK marked \in BOOLEAN : marked = FALSE
    OBVIOUS
  <2>2. Starts(sup, q, e)
    BY <1>5 DEF Fit
  <2>3. PICK y : /\ y = EnsureServer(sup, q, marked) /\ Sound(y, NoOff, e, {})
                 /\ Turnless(sup, y)
    BY <1>1, <2>2, EnsureServerSound
  <2>4. sup' = y
    BY <1>8, <2>1, <2>3 DEF HealthAnswers, Becomes
  <2> QED BY <1>1, <2>3, <2>4, TurnlessEnters, SteadyGood
<1> QED BY <1>6, <1>7, <1>8

LEMMA AcquireStep ==
  ASSUME NEW c \in Clients, NEW change \in {0, 1}, NEW e \in BOOLEAN, Inv(e),
         Acquire(c, change)
  PROVE  Inv(e)' /\ Good(e)
<1>1. /\ Sound(sup, NoOff, e, {}) /\ Fits(sup, c, e) /\ sup \in Supervisor /\ Server(sup)
      /\ faults' \in 0..MaxFaults /\ c \in Procs /\ "holds" \in Kinds
  BY Faulty DEF Inv, Acquire, Event, Sound, Procs, Kinds
<1>2. PICK s \in Process : s = sup.p[c]
  BY <1>1, ProcessOf
<1>3. s.proc = "none" /\ ~s.lease /\ ~s.turn /\ ~s.entry /\ ~s.own /\ s.pid = NoPid
  BY <1>1, <1>2 DEF Acquire, Idle, At, Fits, Acts, Flags
<1>4. PICK rev \in 0..MaxRev : rev = sup.rev + change
  <2>1. sup.rev \in 0..MaxRev /\ sup.rev + change <= MaxRev
    BY <1>1 DEF Supervisor, Acquire
  <2> QED BY <2>1, BoundsAssumption
<1> DEFINE a == [sup EXCEPT !.rev = rev]
<1>5. /\ a \in Supervisor /\ Near(sup, a) /\ a.p = sup.p /\ a.use = sup.use
      /\ a.live = sup.live /\ a.exit = sup.exit
  <2>1. rev >= sup.rev
    BY <1>1, <1>4, BoundsAssumption DEF Supervisor
  <2> QED BY <1>1, <1>4, <2>1 DEF Supervisor, Near, Server
<1> HIDE DEF a
<1>6. Sound(a, NoOff, e, {})
  BY <1>1, <1>5, NearSound
<1>7. FreeTasks(a) # {}
  BY <1>1, <1>5 DEF Acquire, Room, Server, FreeTasks
<1>8. PICK b : /\ b = ChangeUse(a, "holds", 1) /\ Sound(b, Off("holds"), e, {})
               /\ Used(a, b, "holds", 1)
  BY <1>1, <1>6, <1>7, AddUse
<1>9. PICK holds \in [Kinds -> Nat] : /\ holds = Off("holds") /\ holds["holds"] = 1
                                      /\ holds["turns"] = 0 /\ holds["leases"] = 0
  BY <1>1, OffIs DEF Kinds
<1> DEFINE v == [s EXCEPT !.proc = "acquire", !.entry = TRUE]
<1>10. /\ v \in Process /\ v.proc = "acquire" /\ v.entry /\ ~v.own /\ ~v.lease /\ ~v.turn
       /\ v.pid = NoPid /\ v.since = s.since
  BY <1>3 DEF Process
<1>11. [sup EXCEPT !.rev = @ + change, !.p[c].proc = "acquire", !.p[c].entry = TRUE]
         = Put(a, c, v)
  BY ZenonT(40), <1>1, <1>2, <1>4 DEF Put, Supervisor, a
<1> HIDE DEF v
<1>12. ChangeUse(Put(a, c, v), "holds", 1) = Put(b, c, v)
  <2>1. 1 \in Int
    OBVIOUS
  <2> QED BY <1>1, <1>5, <1>8, <1>10, <2>1, ChangePut
<1>13. PICK none : none = NoOff
  OBVIOUS
<1>14. ASSUME NEW k \in Kinds
       PROVE  none[k] \in Nat /\ none[k] = holds[k] + Weight(b.p[c], k) - Weight(v, k)
  <2>1. b.p[c] = s
    BY <1>2, <1>5, <1>8 DEF Used
  <2>2. /\ Weight(s, "holds") = 0 /\ Weight(v, "holds") = 1
        /\ Weight(s, "turns") = 0 /\ Weight(v, "turns") = 0
        /\ Weight(s, "leases") = 0 /\ Weight(v, "leases") = 0
    BY <1>3, <1>10 DEF Weight, Counts
  <2> QED BY <1>9, <1>13, <2>1, <2>2, OffIs DEF Kinds
<1>15. PICK x : x = Put(b, c, v) /\ Sound(x, none, e, {c}) /\ Alone(b, x, c) /\ x.p[c] = v
  <2>1. Sound(b, holds, e, {})
    BY <1>8, <1>9
  <2>2. v \in Process
    BY <1>10
  <2>3. LET x == Put(b, c, v)
        IN Sound(x, none, e, {c}) /\ Alone(b, x, c) /\ x.p[c] = v
    BY <1>14, <2>1, <2>2, PutClient
  <2> QED BY <2>3
<1>16. Sound(x, NoOff, e, {c})
  BY <1>13, <1>15
<1>17. /\ x.exit = sup.exit /\ x.live = sup.live /\ x.rev = rev /\ x.phase = sup.phase
       /\ \A r \in Clients : r # c => x.p[r] = sup.p[r]
  BY <1>5, <1>8, <1>15 DEF Alone, Used, Spares, Steady, Procs, Near, a, Supervisor
<1>18. Acts(x, v, e)
  <2>1. s.since <= rev
    <3>1. s.since <= sup.rev /\ s.since \in Nat
      BY <1>1, <1>2 DEF Fits, Acts, Process
    <3> QED BY <1>1, <1>4, <3>1 DEF Supervisor
  <2> QED BY <1>10, <1>17, <2>1 DEF Acts, Flags
<1>19. sup' = IF x.phase = "stopping" THEN Park(x, c, "stop")
              ELSE ReplaceServerIfRequested(x, c)
  BY <1>11, <1>12, <1>15 DEF Acquire, Becomes
<1>20. c \notin Tasks
  BY ProcsAssumption
<1>21. CASE x.phase = "stopping"
  <2>1. "stop" \in Stages /\ Parkable(x, c, "stop", e)
    BY <1>10, <1>15, <1>18, <1>20 DEF Stages, OpWaits, Parkable, Stays, Places, Keeps
  <2>2. PICK y : y = Park(x, c, "stop") /\ Sound(y, NoOff, e, {}) /\ Parked(x, y, c, "stop")
    BY <1>1, <1>16, <2>1, ParkSound
  <2>3. Calm(sup, y)
    <3>1. y.p[c] = [v EXCEPT !.at = "stop", !.go = "no"]
      BY <1>15, <2>2 DEF Parked
    <3>2. ~y.p[c].turn
      BY <1>10, <3>1 DEF Process
    <3> QED BY <1>17, <2>2, <3>2 DEF Calm, Parked, Alone, Spares, Steady, Procs
  <2> QED BY <1>1, <1>19, <1>21, <2>2, <2>3, CalmGood
<1>22. CASE x.phase # "stopping"
  <2>1. MayReplace(x, c, e)
    BY <1>10, <1>15, <1>18, <1>20, <1>22 DEF MayReplace, Stopping
  <2>2. x.p[c].proc # "again"
    BY <1>10, <1>15
  <2>3. PICK y : /\ y = ReplaceServerIfRequested(x, c) /\ Sound(y, NoOff, e, {})
                 /\ Acted(x, y, c)
    BY <1>1, <1>16, <2>1, <2>2, RequestedSound
  <2>4. Calm(sup, y)
    BY <1>10, <1>15, <1>17, <2>3 DEF Calm, Acted, Steady, Procs
  <2> QED BY <1>1, <1>19, <1>22, <2>3, <2>4, CalmGood
<1> QED BY <1>21, <1>22

LEMMA SettleStep ==
  ASSUME NEW c \in Clients, NEW e \in BOOLEAN, Inv(e), Settle(c)
  PROVE  Inv(e)' /\ Good(e)
<1>1. /\ Sound(sup, NoOff, e, {}) /\ Fits(sup, c, e) /\ sup \in Supervisor
      /\ faults' \in 0..MaxFaults /\ c \in Procs /\ "holds" \in Kinds
  BY Faulty DEF Inv, Settle, Event, Sound, Procs, Kinds
<1>2. PICK s \in Process : s = sup.p[c]
  BY <1>1, ProcessOf
<1>3. s.proc = "none" /\ s.lease /\ s.entry /\ ~s.turn /\ ~s.own
  BY <1>1, <1>2 DEF Settle, Idle, At, Fits, Acts, Flags
<1> DEFINE v == [s EXCEPT !.entry = FALSE, !.pid = NoPid]
<1>4. /\ v \in Process /\ v.proc = s.proc /\ v.at = s.at /\ v.go = s.go /\ v.since = s.since
      /\ v.own = s.own /\ ~v.entry /\ v.lease /\ ~v.turn /\ v.pid = NoPid
  BY <1>3 DEF Process
<1>5. [sup EXCEPT !.p[c].entry = FALSE, !.p[c].pid = NoPid] = Put(sup, c, v)
  BY <1>1, <1>2 DEF Put, Supervisor
<1> HIDE DEF v
<1>6. PICK holds \in [Kinds -> Nat] : /\ holds = Off("holds") /\ holds["holds"] = 1
                                      /\ holds["turns"] = 0 /\ holds["leases"] = 0
                                      /\ [holds EXCEPT !["holds"] = @ - 1] = NoOff
  BY <1>1, OffIs DEF Kinds
<1>7. ASSUME NEW k \in Kinds
      PROVE  holds[k] \in Nat /\ holds[k] = NoOff[k] + Weight(sup.p[c], k) - Weight(v, k)
  <2>1. /\ Weight(s, "holds") = 1 /\ Weight(v, "holds") = 0
        /\ Weight(s, "turns") = 0 /\ Weight(v, "turns") = 0
        /\ Weight(s, "leases") = 1 /\ Weight(v, "leases") = 1
    BY <1>3, <1>4 DEF Weight, Counts
  <2> QED BY <1>2, <1>6, <2>1, OffIs DEF Kinds
<1>8. PICK z : z = Put(sup, c, v) /\ Sound(z, holds, e, {c}) /\ Alone(sup, z, c) /\ z.p[c] = v
  <2>1. v \in Process
    BY <1>4
  <2>2. LET z == Put(sup, c, v)
        IN Sound(z, holds, e, {c}) /\ Alone(sup, z, c) /\ z.p[c] = v
    <3>1. PICK none : none = NoOff
      OBVIOUS
    <3>2. \A k \in Kinds :
            holds[k] \in Nat /\ holds[k] = none[k] + Weight(sup.p[c], k) - Weight(v, k)
      BY <1>7, <3>1
    <3>3. Sound(sup, none, e, {})
      BY <1>1, <3>1
    <3> QED BY <2>1, <3>2, <3>3, PutClient
  <2> QED BY <2>2
<1>9. Fits(z, c, e)
  <2>1. z \in Supervisor
    BY <1>8 DEF Sound
  <2>2. v.pid \in {s.pid, NoPid} /\ s.proc # "acquire"
    BY <1>3, <1>4
  <2> QED BY <1>1, <1>2, <1>3, <1>4, <1>8, <2>1, <2>2, ShedFits
<1>10. Sound(z, holds, e, {})
  BY <1>1, <1>8, <1>9, ClosedSound
<1>11. PICK y : y = DropHold(z) /\ Sound(y, NoOff, e, {}) /\ Dropped(z, y)
  BY <1>6, <1>10, DropHoldSound
<1>12. Calm(sup, y)
  BY <1>4, <1>8, <1>11 DEF Calm, Dropped, Alone, Spares, Steady, Procs
<1>13. sup' = y
  BY <1>5, <1>8, <1>11 DEF Settle, Becomes
<1> QED BY <1>1, <1>11, <1>12, <1>13, CalmGood

LEMMA ReleaseStep ==
  ASSUME NEW c \in Clients, NEW e \in BOOLEAN, Inv(e), Release(c)
  PROVE  Inv(e)' /\ Good(e)
<1>1. Sound(sup, NoOff, e, {}) /\ faults' \in 0..MaxFaults /\ sup.p[c].lease
  BY Faulty DEF Inv, Release, Event, At
<1>2. PICK x : /\ x = IF sup.p[c].turn THEN EndedTurn(sup, c) ELSE sup
               /\ Sound(x, NoOff, e, {}) /\ Ended(sup, x, c)
  <2>1. CASE sup.p[c].turn
    BY <1>1, <2>1, EndedTurnSound
  <2>2. CASE ~sup.p[c].turn
    BY <1>1, <2>2 DEF Ended, Steady
  <2> QED BY <2>1, <2>2
<1>3. PICK y : y = Released(x, c) /\ Sound(y, NoOff, e, {}) /\ Turnless(x, y)
  BY <1>1, <1>2, ReleasedSound DEF Ended
<1>4. Calm(sup, y)
  BY <1>2, <1>3 DEF Calm, Turnless, Ended, Steady
<1>5. sup' = y
  BY <1>2, <1>3 DEF Release, Becomes, At
<1> QED BY <1>1, <1>3, <1>4, <1>5, CalmGood

LEMMA ReleaseAndStopIfStartedStep ==
  ASSUME NEW c \in Clients, NEW e \in BOOLEAN, Inv(e), ReleaseAndStopIfStarted(c)
  PROVE  Inv(e)' /\ Good(e)
<1>1. /\ Sound(sup, NoOff, e, {}) /\ Fits(sup, c, e) /\ faults' \in 0..MaxFaults
      /\ sup.p[c].lease /\ ~sup.p[c].turn
  BY Faulty DEF Inv, ReleaseAndStopIfStarted, Event, At, Idle, Sound, Procs, Fits, Acts, Flags
<1>2. PICK x : x = Released(sup, c) /\ Sound(x, NoOff, e, {}) /\ Turnless(sup, x)
  BY <1>1, ReleasedSound
<1>3. CASE sup' = x
  BY <1>1, <1>2, <1>3, CalmGood DEF Calm, Turnless, Steady
<1>4. CASE sup' # x
  <2>1. sup' = Shutdown(x) /\ ~InUse(x)
    BY <1>2, <1>4 DEF ReleaseAndStopIfStarted, Becomes
  <2>2. PICK y : y = Shutdown(x) /\ Sound(y, NoOff, e, {}) /\ Steady(x, y) /\ y.p = x.p
    BY <1>2, <2>1, ShutdownSound
  <2>3. Calm(sup, y)
    BY <1>2, <2>2 DEF Calm, Turnless, Steady
  <2> QED BY <1>1, <2>1, <2>2, <2>3, CalmGood
<1> QED BY <1>3, <1>4

LEMMA BeginTurnStep ==
  ASSUME NEW c \in Clients, NEW e \in BOOLEAN, Inv(e), BeginTurn(c)
  PROVE  Inv(e)' /\ Good(e)
<1>1. /\ Sound(sup, NoOff, e, {}) /\ Fits(sup, c, e) /\ sup \in Supervisor /\ Server(sup)
      /\ faults' \in 0..MaxFaults /\ c \in Procs /\ "holds" \in Kinds
  BY Faulty DEF Inv, BeginTurn, Event, Sound, Procs, Kinds
<1>2. PICK s \in Process : s = sup.p[c]
  BY <1>1, ProcessOf
<1>3. s.proc = "none" /\ s.lease /\ ~s.turn /\ ~s.own
  BY <1>1, <1>2 DEF BeginTurn, Idle, At, Fits, Acts, Flags
<1>4. PICK off \in [Kinds -> Nat] :
        /\ off["leases"] = 0 /\ off["turns"] = 0
        /\ off["holds"] = IF s.entry THEN 0 ELSE 1
        /\ off = IF s.entry THEN NoOff ELSE Off("holds")
  BY <1>1, OffIs DEF Kinds
<1>5. PICK b : /\ b = IF s.entry THEN sup ELSE ChangeUse(sup, "holds", 1)
               /\ Sound(b, off, e, {}) /\ Spares(sup, b) /\ b.p = sup.p
  <2>1. CASE s.entry
    BY <1>1, <1>4, <2>1 DEF Spares, Steady
  <2>2. CASE ~s.entry
    <3>1. FreeTasks(sup) # {}
      BY <1>1 DEF BeginTurn, Room, Server
    <3>2. PICK b : /\ b = ChangeUse(sup, "holds", 1) /\ Sound(b, Off("holds"), e, {})
                   /\ Used(sup, b, "holds", 1)
      BY <1>1, <3>1, AddUse
    <3> QED BY <1>4, <2>2, <3>2 DEF Used
  <2> QED BY <2>1, <2>2
<1>6. b \in Supervisor
  BY <1>5 DEF Sound
<1> DEFINE v == [s EXCEPT !.proc = "begin", !.entry = FALSE, !.own = TRUE]
<1>7. /\ v \in Process /\ v.proc = "begin" /\ ~v.entry /\ v.own /\ v.lease /\ ~v.turn
      /\ v.since = s.since
  BY <1>3 DEF Process
<1>8. [b EXCEPT !.p[c].proc = "begin", !.p[c].entry = FALSE, !.p[c].own = TRUE]
        = Put(b, c, v)
  <2>1. b.p[c] = s
    BY <1>2, <1>5
  <2> QED BY ZenonT(40), <1>1, <1>6, <2>1 DEF Put, Supervisor
<1> HIDE DEF v
<1>9. PICK none : none = NoOff
  OBVIOUS
<1>10. ASSUME NEW k \in Kinds
       PROVE  none[k] \in Nat /\ none[k] = off[k] + Weight(b.p[c], k) - Weight(v, k)
  <2>1. b.p[c] = s
    BY <1>2, <1>5
  <2>2. /\ Weight(s, "holds") = (IF s.entry THEN 1 ELSE 0) /\ Weight(v, "holds") = 1
        /\ Weight(s, "turns") = 0 /\ Weight(v, "turns") = 0
        /\ Weight(s, "leases") = 1 /\ Weight(v, "leases") = 1
    BY <1>3, <1>7 DEF Weight, Counts
  <2> QED BY <1>4, <1>9, <2>1, <2>2, OffIs DEF Kinds
<1>11. PICK x : x = Put(b, c, v) /\ Sound(x, none, e, {c}) /\ Alone(b, x, c) /\ x.p[c] = v
  <2>1. v \in Process
    BY <1>7
  <2>2. Sound(b, off, e, {})
    BY <1>5
  <2>3. LET x == Put(b, c, v)
        IN Sound(x, none, e, {c}) /\ Alone(b, x, c) /\ x.p[c] = v
    BY <1>10, <2>1, <2>2, PutClient
  <2> QED BY <2>3
<1>12. Sound(x, NoOff, e, {c})
  BY <1>9, <1>11
<1>13. /\ x.exit = sup.exit /\ x.live = sup.live /\ x.rev = sup.rev
       /\ \A r \in Clients : r # c => x.p[r] = sup.p[r]
  BY <1>5, <1>11 DEF Alone, Spares, Steady, Procs
<1>14. Acts(x, v, e)
  <2>1. s.since <= sup.rev
    BY <1>1, <1>2 DEF Fits, Acts
  <2> QED BY <1>7, <1>13, <2>1 DEF Acts, Flags
<1>15. MayReplace(x, c, e) /\ x.p[c].proc # "again"
  BY <1>7, <1>11, <1>14, ProcsAssumption DEF MayReplace
<1>16. PICK y : /\ y = ReplaceServerIfRequested(x, c) /\ Sound(y, NoOff, e, {})
                /\ Acted(x, y, c)
  BY <1>1, <1>12, <1>15, RequestedSound
<1>17. Calm(sup, y)
  BY <1>7, <1>11, <1>13, <1>16 DEF Calm, Acted, Steady, Procs
<1>18. sup' = y
  <2>1. b = IF At(c).entry THEN sup ELSE ChangeUse(sup, "holds", 1)
    BY <1>2, <1>5 DEF At
  <2> QED BY <1>8, <1>11, <1>16, <2>1 DEF BeginTurn, Becomes
<1> QED BY <1>1, <1>16, <1>17, <1>18, CalmGood

LEMMA RecoverBeforePromptStep ==
  ASSUME NEW c \in Clients, NEW e \in BOOLEAN, Inv(e), RecoverBeforePrompt(c)
  PROVE  Inv(e)' /\ Good(e)
<1>1. /\ Sound(sup, NoOff, e, {}) /\ Fits(sup, c, e) /\ sup \in Supervisor
      /\ faults' \in 0..MaxFaults /\ c \in Procs /\ c \notin Tasks
  BY Faulty, ProcsAssumption DEF Inv, RecoverBeforePrompt, Event, Sound, Procs
<1>2. PICK s \in Process : s = sup.p[c]
  BY <1>1, ProcessOf
<1>3. s.proc = "none" /\ s.lease /\ s.turn /\ ~s.entry /\ ~s.own
  BY <1>1, <1>2 DEF RecoverBeforePrompt, Idle, At, Fits, Acts, Flags
<1> DEFINE v == [s EXCEPT !.proc = "recover", !.tried = TRUE]
<1>4. /\ v \in Process /\ v.proc = "recover" /\ ~v.entry /\ ~v.own /\ v.lease /\ v.turn
      /\ v.since = s.since /\ v.lease = s.lease /\ v.entry = s.entry /\ v.own = s.own
      /\ v.turn = s.turn
  BY <1>3 DEF Process
<1>5. [sup EXCEPT !.p[c].proc = "recover", !.p[c].tried = TRUE] = Put(sup, c, v)
  BY <1>1, <1>2 DEF Put, Supervisor
<1> HIDE DEF v
<1>6. PICK x : x = Put(sup, c, v) /\ Sound(x, NoOff, e, {c}) /\ Alone(sup, x, c) /\ x.p[c] = v
  <2>1. v \in Process /\ Sound(sup, NoOff, e, {c})
    BY <1>1, <1>4, Runs
  <2>2. LET x == Put(sup, c, v)
        IN Sound(x, NoOff, e, {c}) /\ Alone(sup, x, c) /\ x.p[c] = v
    BY <1>1, <1>2, <1>4, <2>1, WriteSound
  <2> QED BY <2>2
<1>7. Starts(x, c, e)
  <2>1. Acts(sup, s, e)
    BY <1>1, <1>2 DEF Fits
  <2>2. Acts(x, v, e)
    BY <1>3, <1>4, <1>6, <2>1 DEF Acts, Flags, Alone, Spares, Steady, Stopping
  <2> QED BY <1>1, <1>4, <1>6, <2>2 DEF Starts, Calling
<1>8. PICK y : /\ y = ValidateServerForTurn(x, c) /\ Sound(y, NoOff, e, {}) /\ Turnless(x, y)
  BY <1>1, <1>4, <1>6, <1>7, ValidateSound
<1>9. Calm(sup, y)
  BY <1>2, <1>4, <1>6, <1>8 DEF Calm, Turnless, Alone, Spares, Steady, Procs
<1>10. sup' = y
  BY <1>5, <1>6, <1>8 DEF RecoverBeforePrompt, Becomes
<1> QED BY <1>1, <1>8, <1>9, <1>10, CalmGood

LEMMA EndTurnStep ==
  ASSUME NEW c \in Clients, NEW e \in BOOLEAN, Inv(e), EndTurn(c)
  PROVE  Inv(e)' /\ Good(e)
<1>1. Sound(sup, NoOff, e, {}) /\ faults' \in 0..MaxFaults /\ sup.p[c].turn
  BY Faulty DEF Inv, EndTurn, Event, At
<1>2. PICK y : y = EndedTurn(sup, c) /\ Sound(y, NoOff, e, {}) /\ Ended(sup, y, c)
  BY <1>1, EndedTurnSound
<1>3. sup' = y /\ Calm(sup, y)
  BY <1>2 DEF EndTurn, Becomes, Calm, Ended, Steady
<1> QED BY <1>1, <1>2, <1>3, CalmGood

LEMMA MarkUnresponsiveStep ==
  ASSUME NEW c \in Clients, NEW after \in BOOLEAN, NEW ends \in BOOLEAN, NEW e \in BOOLEAN,
         Inv(e), MarkUnresponsive(c, after, ends)
  PROVE  Inv(e)' /\ Good(e)
<1>1. /\ Sound(sup, NoOff, e, {}) /\ sup \in Supervisor /\ Server(sup)
      /\ faults' \in 0..MaxFaults /\ sup.p[c].turn
  BY Faulty DEF Inv, MarkUnresponsive, Sound, At
<1>2. PICK mark \in [pid : Pids \cup {NoPid}, after : BOOLEAN] :
        mark = [pid |-> sup.record,
                after |-> after \/ (sup.mark.pid = sup.record /\ sup.mark.after)]
  BY <1>1 DEF Supervisor
<1> DEFINE x == [sup EXCEPT !.mark = mark]
<1>3. /\ x \in Supervisor /\ Near(sup, x) /\ x.p = sup.p
      /\ x.live = sup.live /\ x.exit = sup.exit
  <2>1. sup.rev >= sup.rev
    BY <1>1, BoundsAssumption DEF Supervisor
  <2> QED BY <1>1, <2>1 DEF Supervisor, Near, Server
<1> HIDE DEF x
<1>4. Sound(x, NoOff, e, {})
  BY <1>1, <1>3, NearSound
<1>5. sup' = IF ends THEN EndedTurn(x, c) ELSE x
  BY <1>2, <1>3 DEF MarkUnresponsive, Becomes, x
<1>6. CASE ends
  <2>1. PICK y : y = EndedTurn(x, c) /\ Sound(y, NoOff, e, {}) /\ Ended(x, y, c)
    BY <1>1, <1>3, <1>4, EndedTurnSound
  <2>2. sup' = y /\ Calm(sup, y)
    BY <1>3, <1>5, <1>6, <2>1 DEF Calm, Ended, Steady
  <2> QED BY <1>1, <2>1, <2>2, CalmGood
<1>7. CASE ~ends
  BY <1>1, <1>3, <1>4, <1>5, <1>7, CalmGood DEF Calm
<1> QED BY <1>6, <1>7

LEMMA UpdateSettingsStep ==
  ASSUME NEW e \in BOOLEAN, Inv(e), UpdateSettings
  PROVE  Inv(e)' /\ Good(e)
<1>1. /\ Sound(sup, NoOff, e, {}) /\ sup \in Supervisor /\ Server(sup)
      /\ faults' \in 0..MaxFaults
  BY Faulty DEF Inv, UpdateSettings, Event, Sound
<1>2. PICK rev \in 0..MaxRev : rev = sup.rev + 1 /\ rev >= sup.rev
  <2>1. sup.rev \in 0..MaxRev /\ sup.rev < MaxRev
    BY <1>1 DEF Supervisor, UpdateSettings
  <2> QED BY <2>1, BoundsAssumption
<1> DEFINE x == [sup EXCEPT !.rev = rev]
<1>3. /\ x \in Supervisor /\ Near(sup, x) /\ x.p = sup.p /\ x.use = sup.use
      /\ x.live = sup.live /\ x.exit = sup.exit
  BY <1>1, <1>2 DEF Supervisor, Near, Server
<1> HIDE DEF x
<1>4. Sound(x, NoOff, e, {}) /\ (Unheld(x) => FreeTasks(x) # {})
  BY <1>1, <1>3, NearSound DEF UpdateSettings, Room, Unheld, FreeTasks
<1>5. PICK y : y = ReplaceOnceIdle(x) /\ Sound(y, NoOff, e, {}) /\ Clear(x, y)
  BY <1>4, ReplaceOnceIdleSound
<1>6. sup' = y /\ Calm(sup, y)
  BY <1>2, <1>3, <1>5 DEF UpdateSettings, Becomes, x, Calm, Clear, Steady
<1> QED BY <1>1, <1>5, <1>6, CalmGood

LEMMA WaitUntilCurrentStep ==
  ASSUME NEW e \in BOOLEAN, Inv(e), WaitUntilCurrent
  PROVE  Inv(e)' /\ Good(e)
<1>1. /\ Sound(sup, NoOff, e, {}) /\ sup \in Supervisor /\ Server(sup)
      /\ faults' \in 0..MaxFaults
  BY Faulty DEF Inv, WaitUntilCurrent, Event, Sound
<1> DEFINE x == [sup EXCEPT !.waiter = "waits"]
<1>2. /\ x \in Supervisor /\ Near(sup, x) /\ x.p = sup.p /\ x.use = sup.use
      /\ x.live = sup.live /\ x.exit = sup.exit
  <2>1. sup.rev >= sup.rev
    BY <1>1, BoundsAssumption DEF Supervisor
  <2> QED BY <1>1, <2>1 DEF Supervisor, Near, Server
<1> HIDE DEF x
<1>3. Sound(x, NoOff, e, {}) /\ (Unheld(x) => FreeTasks(x) # {})
  BY <1>1, <1>2, NearSound DEF WaitUntilCurrent, Room, Unheld, FreeTasks
<1>4. PICK y : y = ReplaceOnceIdle(x) /\ Sound(y, NoOff, e, {}) /\ Clear(x, y)
  BY <1>3, ReplaceOnceIdleSound
<1>5. sup' = y /\ Calm(sup, y)
  BY <1>2, <1>4 DEF WaitUntilCurrent, Becomes, x, Calm, Clear, Steady
<1> QED BY <1>1, <1>4, <1>5, CalmGood

LEMMA RequestReloadStep ==
  ASSUME NEW e \in BOOLEAN, Inv(e), RequestReload
  PROVE  Inv(e)' /\ Good(e)
<1>1. /\ Sound(sup, NoOff, e, {}) /\ sup \in Supervisor /\ Server(sup)
      /\ faults' \in 0..MaxFaults
  BY Faulty DEF Inv, RequestReload, Sound
<1> DEFINE x == [sup EXCEPT !.reload = TRUE]
<1>2. /\ x \in Supervisor /\ Near(sup, x) /\ x.p = sup.p /\ x.use = sup.use
      /\ x.live = sup.live /\ x.exit = sup.exit
  <2>1. sup.rev >= sup.rev
    BY <1>1, BoundsAssumption DEF Supervisor
  <2> QED BY <1>1, <2>1 DEF Supervisor, Near, Server
<1> HIDE DEF x
<1>3. Sound(x, NoOff, e, {}) /\ (Unheld(x) => FreeTasks(x) # {})
  BY <1>1, <1>2, NearSound DEF RequestReload, Room, Unheld, FreeTasks
<1>4. CASE Unheld(x)
  <2>1. PICK proc \in {"idle", "reload"} : proc = "reload"
    OBVIOUS
  <2>2. PICK y : y = StartsTask(x, proc) /\ Sound(y, NoOff, e, {}) /\ Clear(x, y)
    BY <1>3, <1>4, StartsTaskSound
  <2>3. sup' = y /\ Calm(sup, y)
    BY <1>2, <1>4, <2>1, <2>2 DEF RequestReload, Becomes, x, Calm, Clear, Steady
  <2> QED BY <1>1, <2>2, <2>3, CalmGood
<1>5. CASE ~Unheld(x)
  <2>1. sup' = x /\ Calm(sup, x)
    BY <1>2, <1>5 DEF RequestReload, Becomes, x, Calm
  <2> QED BY <1>1, <1>3, <2>1, CalmGood
<1> QED BY <1>4, <1>5

LEMMA OfficeStopsStep ==
  ASSUME NEW e \in BOOLEAN, Inv(e), OfficeStops
  PROVE  Inv(e)' /\ Good(e)
<1>1. /\ Sound(sup, NoOff, e, {}) /\ sup \in Supervisor /\ faults' \in 0..MaxFaults
  BY Faulty DEF Inv, OfficeStops, Event, Sound
<1>2. PICK true \in BOOLEAN : true = TRUE
  OBVIOUS
<1>3. Sound(sup, NoOff, true, {})
  BY <1>1, <1>2, Excusing
<1>4. PICK x : /\ x = Shutdown(sup) /\ Sound(x, NoOff, true, {}) /\ Steady(sup, x)
               /\ x.p = sup.p
  BY <1>2, <1>3, ShutdownSound
<1>5. PICK y : y = [x EXCEPT !.exit = "asked"] /\ Sound(y, NoOff, e, {})
  <2>1. Sound(x, NoOff, TRUE, {})
    BY <1>2, <1>4
  <2>2. Sound([x EXCEPT !.exit = "asked"], NoOff, e, {})
    BY <2>1, ExitSound
  <2> QED BY <2>2
<1>6. y.live = sup.live /\ y.exit = "asked" /\ y.p = sup.p
  BY <1>4, <1>5 DEF Steady, Sound, Supervisor
<1>7. sup' = y /\ Calm(sup, y)
  BY <1>4, <1>5, <1>6 DEF OfficeStops, Becomes, Calm
<1> QED BY <1>1, <1>5, <1>7, CalmGood

LEMMA IdleTimerFiresStep ==
  ASSUME NEW e \in BOOLEAN, Inv(e), IdleTimerFires
  PROVE  Inv(e)' /\ Good(e)
<1>1. /\ Sound(sup, NoOff, e, {}) /\ Server(sup) /\ faults' \in 0..MaxFaults
  BY Faulty DEF Inv, IdleTimerFires, Event, Sound
<1>2. ~InUse(sup)
  BY <1>1 DEF IdleTimerFires, Server
<1>3. PICK y : /\ y = Shutdown(sup) /\ Sound(y, NoOff, e, {}) /\ Steady(sup, y)
               /\ y.p = sup.p
  BY <1>1, <1>2, ShutdownSound
<1>4. sup' = y /\ Calm(sup, y)
  BY <1>3 DEF IdleTimerFires, Becomes, Calm, Steady
<1> QED BY <1>1, <1>3, <1>4, CalmGood

-----------------------------------------------------------------------------
(* The steps of the helper.                                                *)

\* The start or stop there is left in flight or ended, and no turn starts.
LEMMA HelperGood ==
  ASSUME NEW e \in BOOLEAN, NEW y, sup' = y, Sound(y, NoOff, e, {}),
         \A c \in Clients : y.p[c].turn <=> sup.p[c].turn,
         Spared(e), Emptied, faults' \in 0..MaxFaults
  PROVE  Inv(e)' /\ Good(e)
  BY DEF Inv, Good, Fresh

LEMMA StartRunsStep ==
  ASSUME NEW e \in BOOLEAN, Inv(e), StartRuns
  PROVE  Inv(e)' /\ Good(e)
<1>1. /\ Sound(sup, NoOff, e, {}) /\ sup \in Supervisor /\ Server(sup)
      /\ Counted(sup, NoOff) /\ \A r \in Procs : Fits(sup, r, e) /\ ~Ready(sup, r)
      /\ faults' \in 0..MaxFaults
  BY Faulty DEF Inv, StartRuns, Event, Quiet, Sound
<1>2. PICK launch \in [rev : 0..MaxRev, marked : BOOLEAN, pid : Pids \cup {NoPid}] :
        /\ launch = [sup.launch EXCEPT !.rev = sup.rev,
                                       !.pid = IF sup.launch.marked THEN sup.mark.pid ELSE NoPid]
        /\ launch.rev = sup.rev
  <2>1. PICK l \in [rev : 0..MaxRev, marked : BOOLEAN, pid : Pids \cup {NoPid}] : l = sup.launch
    BY <1>1 DEF Supervisor
  <2>2. PICK rev \in 0..MaxRev : rev = sup.rev
    BY <1>1 DEF Supervisor
  <2>3. PICK pid \in Pids \cup {NoPid} : pid = IF l.marked THEN sup.mark.pid ELSE NoPid
    BY <1>1 DEF Supervisor
  <2>4. /\ [l EXCEPT !.rev = rev, !.pid = pid]
              \in [rev : 0..MaxRev, marked : BOOLEAN, pid : Pids \cup {NoPid}]
        /\ [l EXCEPT !.rev = rev, !.pid = pid].rev = rev
    OBVIOUS
  <2> QED BY <2>1, <2>2, <2>3, <2>4
<1> DEFINE y == [sup EXCEPT !.step = "run", !.launch = launch]
<1>3. /\ y \in Supervisor /\ Steady(sup, y) /\ y.p = sup.p /\ y.use = sup.use
      /\ y.timer = sup.timer /\ y.stopAfter = sup.stopAfter /\ y.phase = sup.phase
      /\ y.step = "run" /\ y.launch = launch
  BY <1>1 DEF Supervisor, Steady
<1>4. sup' = y
  BY <1>1, <1>2 DEF StartRuns, Becomes, Supervisor
<1> HIDE DEF y
<1>5. Server(y)
  BY <1>1, <1>3 DEF StartRuns, Server, InUse, Unheld, FreeTasks, Steady
<1>6. Counted(y, NoOff)
  BY <1>1, <1>3, CountKept
<1>7. sup.phase = "starting" /\ ~Stopping(y, e) /\ ~Stopping(sup, e)
  BY <1>1, <1>3 DEF StartRuns, Server, Stopping
<1>8. ASSUME NEW r \in Procs PROVE Fits(y, r, e)
  <2>1. PICK s \in Process : s = sup.p[r]
    BY <1>1, ProcessOf
  <2>2. Fits(sup, r, e) /\ ~(s.at \in OpWaits /\ s.go # "no")
    BY <1>1, <2>1 DEF Ready
  <2>3. Awaits(y, s, e)
    BY <1>3, <1>7, <2>1, <2>2 DEF Fits, Awaits, Steady, OpWaits
  <2>4. ASSUME r \in Clients
        PROVE  Acts(y, s, e) /\ Stays(y, s, s.at, e)
    <3>1. Acts(sup, s, e) /\ Stays(sup, s, s.at, e)
      BY <2>1, <2>2, <2>4 DEF Fits
    <3>2. Acts(y, s, e)
      BY <1>3, <1>7, <3>1 DEF Acts, Steady
    <3>3. s.since <= sup.rev /\ s.since \in 0..MaxRev /\ sup.rev \in 0..MaxRev
      BY <1>1, <3>1 DEF Acts, Process, Supervisor
    <3>4. Newer(sup, s.since) => Newer(y, s.since)
      BY <1>2, <1>3, <3>3, BoundsAssumption DEF Newer, Steady
    <3>5. Stays(y, s, s.at, e)
      BY <1>3, <1>7, <3>1, <3>4 DEF Stays, Steady
    <3> QED BY <3>2, <3>5
  <2> QED BY <1>3, <2>1, <2>2, <2>3, <2>4 DEF Fits
<1>9. Sound(y, NoOff, e, {})
  BY <1>3, <1>5, <1>6, <1>8 DEF Sound
<1>10. Calm(sup, y)
  BY <1>3 DEF Calm, Steady
<1> QED BY <1>1, <1>4, <1>9, <1>10, CalmGood

\* A start ended: none of what is excused happens in this step, and a stop that
\* waited for it begins.
StartOver(e) ==
  Inv(e)' /\ Good(FALSE) /\ (sup.stopAfter => sup'.phase = "stopping")

LEMMA StartEndsStep ==
  ASSUME NEW reached \in BOOLEAN, NEW e \in BOOLEAN, Inv(e), StartEnds(reached),
         Excused(sup, e)
  PROVE  StartOver(e)
<1>1. /\ Sound(sup, NoOff, e, {}) /\ sup \in Supervisor /\ Server(sup)
      /\ \A r \in Procs : ~Ready(sup, r)
      /\ faults' \in 0..MaxFaults /\ sup.step = "run" /\ sup.live \subseteq {sup.disk}
  BY Faulty DEF Inv, StartEnds, Event, Fault, Quiet, Sound, Server
<1>2. CASE reached /\ Adoptable(sup)
  <2>1. sup.disk \in Pids /\ sup.has[sup.disk] = sup.launch.rev
    BY <1>1, <1>2 DEF Adoptable, Supervisor
  <2>2. Same(sup, sup)
    BY DEF Same
  <2>3. PICK y : /\ y = Started(sup, sup.disk) /\ Sound(y, NoOff, e, {})
                 /\ y.live = sup.live /\ y.exit = sup.exit
                 /\ sup.stopAfter => y.phase = "stopping"
                 /\ \A c \in Clients : y.p[c].turn <=> sup.p[c].turn
    BY <1>1, <2>1, <2>2, StartedSound
  <2>4. sup' = y /\ Calm(sup, y)
    BY <1>2, <2>3 DEF StartEnds, Becomes, Calm
  <2>5. Good(FALSE)
    BY <2>4 DEF Calm, Good, Fresh, Spared, Kills, Emptied
  <2> QED BY <1>1, <2>3, <2>4, <2>5 DEF StartOver, Inv
<1>3. CASE ~(reached /\ Adoptable(sup))
  <2>1. PICK new \in Pids : new = CHOOSE i \in UnusedPids(sup) : TRUE
    BY <1>3 DEF StartEnds, UnusedPids
  <2> DEFINE live == (sup.live \ {sup.disk}) \cup {new}
             has == [sup.has EXCEPT ![new] = sup.launch.rev]
             x == [sup EXCEPT !.live = live, !.has = has]
  <2>2. live \in SUBSET Pids /\ live = {new}
    BY <1>1 DEF Supervisor
  <2>3. has \in [Pids -> 0..MaxRev] /\ has[new] = sup.launch.rev
    BY <1>1 DEF Supervisor
  <2>4. sup' = Started(x, new)
    BY <1>1, <1>3, <2>1 DEF StartEnds, Becomes, Supervisor
  <2> HIDE DEF live, has
  <2>5. /\ x \in Supervisor /\ Same(sup, x) /\ x.live \subseteq {new}
        /\ x.has[new] = sup.launch.rev
    BY <1>1, <2>2, <2>3 DEF Supervisor, Same
  <2> HIDE DEF x
  <2>6. PICK y : /\ y = Started(x, new) /\ Sound(y, NoOff, e, {})
                 /\ y.live = x.live /\ y.exit = sup.exit
                 /\ sup.stopAfter => y.phase = "stopping"
                 /\ \A c \in Clients : y.p[c].turn <=> sup.p[c].turn
    BY <1>1, <2>5, StartedSound
  <2>7. Spared(FALSE)
    <3> SUFFICES ASSUME NEW i \in Pids, Kills(i), faults' >= faults
                 PROVE  i = sup.launch.pid \/ sup.has[i] # sup.launch.rev
      BY <1>1, BoundsAssumption DEF Spared, Inv
    <3>1. i = sup.disk /\ i \in sup.live
      BY <1>1 DEF Kills
    <3>2. ~Adoptable(sup)
      <4>1. ~Fault
        BY <1>1, BoundsAssumption DEF Fault, Inv
      <4> QED BY <1>3, <4>1 DEF StartEnds
    <3> QED BY <3>1, <3>2 DEF Adoptable
  <2>8. Emptied
    BY <2>4, <2>6 DEF Emptied
  <2>9. Fresh(FALSE)
    BY <2>4, <2>6 DEF Fresh
  <2> QED BY <1>1, <2>4, <2>6, <2>7, <2>8, <2>9 DEF StartOver, Inv, Good
<1> QED BY <1>2, <1>3

LEMMA StartFailsStep ==
  ASSUME NEW e \in BOOLEAN, Inv(e), StartFails, Excused(sup, e)
  PROVE  StartOver(e)
<1>1. /\ Sound(sup, NoOff, e, {}) /\ \A r \in Procs : ~Ready(sup, r)
      /\ faults' \in 0..MaxFaults /\ sup.step \in {"write", "run"} /\ faults' < faults
  BY Faulty, BoundsAssumption DEF Inv, StartFails, Fault, Quiet
<1>2. PICK dead : sup' = StartFailed(sup, dead)
  BY DEF StartFails, Becomes, StartFailed
<1>3. /\ Sound(sup', NoOff, e, {}) /\ sup'.exit = sup.exit
      /\ sup.stopAfter => sup'.phase = "stopping"
      /\ \A c \in Clients : sup'.p[c].turn <=> sup.p[c].turn
  <2>1. LET y == StartFailed(sup, dead)
        IN /\ Sound(y, NoOff, e, {}) /\ y.exit = sup.exit
           /\ sup.stopAfter => y.phase = "stopping"
           /\ \A c \in Clients : y.p[c].turn <=> sup.p[c].turn
    BY <1>1, StartFailsSound
  <2> QED BY <1>2, <2>1
<1>4. Good(FALSE)
  BY <1>1, <1>3 DEF Good, Fresh, Spared, Emptied
<1> QED BY <1>1, <1>3, <1>4 DEF StartOver, Inv

\* Where a stop is in flight, its server is not used.
LEMMA Unused ==
  ASSUME NEW e \in BOOLEAN, Sound(sup, NoOff, e, {}), sup.phase = "stopping",
         NEW i \in Pids, NEW c \in Clients, Uses(c, i)
  PROVE  e \/ sup.exit # "no"
<1>1. Fits(sup, c, e)
  BY DEF Sound, Procs
<1> QED BY <1>1, PidsAssumption DEF Fits, Acts, Stopping, Uses

LEMMA StopKillsStep ==
  ASSUME NEW killed \in BOOLEAN, NEW e \in BOOLEAN, Inv(e), StopKills(killed)
  PROVE  Inv(e)' /\ Good(e)
<1>1. /\ Sound(sup, NoOff, e, {}) /\ sup \in Supervisor /\ Server(sup)
      /\ \A r \in Procs : ~Ready(sup, r)
      /\ faults' \in 0..MaxFaults /\ sup.step = "kill" /\ sup.phase = "stopping"
      /\ sup.live \subseteq {sup.disk}
  BY Faulty DEF Inv, StopKills, Event, Fault, Quiet, Sound, Server
<1>2. killed \/ faults' < faults
  BY BoundsAssumption DEF Inv, StopKills, Fault
<1>3. Spared(e)
  BY <1>1, Unused DEF Spared
<1> DEFINE x == IF killed THEN [sup EXCEPT !.live = @ \ {sup.disk}, !.disk = NoPid] ELSE sup
<1>4. /\ x \in Supervisor /\ Same(sup, x) /\ x.has = sup.has /\ x.live \subseteq {x.disk}
      /\ x.phase = sup.phase /\ x.record = sup.record /\ x.exit = sup.exit
      /\ x.launch = sup.launch /\ x.timer = sup.timer /\ x.p = sup.p
      /\ x.stopAfter = sup.stopAfter
      /\ killed => x.live = {}
  <2>1. CASE killed
    <3>1. sup.live \ {sup.disk} = {}
      BY <1>1
    <3>2. x = [sup EXCEPT !.live = {}, !.disk = NoPid]
      BY <1>1, <2>1, <3>1 DEF Supervisor
    <3> HIDE DEF x
    <3> QED BY <1>1, <3>2 DEF Supervisor, Same
  <2>2. CASE ~killed
    BY <1>1, <2>2 DEF Same
  <2> QED BY <2>1, <2>2
<1>5. sup' = IF sup.replace THEN [x EXCEPT !.reload = FALSE, !.step = "remove"]
             ELSE Stopped(SetServer(x, "none", NoPid), "ok")
  BY DEF StopKills, Becomes
<1> HIDE DEF x
<1>6. CASE sup.replace
  <2> DEFINE y == [x EXCEPT !.reload = FALSE, !.step = "remove"]
  <2>1. y \in Supervisor
    BY <1>4 DEF Supervisor
  <2>2. Near(sup, y) /\ y.p = sup.p /\ y.exit = sup.exit
    <3>1. sup.rev >= sup.rev
      BY <1>1, BoundsAssumption DEF Supervisor
    <3> QED BY <1>1, <1>4, <3>1 DEF Supervisor, Near, Same
  <2>3. sup' = y
    BY <1>5, <1>6
  <2> HIDE DEF y
  <2>4. Sound(y, NoOff, e, {})
    BY <1>1, <2>1, <2>2, NearSound
  <2>5. Emptied
    BY <2>2, <2>3 DEF Emptied
  <2> QED BY <1>1, <1>3, <2>2, <2>3, <2>4, <2>5, HelperGood
<1>7. CASE ~sup.replace
  <2>1. PICK phase \in {"none", "starting", "running", "stopping"} : phase = "none"
    OBVIOUS
  <2>2. PICK record \in Pids \cup {NoPid} : record = NoPid
    OBVIOUS
  <2>3. PICK z \in Supervisor : z = SetServer(x, phase, record) /\ Phased(x, z, phase, record)
    BY <1>4, SetServerIs
  <2>4. PICK how \in {"ok", "fail"} : how = "ok"
    OBVIOUS
  <2>5. Same(sup, z) /\ z.live = x.live /\ z.disk = x.disk
    BY <1>4, <2>3 DEF Phased, Same
  <2>6. PICK y : /\ y = Stopped(z, how) /\ Sound(y, NoOff, e, {})
                 /\ y.live = z.live /\ y.disk = z.disk
                 /\ \A c \in Clients : y.p[c].turn <=> sup.p[c].turn
    <3>1. /\ z.has = sup.has /\ z.live \subseteq {z.disk} /\ ~z.timer
          /\ z.phase = "none" /\ z.record = NoPid
      BY <1>4, <2>1, <2>2, <2>3 DEF Phased
    <3>2. LET y == Stopped(z, how)
          IN /\ Sound(y, NoOff, e, {}) /\ y.live = z.live /\ y.disk = z.disk
             /\ \A c \in Clients : y.p[c].turn <=> sup.p[c].turn
      BY <1>1, <2>5, <3>1, StoppedSound
    <3> QED BY <3>2
  <2>7. sup' = y
    BY <1>5, <1>7, <2>1, <2>2, <2>3, <2>4, <2>6
  <2>8. Emptied
    BY <1>2, <1>4, <2>5, <2>6, <2>7 DEF Emptied
  <2> QED BY <1>1, <1>3, <2>6, <2>7, <2>8, HelperGood
<1> QED BY <1>6, <1>7

LEMMA StopRemovesStep ==
  ASSUME NEW ok \in BOOLEAN, NEW e \in BOOLEAN, Inv(e), StopRemoves(ok)
  PROVE  Inv(e)' /\ Good(e)
<1>1. /\ Sound(sup, NoOff, e, {}) /\ sup \in Supervisor /\ Server(sup)
      /\ \A r \in Procs : ~Ready(sup, r)
      /\ faults' \in 0..MaxFaults /\ sup.step = "remove" /\ sup.phase = "stopping"
      /\ sup.live \subseteq {sup.disk}
  BY Faulty DEF Inv, StopRemoves, Event, Fault, Quiet, Sound, Server
<1>2. PICK phase \in {"none", "starting", "running", "stopping"} : phase = "none"
  OBVIOUS
<1>3. PICK record \in Pids \cup {NoPid} : record = NoPid
  OBVIOUS
<1>4. PICK z \in Supervisor : z = SetServer(sup, phase, record) /\ Phased(sup, z, phase, record)
  BY <1>1, SetServerIs
<1>5. PICK how \in {"ok", "fail"} : how = IF ok THEN "ok" ELSE "fail"
  OBVIOUS
<1> DEFINE marker == IF ok THEN FALSE ELSE z.marker
           x == [z EXCEPT !.marker = marker]
<1>6. /\ x \in Supervisor /\ Same(sup, x) /\ x.has = sup.has /\ x.live = sup.live
      /\ x.disk = sup.disk /\ ~x.timer /\ x.phase = "none" /\ x.record = NoPid
  <2>1. marker \in BOOLEAN
    BY DEF Supervisor
  <2> HIDE DEF marker
  <2> QED BY <1>2, <1>3, <1>4, <2>1 DEF Supervisor, Phased, Same
<1>7. sup' = Stopped(x, how)
  BY <1>2, <1>3, <1>4, <1>5 DEF StopRemoves, Becomes
<1> HIDE DEF x
<1>8. LET y == Stopped(x, how)
      IN /\ Sound(y, NoOff, e, {}) /\ y.live = x.live /\ y.disk = x.disk
         /\ \A c \in Clients : y.p[c].turn <=> sup.p[c].turn
  BY <1>1, <1>6, StoppedSound
<1>9. Spared(e) /\ Emptied
  BY <1>1, <1>6, <1>7, <1>8 DEF Spared, Emptied, Kills
<1> QED BY <1>1, <1>7, <1>8, <1>9, HelperGood

LEMMA StopFailsStep ==
  ASSUME NEW e \in BOOLEAN, Inv(e), StopFails
  PROVE  Inv(e)' /\ Good(e)
<1>1. /\ Sound(sup, NoOff, e, {}) /\ sup \in Supervisor /\ Server(sup)
      /\ faults' < faults /\ \A r \in Procs : ~Ready(sup, r)
      /\ faults' \in 0..MaxFaults /\ sup.phase = "stopping" /\ sup.live \subseteq {sup.disk}
  BY Faulty, BoundsAssumption DEF Inv, StopFails, Fault, Quiet, Sound, Server
<1>2. PICK phase \in {"none", "starting", "running", "stopping"} :
        phase = IF sup.record = NoPid THEN "none" ELSE "running"
  OBVIOUS
<1>3. PICK record \in Pids \cup {NoPid} : record = sup.record
  BY <1>1 DEF Supervisor
<1>4. PICK x \in Supervisor : x = SetServer(sup, phase, record) /\ Phased(sup, x, phase, record)
  BY <1>1, SetServerIs
<1>5. PICK how \in {"ok", "fail"} : how = "fail"
  OBVIOUS
<1>6. /\ Same(sup, x) /\ x.has = sup.has /\ x.live = sup.live /\ x.disk = sup.disk
      /\ x.timer => x.phase = "running" /\ ~InUse(x)
      /\ x.record = sup.record
      /\ x.phase = IF sup.record = NoPid THEN "none" ELSE "running"
  BY <1>2, <1>3, <1>4 DEF Phased, Same, InUse
<1>7. sup' = Stopped(x, how)
  BY <1>2, <1>3, <1>4, <1>5 DEF StopFails, Becomes
<1>8. LET y == Stopped(x, how)
      IN /\ Sound(y, NoOff, e, {}) /\ y.live = x.live /\ y.disk = x.disk
         /\ \A c \in Clients : y.p[c].turn <=> sup.p[c].turn
  BY <1>1, <1>5, <1>6, StoppedSound
<1>9. sup'.live = sup.live /\ sup'.disk = sup.disk
  BY <1>6, <1>7, <1>8
<1>10. Spared(e)
  BY <1>9 DEF Spared, Kills
<1>11. Emptied
  <2>1. sup'.live = {} \/ sup'.live = {sup'.disk}
    BY <1>1, <1>9
  <2> QED BY <1>1, <2>1 DEF Emptied
<1> QED BY <1>1, <1>7, <1>8, <1>10, <1>11, HelperGood

LEMMA CrashStep ==
  ASSUME NEW e \in BOOLEAN, Inv(e), Crash
  PROVE  Inv(e)' /\ Good(e)
<1>1. /\ Sound(sup, NoOff, e, {}) /\ sup \in Supervisor /\ faults' < faults
      /\ faults' \in 0..MaxFaults /\ sup.live \subseteq {sup.disk}
  BY Faulty, BoundsAssumption DEF Inv, Crash, Fault, Sound, Server
<1>2. PICK i \in sup.live : sup' = [sup EXCEPT !.live = @ \ {i}]
  BY DEF Crash, Becomes
<1> DEFINE live == sup.live \ {i}
<1>a. sup.live \in SUBSET Pids
  BY <1>1 DEF Supervisor
<1>3. live \in SUBSET Pids /\ live \subseteq {sup.disk}
  BY <1>1, <1>a
<1> DEFINE y == [sup EXCEPT !.live = live]
<1>4. y \in Supervisor
  BY <1>1 DEF Supervisor
<1>5. Near(sup, y) /\ y.p = sup.p /\ y.exit = sup.exit
  <2>1. sup.rev >= sup.rev
    BY <1>1, BoundsAssumption DEF Supervisor
  <2> QED BY <1>1, <1>3, <2>1 DEF Supervisor, Near
<1>6. sup' = y
  BY <1>2, <1>3
<1> HIDE DEF y
<1>7. Sound(y, NoOff, e, {})
  BY <1>1, <1>4, <1>5, NearSound
<1>8. Spared(e) /\ Emptied
  BY <1>1, <1>5, <1>6 DEF Spared, Emptied
<1> QED BY <1>1, <1>5, <1>6, <1>7, <1>8, HelperGood

-----------------------------------------------------------------------------
(* The invariant holds, and every step is good.                            *)

LEMMA InitSound ==
  ASSUME Init, NEW e \in BOOLEAN
  PROVE  Inv(e)
<1>1. PICK left \in {{}, {CHOOSE i \in Pids : TRUE}}, marker \in BOOLEAN :
         sup = [use |-> [k \in Kinds |-> 0], phase |-> "none", record |-> NoPid,
               timer |-> FALSE, stopAfter |-> FALSE, replace |-> FALSE,
               step |-> "none", launch |-> NoLaunch,
               disk |-> IF left = {} THEN NoPid ELSE CHOOSE i \in left : TRUE,
               live |-> left, has |-> [i \in Pids |-> 0], mark |-> NoMark,
               count |-> [pid |-> NoPid, n |-> 0], reload |-> FALSE,
               marker |-> marker, rev |-> 0,
               waiter |-> IF MaxWaits = 0 THEN "done" ELSE "no", exit |-> "no",
               p |-> [q \in Procs |-> Resting]]
  BY DEF Init
<1>2. PICK disk \in Pids \cup {NoPid} :
        /\ disk = IF left = {} THEN NoPid ELSE CHOOSE i \in left : TRUE
        /\ left \subseteq {disk} /\ left \in SUBSET Pids
  BY <1>1, PidsAssumption
<1>3. PICK waiter \in {"no", "waits", "done"} : waiter = IF MaxWaits = 0 THEN "done" ELSE "no"
  OBVIOUS
<1>4. Resting \in Process
  BY BoundsAssumption DEF Resting, Process, Stages
<1>5. /\ NoLaunch \in [rev : 0..MaxRev, marked : BOOLEAN, pid : Pids \cup {NoPid}]
      /\ NoMark \in [pid : Pids \cup {NoPid}, after : BOOLEAN]
      /\ [i \in Pids |-> 0] \in [Pids -> 0..MaxRev] /\ 0 \in 0..MaxRev
      /\ [k \in Kinds |-> 0] \in [Kinds -> Nat]
      /\ [pid |-> NoPid, n |-> 0] \in [pid : Pids \cup {NoPid}, n : 0..2]
  BY BoundsAssumption DEF NoLaunch, NoMark
<1> DEFINE p == [q \in Procs |-> Resting]
<1>6. p \in [Procs -> Process] /\ \A q \in Procs : p[q] = Resting
  BY <1>4
<1> HIDE DEF p
<1>7. sup \in Supervisor
  BY <1>1, <1>2, <1>3, <1>5, <1>6 DEF Supervisor, p
<1>8. /\ sup.use = [k \in Kinds |-> 0] /\ sup.phase = "none" /\ sup.record = NoPid
      /\ sup.timer = FALSE /\ sup.stopAfter = FALSE /\ sup.step = "none"
      /\ sup.disk = disk /\ sup.live = left /\ sup.rev = 0 /\ sup.p = p
  BY <1>1, <1>2 DEF p
<1>9. \A k \in Kinds : sup.use[k] = 0
  BY <1>8
<1>10. Server(sup)
  BY <1>2, <1>8, <1>9 DEF Server, Unheld, Kinds
<1>11. Counted(sup, NoOff)
  <2>1. ASSUME NEW k \in Kinds PROVE Users(sup, k) = {}
    <3>1. ~Counts(Resting, k)
      BY DEF Counts, Resting
    <3>2. \A c \in Clients : sup.p[c] = Resting
      BY <1>6, <1>8 DEF Procs
    <3> QED BY <3>1, <3>2 DEF Users
  <2>2. ASSUME NEW k \in Kinds
        PROVE  NoOff[k] \in Nat /\ sup.use[k] = Cardinality(Users(sup, k)) + NoOff[k]
    <3>1. Cardinality({}) = 0 /\ NoOff[k] = 0
      BY FS_EmptySet, OffIs
    <3> QED BY <1>9, <2>1, <2>2, <3>1
  <2> QED BY <2>2 DEF Counted
<1>12. ASSUME NEW r \in Procs PROVE Fits(sup, r, e)
  <2>1. sup.p[r] = Resting
    BY <1>6, <1>8
  <2>2. /\ Resting.proc = "none" /\ Resting.at = "rest" /\ Resting.go = "no"
        /\ ~Resting.entry /\ ~Resting.own /\ ~Resting.turn /\ Resting.pid = NoPid
        /\ Resting.since = 0 /\ ~Resting.lease
    BY DEF Resting
  <2>3. Awaits(sup, Resting, e)
    BY <2>2 DEF Awaits
  <2>4. Acts(sup, Resting, e)
    BY <1>8, <2>2 DEF Acts, Flags
  <2>5. Stays(sup, Resting, "rest", e)
    BY <2>2 DEF Stays, Places, Keeps
  <2> QED BY <2>1, <2>2, <2>3, <2>4, <2>5 DEF Fits, TaskFits
<1>13. faults \in 0..MaxFaults
  BY BoundsAssumption DEF Init
<1> QED BY <1>7, <1>10, <1>11, <1>12, <1>13 DEF Inv, Sound

EndsStart == StartFails \/ \E ok \in BOOLEAN : StartEnds(ok)

LEMMA EndsStartGood ==
  ASSUME NEW e \in BOOLEAN, Inv(e), EndsStart, Excused(sup, e)
  PROVE  StartOver(e) /\ Inv(e)' /\ Good(e)
<1>1. StartOver(e)
  BY StartEndsStep, StartFailsStep DEF EndsStart
<1> QED BY <1>1 DEF StartOver, Good, Fresh, Spared

LEMMA NextGood ==
  ASSUME NEW e \in BOOLEAN, Inv(e), [Next]_vars, EndsStart => Excused(sup, e)
  PROVE  Inv(e)' /\ Good(e)
<1>1. CASE Returns
  <2>1. PICK q \in Procs : \/ Resume(q) \/ MarkerRead(q)
                           \/ \E reached \in BOOLEAN : HealthAnswers(q, reached)
    BY <1>1 DEF Returns
  <2> QED BY <2>1, ResumeStep, MarkerReadStep, HealthAnswersStep
<1>2. CASE Helper
  <2>1. CASE EndsStart
    BY <2>1, EndsStartGood
  <2>2. CASE StartRuns \/ \E ok \in BOOLEAN : StopKills(ok) \/ StopRemoves(ok)
    BY <2>2, StartRunsStep, StopKillsStep, StopRemovesStep
  <2> QED BY <1>2, <2>1, <2>2 DEF Helper, EndsStart
<1>3. CASE Calls
  <2>1. PICK c \in Clients :
          \/ \E change \in {0, 1} : Acquire(c, change)
          \/ Settle(c) \/ Release(c) \/ ReleaseAndStopIfStarted(c) \/ BeginTurn(c)
          \/ RecoverBeforePrompt(c) \/ EndTurn(c)
          \/ \E after, ends \in BOOLEAN : MarkUnresponsive(c, after, ends)
    BY <1>3 DEF Calls
  <2>2. CASE \E change \in {0, 1} : Acquire(c, change)
    BY <2>2, AcquireStep
  <2>3. CASE Settle(c) \/ Release(c) \/ ReleaseAndStopIfStarted(c) \/ BeginTurn(c)
    BY <2>3, SettleStep, ReleaseStep, ReleaseAndStopIfStartedStep, BeginTurnStep
  <2>4. CASE RecoverBeforePrompt(c) \/ EndTurn(c)
    BY <2>4, RecoverBeforePromptStep, EndTurnStep
  <2>5. CASE \E after, ends \in BOOLEAN : MarkUnresponsive(c, after, ends)
    BY <2>5, MarkUnresponsiveStep
  <2> QED BY <2>1, <2>2, <2>3, <2>4, <2>5
<1>4. CASE UpdateSettings \/ WaitUntilCurrent \/ RequestReload \/ OfficeStops
  BY <1>4, UpdateSettingsStep, WaitUntilCurrentStep, RequestReloadStep, OfficeStopsStep
<1>5. CASE IdleTimerFires \/ StartFails \/ StopFails \/ Crash
  <2>1. CASE StartFails
    BY <2>1, EndsStartGood DEF EndsStart
  <2>2. CASE IdleTimerFires \/ StopFails \/ Crash
    BY <2>2, IdleTimerFiresStep, StopFailsStep, CrashStep
  <2> QED BY <1>5, <2>1, <2>2
<1>6. CASE UNCHANGED vars
  <2>1. Sound(sup, NoOff, e, {}) /\ faults' \in 0..MaxFaults /\ sup' = sup
    BY <1>6 DEF Inv, vars
  <2>2. Calm(sup, sup)
    BY DEF Calm
  <2> QED BY <2>1, <2>2, CalmGood
<1> QED BY <1>1, <1>2, <1>3, <1>4, <1>5, <1>6 DEF Next

\* Every step keeps the history variable.
LEMMA NextBecomes ==
  ASSUME Next
  PROVE  Becomes(sup')
<1>1. CASE Returns
  BY <1>1 DEF Returns, Resume, MarkerRead, HealthAnswers, Becomes
<1>2. CASE Helper
  BY <1>2 DEF Helper, StartRuns, StopKills, StopRemoves, StartEnds, Becomes
<1>3. CASE Calls
  <2>1. ASSUME NEW x, Becomes(x) PROVE Becomes(sup')
    BY <2>1 DEF Becomes
  <2>2. PICK c \in Clients :
          \/ \E change \in {0, 1} : Acquire(c, change)
          \/ Settle(c) \/ Release(c) \/ ReleaseAndStopIfStarted(c) \/ BeginTurn(c)
          \/ RecoverBeforePrompt(c) \/ EndTurn(c)
          \/ \E after, ends \in BOOLEAN : MarkUnresponsive(c, after, ends)
    BY <1>3 DEF Calls
  <2>3. CASE \E change \in {0, 1} : Acquire(c, change)
    BY <2>1, <2>3 DEF Acquire
  <2>4. CASE Settle(c) \/ Release(c) \/ ReleaseAndStopIfStarted(c) \/ BeginTurn(c)
    BY <2>1, <2>4 DEF Settle, Release, ReleaseAndStopIfStarted, BeginTurn
  <2>5. CASE RecoverBeforePrompt(c) \/ EndTurn(c)
    BY <2>1, <2>5 DEF RecoverBeforePrompt, EndTurn
  <2>6. CASE \E after, ends \in BOOLEAN : MarkUnresponsive(c, after, ends)
    BY <2>1, <2>6 DEF MarkUnresponsive
  <2> QED BY <2>2, <2>3, <2>4, <2>5, <2>6
<1>4. CASE UpdateSettings \/ WaitUntilCurrent \/ RequestReload \/ OfficeStops
  BY <1>4 DEF UpdateSettings, WaitUntilCurrent, RequestReload, OfficeStops, Becomes
<1>5. CASE IdleTimerFires \/ StartFails \/ StopFails \/ Crash
  BY <1>5 DEF IdleTimerFires, StartFails, StopFails, Crash, Becomes
<1> QED BY <1>1, <1>2, <1>3, <1>4, <1>5 DEF Next

\* The invariant of the specification.
IInv == overtaken \in BOOLEAN /\ Inv(overtaken)

\* The invariant after a step with the excuse `e', where overtaken' says so unless
\* nothing is held.
LEMMA IInvAfter ==
  ASSUME NEW e \in BOOLEAN, Inv(e)', overtaken' \in BOOLEAN,
         overtaken' \/ ~e \/ Unheld(sup')
  PROVE  IInv'
<1>1. Sound(sup', NoOff, e, {}) /\ faults' \in 0..MaxFaults
  BY DEF Inv
<1>2. PICK h \in BOOLEAN : h = overtaken'
  OBVIOUS
<1>3. Sound(sup', NoOff, h, {})
  <2>1. CASE h
    <3>1. Sound(sup', NoOff, TRUE, {})
      BY <1>1, Excusing
    <3> QED BY <2>1, <3>1
  <2>2. CASE ~h /\ ~e
    BY <1>1, <2>2
  <2>3. CASE ~h /\ Unheld(sup')
    <3>1. Sound(sup', NoOff, FALSE, {})
      BY <1>1, <2>3, Unexcused
    <3> QED BY <2>3, <3>1
  <2> QED BY <1>2, <2>1, <2>2, <2>3
<1> QED BY <1>1, <1>2, <1>3 DEF IInv, Inv

LEMMA IInvStep ==
  ASSUME IInv, [Next]_vars
  PROVE  IInv' /\ Good(overtaken)
<1>1. PICK e \in BOOLEAN : e = overtaken
  BY DEF IInv
<1>2. Inv(e)
  BY <1>1 DEF IInv
<1>3. /\ overtaken' \in BOOLEAN
      /\ e => overtaken' \/ Unheld(sup')
      /\ Next /\ Overtakes(sup') => overtaken' \/ Unheld(sup')
  <2>1. CASE Next
    BY <1>1, <2>1, NextBecomes DEF Becomes
  <2>2. CASE UNCHANGED vars /\ ~Next
    BY <1>1, <2>2 DEF vars
  <2> QED BY <2>1, <2>2
<1>4. CASE EndsStart => Excused(sup, e)
  <2>1. Inv(e)' /\ Good(e)
    BY <1>2, <1>4, NextGood
  <2> QED BY <1>1, <1>3, <2>1, IInvAfter
<1>5. CASE EndsStart /\ ~Excused(sup, e)
  <2>1. PICK t \in BOOLEAN : t = TRUE
    OBVIOUS
  <2>2. Inv(t) /\ Excused(sup, t)
    <3>1. Sound(sup, NoOff, TRUE, {})
      BY <1>2, Excusing DEF Inv
    <3> QED BY <1>2, <2>1, <3>1 DEF Inv, Excused
  <2>3. Inv(t)' /\ Good(FALSE) /\ (sup.stopAfter => sup'.phase = "stopping")
    BY <1>5, <2>2, EndsStartGood DEF StartOver
  <2>4. Next
    BY <1>5 DEF EndsStart, Next, Helper
  <2>5. overtaken' \/ Unheld(sup')
    BY <1>3, <1>5, <2>3, <2>4 DEF Excused, Overtakes
  <2>6. Good(e)
    BY <2>3 DEF Good, Fresh, Spared
  <2> QED BY <1>1, <1>3, <2>3, <2>5, <2>6, IInvAfter
<1> QED BY <1>4, <1>5

LEMMA IInvInit ==
  ASSUME Init
  PROVE  IInv
<1>1. overtaken = FALSE
  BY DEF Init
<1>2. PICK e \in BOOLEAN : e = overtaken
  BY <1>1
<1>3. Inv(e)
  BY InitSound
<1> QED BY <1>1, <1>2, <1>3 DEF IInv

\* The supervisor keeps its type through every composition of its methods, and
\* no release, end of a turn or failed call takes a count below zero
\* (supervisor.ts: changeUse, beginTurn, release).
THEOREM TypeCorrect == Spec => []TypeOK
<1>1. IInv => TypeOK
  BY DEF IInv, Inv, Sound, TypeOK
<1> QED BY <1>1, IInvInit, IInvStep, PTL DEF Spec

\* When the office's shutdown returns no server is left, one that a start brought
\* up meanwhile included (supervisor.ts: shutdown, stopAfterStart).
THEOREM ShutdownCorrect == Spec => ShutdownLeavesNothing
<1>1. IInv /\ [Next]_vars => Emptied
  BY IInvStep DEF Good
<1>2. Emptied => [(sup'.exit = "done" /\ sup.exit # "done") =>
                    \/ sup'.live = {}
                    \/ /\ faults' < faults \/ sup.step = "remove"
                       /\ sup'.live = {sup'.disk}]_vars
  BY DEF Emptied
<1> QED BY <1>1, <1>2, IInvInit, IInvStep, PTL DEF Spec, ShutdownLeavesNothing

\* Neither the idle stop nor a replacement takes down a server that a session has
\* a turn or held work on (supervisor.ts: shutdown, replaceServerIfRequested).
\* What a listing's stop takes that waited for a start is said by overtaken.
THEOREM StopsCorrect == Spec => StopsSpareUse
<1>1. IInv /\ [Next]_vars => Spared(overtaken)
  BY IInvStep DEF Good
<1>2. Spared(overtaken) =>
        [\A i \in Pids, c \in Clients :
           (Kills(i) /\ Uses(c, i)) =>
              \/ faults' < faults \/ sup.exit # "no" \/ overtaken
              \/ /\ sup.step = "run"
                 /\ i = sup.launch.pid \/ sup.has[i] # sup.launch.rev]_vars
  BY DEF Spared
<1> QED BY <1>1, <1>2, IInvInit, IInvStep, PTL DEF Spec, StopsSpareUse

\* A turn counts only on a server that no stop is taking down, one that overtakes
\* its users (overtaken) excepted, and that has the settings, unless someone
\* else's use kept it or they changed again (supervisor.ts: beginTurn,
\* validateServerForTurn).
THEOREM FreshCorrect == Spec => FreshTurn
<1>1. IInv /\ [Next]_vars => Fresh(overtaken)
  BY IInvStep DEF Good
<1>2. Fresh(overtaken) =>
        [\A c \in Clients :
           (sup'.p[c].turn /\ ~sup.p[c].turn) =>
              /\ \/ overtaken \/ sup.exit # "no"
                 \/ sup'.record # NoPid /\ sup'.phase # "stopping"
              /\ \/ ~RecordStale(sup')
                 \/ sup.p[c].proc = "again" /\ sup.p[c].at = "pending"
                 \/ /\ sup.p[c].proc \in {"again", "final"}
                    /\ sup.has[sup'.record] >= sup.p[c].since]_vars
  BY DEF Fresh
<1> QED BY <1>1, <1>2, IInvInit, IInvStep, PTL DEF Spec, FreshTurn
=============================================================================
