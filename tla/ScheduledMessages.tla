-------------------------- MODULE ScheduledMessages --------------------------
(***************************************************************************)
(* Messages that wait for a time (server/scheduled-messages.ts): schedule  *)
(* and cancel requests, the tick that hands due entries to the receivers'  *)
(* queues, the file the entries are kept in, and restarts.                 *)
(*                                                                         *)
(* A tick is one synchronous call, so no request interleaves with it; a    *)
(* crash does, and a tick is therefore several steps here. A write to the  *)
(* file is atomic (a temporary file, renamed) and may throw.               *)
(*                                                                         *)
(* A request names its sender, receiver, time and clientMessageId. It may  *)
(* arrive any number of times: HTTP clients retry. What is refused (in the *)
(* past, beyond the horizon, unknown agent, key already pending, quota)    *)
(* changes nothing and has no action. The clock never runs backwards, so   *)
(* an entry's id stands for createdAt in the order of delivery. Chat lines *)
(* (recordSent, the notice of a drop) are left out.                        *)
(***************************************************************************)
EXTENDS Naturals, FiniteSets

CONSTANTS
  Agents,       \* agents
  Reqs,         \* POST /api/agents/:id/messages requests with deliverAt
  From,         \* sender of a request
  To,           \* receiver of a request
  At,           \* deliverAt of a request
  Key,          \* clientMessageId of a request
  NoKey,        \* the request has none
  MaxPending,   \* MAX_PENDING_PER_SENDER
  Horizon,      \* MAX_HORIZON_MS
  Deadline,     \* DELIVERY_DEADLINE_MS
  SlowRestore,  \* the first tick may come before the agents are restored
  MaxClock,     \* bound: the clock
  MaxEntries,   \* bound: entries accepted
  MaxFails,     \* bound: writes that throw
  MaxCrashes    \* bound: crashes

ASSUME RequestsAssumption ==
  From \in [Reqs -> Agents] /\ To \in [Reqs -> Agents] /\ At \in [Reqs -> Nat]
ASSUME LimitsAssumption ==
  /\ MaxPending \in Nat /\ Horizon \in Nat /\ Deadline \in Nat
  /\ MaxClock \in Nat /\ MaxEntries \in Nat /\ MaxFails \in Nat /\ MaxCrashes \in Nat
  /\ SlowRestore \in BOOLEAN

VARIABLES
  now,        \* clock.now()
  office,     \* agents of the office, as agents.json lists them
  phase,      \* the server: down, restoring its agents, or up
  entries,    \* the manager's entries
  disk,       \* scheduled-messages.json
  ticking,    \* tickInProgress
  tickNow,    \* the tick's reading of the clock; 0 outside a tick
  due,        \* due entries the tick has not dealt with
  blocked,    \* blockedReceivers
  fired,      \* the entry handed over, until it is removed; a set of at most one
  issued,     \* entries accepted so far
  acked,      \* entries whose request was answered 200
  cancelled,  \* entries whose cancel was answered 204
  handed,     \* entries a receiver's queue has accepted
  thisBoot,   \* the same since the last boot
  again,      \* entries handed over twice between two boots
  excused,    \* entries dropped for a reason that was true
  fails,      \* writes that threw
  crashes     \* crashes so far

memory == <<entries, ticking, tickNow, due, blocked, fired>>
outcome == <<acked, cancelled, handed, thisBoot, again, excused>>
vars == <<now, office, phase, memory, disk, issued, outcome, fails, crashes>>

Entries == [id : 1..MaxEntries, req : Reqs]

Init ==
  /\ now = 0
  /\ office = Agents
  /\ phase = "up"
  /\ entries = {}
  /\ disk = {}
  /\ ticking = FALSE
  /\ tickNow = 0
  /\ due = {}
  /\ blocked = {}
  /\ fired = {}
  /\ issued = 0
  /\ acked = {}
  /\ cancelled = {}
  /\ handed = {}
  /\ thisBoot = {}
  /\ again = {}
  /\ excused = {}
  /\ fails = 0
  /\ crashes = 0

-----------------------------------------------------------------------------
(* The file and the agents.                                                *)

\* saveScheduledMessages of the entries es.
Saves(es) == disk' = es /\ UNCHANGED fails

\* A write that throws leaves the file as it was.
SaveThrows == fails < MaxFails /\ fails' = fails + 1 /\ UNCHANGED disk

\* The agents the manager finds: none before restoreAgents has put them back.
Known == IF phase = "up" THEN office ELSE {}

Serving == phase # "down" /\ ~ticking

-----------------------------------------------------------------------------
(* Requests.                                                               *)

\* deliverAt lies in the future and within the horizon.
InFuture(r) == At[r] > now /\ At[r] - now <= Horizon

\* A pending entry of the same sender under the same clientMessageId: the
\* request is answered with it, or refused if its payload differs.
Twins(r) == {e \in entries : Key[r] # NoKey /\ From[e.req] = From[r] /\ Key[e.req] = Key[r]}

Pending(a) == {e \in entries : From[e.req] = a}

QuotaLeft(a) == Cardinality(Pending(a)) < MaxPending

NewEntry(r) == [id |-> issued + 1, req |-> r]

\* Mutant: the entry of a failed write is kept in memory and acknowledged.
ScheduleInMemory(r) ==
  /\ Serving
  /\ InFuture(r)
  /\ {From[r], To[r]} \subseteq Known
  /\ Twins(r) = {}
  /\ QuotaLeft(From[r])
  /\ issued < MaxEntries
  /\ \/ Saves(entries \cup {NewEntry(r)})
     \/ SaveThrows
  /\ entries' = entries \cup {NewEntry(r)}
  /\ acked' = acked \cup {NewEntry(r)}
  /\ issued' = issued + 1
  /\ UNCHANGED <<now, office, phase, ticking, tickNow, due, blocked, fired,
                 cancelled, handed, thisBoot, again, excused, crashes>>

\* schedule: the entry is pushed and saved, or rolled back if the write throws.
Schedule(r) ==
  /\ Serving
  /\ InFuture(r)
  /\ {From[r], To[r]} \subseteq Known
  /\ Twins(r) = {}
  /\ QuotaLeft(From[r])
  /\ issued < MaxEntries
  /\ \/ /\ Saves(entries \cup {NewEntry(r)})
        /\ entries' = entries \cup {NewEntry(r)}
        /\ acked' = acked \cup {NewEntry(r)}
        /\ issued' = issued + 1
     \/ /\ SaveThrows
        /\ UNCHANGED <<entries, acked, issued>>
  /\ UNCHANGED <<now, office, phase, ticking, tickNow, due, blocked, fired,
                 cancelled, handed, thisBoot, again, excused, crashes>>

\* Mutant: a cancel is best effort, like the removal of a fired entry.
CancelBestEffort(e) ==
  /\ Serving
  /\ e \in entries
  /\ \/ Saves(entries \ {e})
     \/ SaveThrows
  /\ entries' = entries \ {e}
  /\ cancelled' = cancelled \cup {e}
  /\ UNCHANGED <<now, office, phase, ticking, tickNow, due, blocked, fired, issued,
                 acked, handed, thisBoot, again, excused, crashes>>

\* cancel by the sender: put back if the write throws. An entry that was fired
\* or cancelled is not found.
Cancel(e) ==
  /\ Serving
  /\ e \in entries
  /\ \/ /\ Saves(entries \ {e})
        /\ entries' = entries \ {e}
        /\ cancelled' = cancelled \cup {e}
     \/ /\ SaveThrows
        /\ UNCHANGED <<entries, cancelled>>
  /\ UNCHANGED <<now, office, phase, ticking, tickNow, due, blocked, fired, issued,
                 acked, handed, thisBoot, again, excused, crashes>>

-----------------------------------------------------------------------------
(* The tick.                                                               *)

\* The timers run from boot on. The first tick comes 5 s later, usually after
\* the agents are restored.
Tick ==
  /\ phase = "up" \/ (phase = "restoring" /\ SlowRestore)
  /\ ~ticking
  /\ due' = {e \in entries : At[e.req] <= now}
  /\ due' # {}
  /\ ticking' = TRUE
  /\ tickNow' = now
  /\ blocked' = {}
  /\ UNCHANGED <<now, office, phase, entries, disk, fired, issued, outcome, fails, crashes>>

\* The order of delivery: by deliverAt, then by age.
Before(e, f) ==
  \/ At[e.req] < At[f.req]
  \/ At[e.req] = At[f.req] /\ e.id < f.id

\* e is the entry the loop reaches next: entries of blocked receivers are passed over.
Reached(e) ==
  /\ ticking
  /\ fired = {}
  /\ e \in due
  /\ To[e.req] \notin blocked
  /\ \A f \in due \ {e} : To[f.req] \in blocked \/ Before(e, f)

\* Mutant: an entry that cannot be delivered is retried for ever.
ExpiredNever(e) == e \notin entries

\* DELIVERY_DEADLINE_MS past its time.
Expired(e) == tickNow > At[e.req] + Deadline

\* The receiver's queue accepts the message (enqueueMessage, durable there).
FireHands(e) ==
  /\ Reached(e)
  /\ To[e.req] \in Known
  /\ fired' = {e}
  /\ handed' = handed \cup {e}
  /\ thisBoot' = thisBoot \cup {e}
  /\ again' = again \cup (thisBoot \cap {e})
  /\ UNCHANGED <<now, office, phase, entries, disk, ticking, tickNow, due, blocked, issued,
                 acked, cancelled, excused, fails, crashes>>

\* Mutant: a failed write puts the entry back, as a failed cancel does.
RemoveFiredRollsBack(e) ==
  /\ e \in fired
  /\ fired' = {}
  /\ due' = due \ {e}
  /\ \/ Saves(entries \ {e}) /\ entries' = entries \ {e}
     \/ SaveThrows /\ UNCHANGED entries
  /\ UNCHANGED <<now, office, phase, ticking, tickNow, blocked, issued, outcome, crashes>>

\* removeAndPersistBestEffort after the hand-over: out of memory in any case.
RemoveFired(e) ==
  /\ e \in fired
  /\ fired' = {}
  /\ due' = due \ {e}
  /\ entries' = entries \ {e}
  /\ Saves(entries \ {e}) \/ SaveThrows
  /\ UNCHANGED <<now, office, phase, ticking, tickNow, blocked, issued, outcome, crashes>>

\* The entry is dropped: the receiver is gone (404), no longer fits the pack of
\* a sender that still has one (403), or has refused it past the deadline.
FireDrops(e) ==
  /\ Reached(e)
  /\ \/ To[e.req] \notin Known
     \/ From[e.req] \in Known /\ From[e.req] # To[e.req]
     \/ Expired(e)
  /\ excused' = IF To[e.req] \in office \ Known THEN excused ELSE excused \cup {e}
  /\ due' = due \ {e}
  /\ entries' = entries \ {e}
  /\ Saves(entries \ {e}) \/ SaveThrows
  /\ UNCHANGED <<now, office, phase, ticking, tickNow, blocked, fired, issued,
                 acked, cancelled, handed, thisBoot, again, crashes>>

\* Mutant: the receiver's later entries are tried all the same.
FireWaitsAlone(e) ==
  /\ Reached(e)
  /\ To[e.req] \in Known
  /\ ~Expired(e)
  /\ due' = due \ {e}
  /\ UNCHANGED <<now, office, phase, entries, disk, ticking, tickNow, blocked, fired, issued,
                 outcome, fails, crashes>>

\* The receiver refuses for now (stopped, in error, queue full, write failed):
\* the entry stays pending and its receiver is passed over for this tick.
FireWaits(e) ==
  /\ Reached(e)
  /\ To[e.req] \in Known
  /\ ~Expired(e)
  /\ due' = due \ {e}
  /\ blocked' = blocked \cup {To[e.req]}
  /\ UNCHANGED <<now, office, phase, entries, disk, ticking, tickNow, fired, issued,
                 outcome, fails, crashes>>

TickEnds ==
  /\ ticking
  /\ fired = {}
  /\ \A e \in due : To[e.req] \in blocked
  /\ ticking' = FALSE
  /\ tickNow' = 0
  /\ due' = {}
  /\ blocked' = {}
  /\ UNCHANGED <<now, office, phase, entries, disk, fired, issued,
                 outcome, fails, crashes>>

-----------------------------------------------------------------------------
(* The world.                                                              *)

ClockAdvances ==
  /\ now < MaxClock
  /\ now' = now + 1
  /\ UNCHANGED <<office, phase, memory, disk, issued, outcome, fails, crashes>>

\* An agent is deleted, or revived from the history.
KillOrRevive(a) ==
  /\ phase = "up"
  /\ ~ticking
  /\ office' = IF a \in office THEN office \ {a} ELSE office \cup {a}
  /\ UNCHANGED <<now, phase, memory, disk, issued, outcome, fails, crashes>>

\* The process ends, at any point of a tick.
Crash ==
  /\ phase # "down"
  /\ crashes < MaxCrashes
  /\ crashes' = crashes + 1
  /\ phase' = "down"
  /\ entries' = {}
  /\ ticking' = FALSE
  /\ tickNow' = 0
  /\ due' = {}
  /\ blocked' = {}
  /\ fired' = {}
  /\ UNCHANGED <<now, office, disk, issued, outcome, fails>>

\* The manager loads the file; the agents are restored at the same time.
Boot ==
  /\ phase = "down"
  /\ phase' = "restoring"
  /\ entries' = disk
  /\ thisBoot' = {}
  /\ UNCHANGED <<now, office, disk, ticking, tickNow, due, blocked, fired, issued,
                 acked, cancelled, handed, again, excused, fails, crashes>>

\* restoreAgents has put the agents of agents.json back.
AgentsRestored ==
  /\ phase = "restoring"
  /\ ~ticking
  /\ phase' = "up"
  /\ UNCHANGED <<now, office, memory, disk, issued, outcome, fails, crashes>>

Fire(e) == FireHands(e) \/ RemoveFired(e) \/ FireDrops(e) \/ FireWaits(e)

Next ==
  \/ \E r \in Reqs : Schedule(r)
  \/ \E e \in Entries : Cancel(e)
  \/ Tick
  \/ \E e \in Entries : Fire(e)
  \/ TickEnds
  \/ ClockAdvances
  \/ \E a \in Agents : KillOrRevive(a)
  \/ Crash
  \/ Boot
  \/ AgentsRestored

Spec == Init /\ [][Next]_vars

\* The interval timer ticks, a tick runs to its end, a boot completes and time
\* passes. Nothing makes a receiver accept.
FairSpec ==
  /\ Spec
  /\ WF_vars(Tick)
  /\ WF_vars(TickEnds \/ \E e \in Entries : Fire(e))
  /\ WF_vars(ClockAdvances)
  /\ WF_vars(Boot)
  /\ WF_vars(AgentsRestored)

-----------------------------------------------------------------------------
(* Properties.                                                             *)

\* Types, and what a tick leaves behind: the state of tick() outside a tick.
TypeOK ==
  /\ now \in 0..MaxClock /\ tickNow \in 0..MaxClock
  /\ office \subseteq Agents
  /\ phase \in {"down", "restoring", "up"}
  /\ entries \subseteq Entries /\ disk \subseteq Entries
  /\ ticking \in BOOLEAN
  /\ due \subseteq entries
  /\ blocked \subseteq Agents
  /\ fired \subseteq due
  /\ issued \in 0..MaxEntries
  /\ acked \subseteq Entries /\ cancelled \subseteq Entries /\ excused \subseteq Entries
  /\ handed \subseteq Entries /\ thisBoot \subseteq Entries /\ again \subseteq Entries
  /\ fails \in 0..MaxFails /\ crashes \in 0..MaxCrashes
  /\ ~ticking => due = {} /\ blocked = {}
  /\ phase = "down" => ~ticking /\ entries = {}

\* At-least-once from acceptance to hand-over (the module's header): a scheduled
\* message is in the file, or its receiver's queue has it, or its sender cancelled
\* it, or it was dropped because the receiver is deleted, does not fit or refused
\* it past the deadline. A write that throws and a crash at any point of schedule,
\* cancel and tick lose none.
AcceptedNotLost == acked \subseteq disk \cup handed \cup cancelled \cup excused

\* removeAndPersistBestEffort: no write failure hands an entry over twice
\* between two boots.
OncePerBoot == again = {}

\* A client that retries its request under a clientMessageId never makes a second
\* message of it, unless it cancelled the first: while the entry is pending the key
\* finds it, across restarts too, and once it left the list its time has come and
\* schedule refuses it.
RetryNeverDoubles ==
  \A e, f \in acked \ cancelled : e.req = f.req /\ Key[e.req] # NoKey => e = f

\* The quota of a sender holds in memory and in the file, so a restart after a
\* removal that failed to be written does not exceed it.
QuotaHolds ==
  \A a \in Agents, es \in {entries, disk} :
    Cardinality({e \in es : From[e.req] = a}) <= MaxPending

\* No leapfrogging: when a receiver's queue takes an entry, no pending entry for
\* that receiver comes before it.
NoLeapfrog ==
  [][\A e \in fired' \ fired : \A f \in entries \ {e} :
       To[f.req] = To[e.req] => Before(e, f)]_vars

\* A cancel that was answered 204 is final: no tick of this or of a later boot
\* hands the entry over.
CancelledNeverFires == [][(fired' \ fired) \cap cancelled = {}]_vars

\* Every scheduled message is settled: a receiver that never accepts, crashes and
\* failed writes delay it, and the delivery deadline bounds them.
EntriesSettle ==
  \A i \in 1..MaxEntries :
    (\E e \in acked : e.id = i)
      ~> (\E e \in handed \cup cancelled \cup excused : e.id = i)

=============================================================================
