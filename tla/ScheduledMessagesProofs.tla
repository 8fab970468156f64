----------------------- MODULE ScheduledMessagesProofs -----------------------
(***************************************************************************)
(* Proofs about ScheduledMessages, for any agents, requests, limits and    *)
(* bounds. Consistent is inductive: the ids tell entries apart (Aged), the *)
(* tick's view of the list (TickView), what memory may still hold after a  *)
(* hand-over (FiredOnce) or a cancel (Withdrawn), and what having left the *)
(* list says of an entry's time (LeftWhenDue). Kept adds what is held for  *)
(* whom; it needs the agents to be back before the first tick.             *)
(***************************************************************************)
EXTENDS ScheduledMessages, FiniteSetTheorems, TLAPS

Aged ==
  \A e \in entries \cup disk \cup acked \cup cancelled \cup thisBoot : e.id <= issued

TickView ==
  /\ fired \subseteq thisBoot \cap handed
  /\ \A e, f \in fired : e = f
  /\ \A e \in due : At[e.req] <= tickNow
  /\ tickNow <= now
  /\ ticking => \A f \in entries :
                  At[f.req] <= tickNow => f \in due \/ To[f.req] \in blocked

FiredOnce == entries \cap thisBoot \subseteq fired /\ again = {}

Withdrawn == cancelled \cap (entries \cup disk) = {}

LeftWhenDue ==
  \A e \in acked \ cancelled :
    At[e.req] > now => e \in disk /\ (phase # "down" => e \in entries)

Consistent ==
  TypeOK /\ Aged /\ TickView /\ FiredOnce /\ Withdrawn /\ LeftWhenDue /\ RetryNeverDoubles

Kept ==
  /\ AcceptedNotLost
  /\ phase # "down" => acked \subseteq entries \cup handed \cup cancelled \cup excused
  /\ ticking => phase = "up"

-----------------------------------------------------------------------------

\* A new entry is none of the entries there are.
LEMMA NewIsNew ==
  ASSUME Consistent, NEW r \in Reqs, issued < MaxEntries
  PROVE  /\ NewEntry(r) \in Entries
         /\ NewEntry(r).id = issued + 1 /\ NewEntry(r).req = r
         /\ NewEntry(r) \notin entries \cup disk \cup acked \cup cancelled \cup thisBoot
BY LimitsAssumption DEF Consistent, TypeOK, Aged, NewEntry, Entries

\* Consistent holds initially.
LEMMA InitConsistent == Init => Consistent
<1> SUFFICES ASSUME Init PROVE Consistent
  OBVIOUS
<1>0. /\ now \in 0..MaxClock /\ tickNow \in 0..MaxClock /\ issued \in 0..MaxEntries
      /\ fails \in 0..MaxFails /\ crashes \in 0..MaxCrashes /\ tickNow <= now
  BY LimitsAssumption DEF Init
<1>1. TypeOK
  BY <1>0 DEF Init, TypeOK
<1>2. Aged /\ FiredOnce /\ Withdrawn /\ LeftWhenDue /\ RetryNeverDoubles
  BY DEF Init, Aged, FiredOnce, Withdrawn, LeftWhenDue, RetryNeverDoubles
<1>3. TickView
  BY <1>0 DEF Init, TickView
<1> QED BY <1>1, <1>2, <1>3 DEF Consistent

\* A schedule request preserves Consistent. A second entry of one keyed request
\* would find the first one pending or its own time past.
LEMMA ScheduleConsistent ==
  ASSUME Consistent, NEW r \in Reqs, Schedule(r)
  PROVE  Consistent'
<1> DEFINE n == NewEntry(r)
<1>a. issued < MaxEntries /\ Serving /\ InFuture(r) /\ Twins(r) = {}
  BY DEF Schedule
<1>b. /\ n \in Entries /\ n.id = issued + 1 /\ n.req = r
      /\ n \notin entries \cup disk \cup acked \cup cancelled \cup thisBoot
  BY <1>a, NewIsNew
<1>c. ~ticking /\ due = {} /\ fired = {} /\ phase # "down"
  BY <1>a DEF Serving, Consistent, TypeOK
<1> HIDE DEF n
<1>1. CASE /\ disk' = entries \cup {n} /\ entries' = entries \cup {n}
           /\ acked' = acked \cup {n} /\ issued' = issued + 1 /\ fails' = fails
  <2>u. UNCHANGED <<now, office, phase, ticking, tickNow, due, blocked, fired,
                    cancelled, handed, thisBoot, again, excused, crashes>>
    BY DEF Schedule
  <2>1. TypeOK'
    BY <1>1, <1>a, <1>b, <1>c, <2>u, LimitsAssumption DEF Consistent, TypeOK
  <2>2. Aged'
    BY <1>1, <1>b, <2>u, LimitsAssumption DEF Consistent, TypeOK, Aged, Entries
  <2>3. TickView' /\ FiredOnce' /\ Withdrawn'
    BY <1>1, <1>b, <1>c, <2>u DEF Consistent, TickView, FiredOnce, Withdrawn
  <2>4. LeftWhenDue'
    BY <1>1, <1>b, <1>c, <2>u DEF Consistent, LeftWhenDue
  <2>5. \A f \in acked \ cancelled : f.req = r /\ Key[r] # NoKey => FALSE
    <3> SUFFICES ASSUME NEW f \in acked \ cancelled, f.req = r, Key[r] # NoKey PROVE FALSE
      OBVIOUS
    <3>1. At[f.req] > now
      BY <1>a DEF InFuture
    <3>2. f \in entries
      BY <3>1, <1>c DEF Consistent, LeftWhenDue
    <3> QED BY <3>2, <1>a DEF Twins
  <2>6. RetryNeverDoubles'
    BY <1>1, <1>b, <2>5, <2>u DEF Consistent, RetryNeverDoubles
  <2> QED BY <2>1, <2>2, <2>3, <2>4, <2>6 DEF Consistent
<1>2. CASE SaveThrows /\ UNCHANGED <<entries, acked, issued>>
  <2>u. UNCHANGED <<now, office, phase, ticking, tickNow, due, blocked, fired, disk,
                    cancelled, handed, thisBoot, again, excused, crashes>>
    BY <1>2 DEF Schedule, SaveThrows
  <2>1. TypeOK'
    BY <1>2, <2>u, LimitsAssumption DEF Consistent, TypeOK, SaveThrows
  <2>2. Aged' /\ TickView' /\ FiredOnce' /\ Withdrawn' /\ LeftWhenDue' /\ RetryNeverDoubles'
    BY <1>2, <2>u
    DEF Consistent, Aged, TickView, FiredOnce, Withdrawn, LeftWhenDue, RetryNeverDoubles
  <2> QED BY <2>1, <2>2 DEF Consistent
<1> QED BY <1>1, <1>2 DEF Schedule, Saves, n

\* A cancel preserves Consistent: it answers 204 only once the file agrees.
LEMMA CancelConsistent ==
  ASSUME Consistent, NEW e \in Entries, Cancel(e)
  PROVE  Consistent'
<1>c. ~ticking /\ due = {} /\ fired = {} /\ phase # "down" /\ e \in entries
  BY DEF Cancel, Serving, Consistent, TypeOK
<1>u. UNCHANGED <<now, office, phase, ticking, tickNow, due, blocked, fired, issued,
                  acked, handed, thisBoot, again, excused, crashes>>
  BY DEF Cancel
<1>1. CASE /\ disk' = entries \ {e} /\ entries' = entries \ {e}
           /\ cancelled' = cancelled \cup {e} /\ fails' = fails
  <2>1. TypeOK'
    BY <1>1, <1>c, <1>u DEF Consistent, TypeOK
  <2>2. Aged' /\ TickView' /\ FiredOnce' /\ Withdrawn'
    BY <1>1, <1>c, <1>u DEF Consistent, Aged, TickView, FiredOnce, Withdrawn
  <2>3. LeftWhenDue' /\ RetryNeverDoubles'
    BY <1>1, <1>c, <1>u DEF Consistent, LeftWhenDue, RetryNeverDoubles
  <2> QED BY <2>1, <2>2, <2>3 DEF Consistent
<1>2. CASE SaveThrows /\ UNCHANGED <<entries, cancelled>>
  <2>1. TypeOK'
    BY <1>2, <1>u, LimitsAssumption DEF Consistent, TypeOK, SaveThrows
  <2>2. Aged' /\ TickView' /\ FiredOnce' /\ Withdrawn' /\ LeftWhenDue' /\ RetryNeverDoubles'
    BY <1>2, <1>u
    DEF Consistent, Aged, TickView, FiredOnce, Withdrawn, LeftWhenDue, RetryNeverDoubles,
        SaveThrows
  <2> QED BY <2>1, <2>2 DEF Consistent
<1> QED BY <1>1, <1>2 DEF Cancel, Saves

\* Taking a due entry off the list, written or not, preserves Consistent: it is
\* due, so a retry of its request is refused from now on.
LEMMA RemovalConsistent ==
  ASSUME Consistent, NEW e \in due, fired \subseteq {e}, fired' = {},
         due' = due \ {e}, entries' = entries \ {e},
         (disk' = entries \ {e} /\ fails' = fails) \/ SaveThrows,
         excused' \in SUBSET Entries,
         UNCHANGED <<now, office, phase, ticking, tickNow, blocked, issued,
                     acked, cancelled, handed, thisBoot, again, crashes>>
  PROVE  Consistent'
<1>1. TypeOK'
  BY LimitsAssumption DEF Consistent, TypeOK, SaveThrows
<1>2. Aged' /\ Withdrawn'
  BY DEF Consistent, TypeOK, Aged, Withdrawn, SaveThrows
<1>3. TickView' /\ FiredOnce' /\ RetryNeverDoubles'
  BY DEF Consistent, TypeOK, TickView, FiredOnce, RetryNeverDoubles
<1>4. LeftWhenDue'
  <2> SUFFICES ASSUME NEW f \in acked \ cancelled, At[f.req] > now
               PROVE  f \in disk' /\ (phase # "down" => f \in entries')
    BY DEF LeftWhenDue
  <2>1. f \in disk /\ (phase # "down" => f \in entries)
    BY DEF Consistent, LeftWhenDue
  <2>2. e \in Entries /\ f \in Entries /\ tickNow \in Nat /\ now \in Nat
    BY DEF Consistent, TypeOK
  <2>3. f # e
    BY <2>2, RequestsAssumption DEF Consistent, TickView, Entries
  <2>4. phase # "down"
    BY DEF Consistent, TypeOK
  <2> QED BY <2>1, <2>3, <2>4 DEF SaveThrows
<1> QED BY <1>1, <1>2, <1>3, <1>4 DEF Consistent

\* A tick's step preserves Consistent.
LEMMA FireConsistent ==
  ASSUME Consistent, NEW e \in Entries, Fire(e)
  PROVE  Consistent'
<1>1. CASE FireHands(e)
  <2>c. ticking /\ fired = {} /\ e \in due /\ e \in entries
    BY <1>1 DEF FireHands, Reached, Consistent, TypeOK
  <2>1. TypeOK'
    BY <1>1, <2>c DEF FireHands, Consistent, TypeOK
  <2>2. e \notin thisBoot
    BY <2>c DEF Consistent, FiredOnce
  <2>3. Aged' /\ TickView' /\ FiredOnce'
    BY <1>1, <2>c, <2>2 DEF FireHands, Consistent, Aged, TickView, FiredOnce
  <2>4. Withdrawn' /\ LeftWhenDue' /\ RetryNeverDoubles'
    BY <1>1 DEF FireHands, Consistent, Withdrawn, LeftWhenDue, RetryNeverDoubles
  <2> QED BY <2>1, <2>3, <2>4 DEF Consistent
<1>2. CASE RemoveFired(e)
  <2>1. e \in due
    BY <1>2 DEF RemoveFired, Consistent, TypeOK
  <2>2. fired \subseteq {e}
    BY <1>2 DEF RemoveFired, Consistent, TickView
  <2>3. excused' \in SUBSET Entries
    BY <1>2 DEF RemoveFired, Consistent, TypeOK, outcome
  <2> QED BY <1>2, <2>1, <2>2, <2>3, RemovalConsistent DEF RemoveFired, Saves, outcome
<1>3. CASE FireDrops(e)
  <2>1. e \in due /\ fired = {}
    BY <1>3 DEF FireDrops, Reached
  <2>2. excused' \in SUBSET Entries
    BY <1>3 DEF FireDrops, Consistent, TypeOK
  <2> QED BY <1>3, <2>1, <2>2, RemovalConsistent DEF FireDrops, Saves
<1>4. CASE FireWaits(e)
  <2>c. ticking /\ fired = {} /\ e \in due
    BY <1>4 DEF FireWaits, Reached
  <2>1. TypeOK'
    BY <1>4, <2>c, RequestsAssumption DEF FireWaits, Consistent, TypeOK, Entries, outcome
  <2>2. Aged' /\ FiredOnce' /\ Withdrawn' /\ LeftWhenDue' /\ RetryNeverDoubles'
    BY <1>4
    DEF FireWaits, Consistent, Aged, FiredOnce, Withdrawn, LeftWhenDue, RetryNeverDoubles, outcome
  <2>3. TickView'
    BY <1>4, <2>c DEF FireWaits, Consistent, TickView, outcome
  <2> QED BY <2>1, <2>2, <2>3 DEF Consistent
<1> QED BY <1>1, <1>2, <1>3, <1>4 DEF Fire

\* Every step preserves Consistent.
LEMMA NextConsistent == Consistent /\ [Next]_vars => Consistent'
<1> SUFFICES ASSUME Consistent, [Next]_vars PROVE Consistent'
  OBVIOUS
<1> USE DEF memory, outcome
<1>1. CASE \E r \in Reqs : Schedule(r)
  BY <1>1, ScheduleConsistent
<1>2. CASE \E e \in Entries : Cancel(e)
  BY <1>2, CancelConsistent
<1>3. CASE Tick
  <2>c. due = {} /\ fired = {}
    BY <1>3 DEF Tick, Consistent, TypeOK
  <2>1. TypeOK'
    BY <1>3, <2>c DEF Tick, Consistent, TypeOK
  <2>2. Aged' /\ FiredOnce' /\ Withdrawn' /\ LeftWhenDue' /\ RetryNeverDoubles'
    BY <1>3
    DEF Tick, Consistent, Aged, FiredOnce, Withdrawn, LeftWhenDue, RetryNeverDoubles
  <2>3. TickView'
    BY <1>3, <2>c, LimitsAssumption DEF Tick, Consistent, TypeOK, TickView
  <2> QED BY <2>1, <2>2, <2>3 DEF Consistent
<1>4. CASE \E e \in Entries : Fire(e)
  BY <1>4, FireConsistent
<1>5. CASE TickEnds
  <2>0. tickNow' \in 0..MaxClock /\ fired' = {}
    BY <1>5, LimitsAssumption DEF TickEnds
  <2>1. TypeOK'
    BY <1>5, <2>0 DEF TickEnds, Consistent, TypeOK
  <2>2. Aged' /\ FiredOnce' /\ Withdrawn' /\ LeftWhenDue' /\ RetryNeverDoubles'
    BY <1>5
    DEF TickEnds, Consistent, Aged, FiredOnce, Withdrawn, LeftWhenDue, RetryNeverDoubles
  <2>3. TickView'
    BY <1>5, LimitsAssumption DEF TickEnds, Consistent, TypeOK, TickView
  <2> QED BY <2>1, <2>2, <2>3 DEF Consistent
<1>6. CASE ClockAdvances
  <2>1. TypeOK'
    BY <1>6, LimitsAssumption DEF ClockAdvances, Consistent, TypeOK
  <2>2. Aged' /\ FiredOnce' /\ Withdrawn' /\ RetryNeverDoubles'
    BY <1>6 DEF ClockAdvances, Consistent, Aged, FiredOnce, Withdrawn, RetryNeverDoubles
  <2>3. TickView'
    BY <1>6, LimitsAssumption DEF ClockAdvances, Consistent, TypeOK, TickView
  <2>4. LeftWhenDue'
    <3>1. now \in Nat /\ now' = now + 1
      BY <1>6, LimitsAssumption DEF ClockAdvances, Consistent, TypeOK
    <3>2. \A e \in acked : At[e.req] \in Nat
      BY RequestsAssumption DEF Consistent, TypeOK, Entries
    <3> QED BY <1>6, <3>1, <3>2 DEF ClockAdvances, Consistent, LeftWhenDue
  <2> QED BY <2>1, <2>2, <2>3, <2>4 DEF Consistent
<1>7. CASE \E a \in Agents : KillOrRevive(a)
  <2>1. TypeOK'
    BY <1>7 DEF KillOrRevive, Consistent, TypeOK
  <2>2. Aged' /\ TickView' /\ FiredOnce' /\ Withdrawn' /\ LeftWhenDue' /\ RetryNeverDoubles'
    BY <1>7
    DEF KillOrRevive, Consistent, Aged, TickView, FiredOnce, Withdrawn, LeftWhenDue,
        RetryNeverDoubles
  <2> QED BY <2>1, <2>2 DEF Consistent
<1>8. CASE Crash
  <2>0. tickNow' \in 0..MaxClock /\ crashes' \in 0..MaxCrashes
    BY <1>8, LimitsAssumption DEF Crash, Consistent, TypeOK
  <2>1. TypeOK'
    BY <1>8, <2>0 DEF Crash, Consistent, TypeOK
  <2>2. Aged' /\ FiredOnce' /\ Withdrawn' /\ LeftWhenDue' /\ RetryNeverDoubles'
    BY <1>8
    DEF Crash, Consistent, Aged, FiredOnce, Withdrawn, LeftWhenDue, RetryNeverDoubles
  <2>3. TickView'
    BY <1>8, LimitsAssumption DEF Crash, Consistent, TypeOK, TickView
  <2> QED BY <2>1, <2>2, <2>3 DEF Consistent
<1>9. CASE Boot
  <2>c. ~ticking /\ due = {} /\ fired = {}
    BY <1>9 DEF Boot, Consistent, TypeOK
  <2>1. TypeOK'
    BY <1>9, <2>c DEF Boot, Consistent, TypeOK
  <2>2. Aged' /\ TickView' /\ FiredOnce' /\ Withdrawn'
    BY <1>9, <2>c DEF Boot, Consistent, Aged, TickView, FiredOnce, Withdrawn
  <2>3. LeftWhenDue' /\ RetryNeverDoubles'
    BY <1>9 DEF Boot, Consistent, LeftWhenDue, RetryNeverDoubles
  <2> QED BY <2>1, <2>2, <2>3 DEF Consistent
<1>10. CASE AgentsRestored
  <2>1. TypeOK'
    BY <1>10 DEF AgentsRestored, Consistent, TypeOK
  <2>2. Aged' /\ TickView' /\ FiredOnce' /\ Withdrawn' /\ LeftWhenDue' /\ RetryNeverDoubles'
    BY <1>10
    DEF AgentsRestored, Consistent, Aged, TickView, FiredOnce, Withdrawn, LeftWhenDue,
        RetryNeverDoubles
  <2> QED BY <2>1, <2>2 DEF Consistent
<1>11. CASE UNCHANGED vars
  BY <1>11
  DEF vars, Consistent, TypeOK, Aged, TickView, FiredOnce, Withdrawn, LeftWhenDue,
      RetryNeverDoubles
<1> QED
  BY <1>1, <1>2, <1>3, <1>4, <1>5, <1>6, <1>7, <1>8, <1>9, <1>10, <1>11 DEF Next

\* Consistent is an invariant of the specification.
THEOREM AlwaysConsistent == Spec => []Consistent
BY InitConsistent, NextConsistent, PTL DEF Spec

\* Every reachable state is well typed, and a tick leaves nothing of its own
\* behind, however it ends.
THEOREM TypeCorrect == Spec => []TypeOK
<1>1. Consistent => TypeOK
  BY DEF Consistent
<1> QED BY <1>1, AlwaysConsistent, PTL

\* No failed write makes a boot hand an entry over twice (OncePerBoot).
THEOREM HandedOncePerBoot == Spec => []OncePerBoot
<1>1. Consistent => OncePerBoot
  BY DEF Consistent, FiredOnce, OncePerBoot
<1> QED BY <1>1, AlwaysConsistent, PTL

\* A retried request never makes a second message (RetryNeverDoubles): the key
\* covers it while its entry is pending, its time from then on.
THEOREM RetrySafe == Spec => []RetryNeverDoubles
<1>1. Consistent => RetryNeverDoubles
  BY DEF Consistent
<1> QED BY <1>1, AlwaysConsistent, PTL

\* A successful cancel is final, across failed writes and restarts.
THEOREM CancelSafe == Spec => CancelledNeverFires
<1>1. Consistent /\ [Next]_vars => [(fired' \ fired) \cap cancelled = {}]_vars
  <2> SUFFICES ASSUME Consistent, Next PROVE (fired' \ fired) \cap cancelled = {}
    OBVIOUS
  <2>1. fired' \subseteq fired \/ \E e \in Entries : FireHands(e)
    BY DEF Next, Schedule, Cancel, Tick, Fire, RemoveFired, FireDrops, FireWaits, TickEnds,
           ClockAdvances, KillOrRevive, Crash, Boot, AgentsRestored, memory
  <2>2. ASSUME NEW e \in Entries, FireHands(e) PROVE fired' = {e} /\ e \in entries
    BY <2>2 DEF FireHands, Reached, Consistent, TypeOK
  <2> QED BY <2>1, <2>2 DEF Consistent, Withdrawn
<1> QED BY <1>1, AlwaysConsistent, PTL DEF Spec, CancelledNeverFires

\* A receiver gets its messages in the order of their times: no entry overtakes
\* a pending one (NoLeapfrog).
THEOREM OrderKept == Spec => NoLeapfrog
<1>1. Consistent /\ [Next]_vars =>
        [\A e \in fired' \ fired : \A f \in entries \ {e} :
           To[f.req] = To[e.req] => Before(e, f)]_vars
  <2> SUFFICES ASSUME Consistent, Next, NEW e \in fired' \ fired,
                      NEW f \in entries \ {e}, To[f.req] = To[e.req]
               PROVE  Before(e, f)
    OBVIOUS
  <2>1. \E g \in Entries : FireHands(g) /\ e = g
    BY DEF Next, Schedule, Cancel, Tick, Fire, FireHands, RemoveFired, FireDrops, FireWaits,
           TickEnds, ClockAdvances, KillOrRevive, Crash, Boot, AgentsRestored, memory
  <2>2. Reached(e)
    BY <2>1 DEF FireHands
  <2>3. At[e.req] \in Nat /\ At[f.req] \in Nat /\ tickNow \in Nat /\ At[e.req] <= tickNow
    BY <2>2, RequestsAssumption, LimitsAssumption
    DEF Reached, Consistent, TypeOK, TickView, Entries
  <2>4. CASE At[f.req] <= tickNow
    BY <2>2, <2>4 DEF Consistent, TickView, Reached
  <2>5. CASE At[f.req] > tickNow
    BY <2>3, <2>5 DEF Before
  <2> QED BY <2>3, <2>4, <2>5
<1> QED BY <1>1, AlwaysConsistent, PTL DEF Spec, NoLeapfrog

-----------------------------------------------------------------------------

\* Where the agents are restored before the first tick, every step preserves Kept.
LEMMA NextKept ==
  ASSUME SlowRestore = FALSE, Consistent, Kept, [Next]_vars
  PROVE  Kept'
<1> USE DEF memory, outcome, AcceptedNotLost
<1>1. CASE \E r \in Reqs : Schedule(r)
  BY <1>1 DEF Schedule, Serving, Saves, SaveThrows, Kept
<1>2. CASE \E e \in Entries : Cancel(e)
  BY <1>2 DEF Cancel, Serving, Saves, SaveThrows, Kept
<1>3. CASE Tick
  BY <1>3 DEF Tick, Kept
<1>4. CASE \E e \in Entries : Fire(e)
  <2> PICK e \in Entries : Fire(e)
    BY <1>4
  <2>1. CASE FireHands(e)
    BY <2>1 DEF FireHands, Kept
  <2>2. CASE RemoveFired(e)
    BY <2>2 DEF RemoveFired, Saves, SaveThrows, Kept, Consistent, TypeOK, TickView
  <2>3. CASE FireDrops(e)
    <3>1. phase = "up" /\ excused' = excused \cup {e}
      BY <2>3 DEF FireDrops, Reached, Known, Kept
    <3> QED BY <2>3, <3>1 DEF FireDrops, Saves, SaveThrows, Kept
  <2>4. CASE FireWaits(e)
    BY <2>4 DEF FireWaits, Kept
  <2> QED BY <2>1, <2>2, <2>3, <2>4 DEF Fire
<1>5. CASE TickEnds
  BY <1>5 DEF TickEnds, Kept
<1>6. CASE ClockAdvances
  BY <1>6 DEF ClockAdvances, Kept
<1>7. CASE \E a \in Agents : KillOrRevive(a)
  BY <1>7 DEF KillOrRevive, Kept
<1>8. CASE Crash
  BY <1>8 DEF Crash, Kept
<1>9. CASE Boot
  BY <1>9 DEF Boot, Kept, Consistent, TypeOK
<1>10. CASE AgentsRestored
  BY <1>10 DEF AgentsRestored, Kept
<1>11. CASE UNCHANGED vars
  BY <1>11 DEF vars, Kept
<1> QED
  BY <1>1, <1>2, <1>3, <1>4, <1>5, <1>6, <1>7, <1>8, <1>9, <1>10, <1>11 DEF Next

\* At-least-once (AcceptedNotLost), where the agents are restored before the first
\* tick: crashes and failed writes at any point lose no accepted message.
THEOREM NothingLost ==
  ASSUME SlowRestore = FALSE
  PROVE  Spec => []AcceptedNotLost
<1>1. Init => Kept
  BY DEF Init, Kept, AcceptedNotLost
<1>2. Consistent /\ Kept /\ [Next]_vars => Kept'
  BY NextKept
<1>3. Kept => AcceptedNotLost
  BY DEF Kept
<1> QED BY <1>1, <1>2, <1>3, AlwaysConsistent, PTL DEF Spec

-----------------------------------------------------------------------------

\* The entries of one sender, and that a finite set of entries keeps the quota.
Of(es, a) == {e \in es : From[e.req] = a}
WithinQuota(es) ==
  IsFiniteSet(es) /\ \A a \in Agents : Cardinality(Of(es, a)) <= MaxPending

Quotas == WithinQuota(entries) /\ WithinQuota(disk)

\* Fewer entries keep the quota.
LEMMA FewerWithinQuota ==
  ASSUME NEW es, NEW fs \in SUBSET es, WithinQuota(es)
  PROVE  WithinQuota(fs)
<1>1. IsFiniteSet(fs)
  BY FS_Subset DEF WithinQuota
<1>2. ASSUME NEW a \in Agents PROVE Cardinality(Of(fs, a)) <= MaxPending
  <2>1. Of(es, a) \in SUBSET es /\ Of(fs, a) \in SUBSET Of(es, a)
    BY DEF Of
  <2>2. IsFiniteSet(Of(es, a))
    BY <2>1, FS_Subset DEF WithinQuota
  <2>3. IsFiniteSet(Of(fs, a)) /\ Cardinality(Of(fs, a)) <= Cardinality(Of(es, a))
    BY <2>1, <2>2, FS_Subset
  <2>4. Cardinality(Of(fs, a)) \in Nat /\ Cardinality(Of(es, a)) \in Nat
    BY <2>2, <2>3, FS_CardinalityType
  <2> QED BY <2>3, <2>4, LimitsAssumption DEF WithinQuota
<1> QED BY <1>1, <1>2 DEF WithinQuota

\* What schedule's guard is for: one entry more keeps the quota.
LEMMA OneMoreWithinQuota ==
  ASSUME NEW r \in Reqs, WithinQuota(entries), QuotaLeft(From[r])
  PROVE  WithinQuota(entries \cup {NewEntry(r)})
<1> DEFINE n == NewEntry(r)
<1>1. n.req = r
  BY DEF NewEntry
<1> HIDE DEF n
<1>2. IsFiniteSet(entries \cup {n})
  BY FS_AddElement DEF WithinQuota
<1>3. ASSUME NEW a \in Agents PROVE Cardinality(Of(entries \cup {n}, a)) <= MaxPending
  <2>1. IsFiniteSet(Of(entries, a)) /\ Cardinality(Of(entries, a)) \in Nat
    <3>1. Of(entries, a) \in SUBSET entries
      BY DEF Of
    <3> QED BY <3>1, FS_Subset, FS_CardinalityType DEF WithinQuota
  <2>2. CASE From[r] = a
    <3>1. Of(entries \cup {n}, a) = Of(entries, a) \cup {n}
      BY <1>1, <2>2 DEF Of
    <3>2. Cardinality(Of(entries, a)) < MaxPending
      BY <2>2 DEF QuotaLeft, Pending, Of
    <3>3. Cardinality(Of(entries, a) \cup {n}) =
            IF n \in Of(entries, a) THEN Cardinality(Of(entries, a))
            ELSE Cardinality(Of(entries, a)) + 1
      BY <2>1, FS_AddElement
    <3> DEFINE k == Cardinality(Of(entries, a))
               l == Cardinality(Of(entries \cup {n}, a))
    <3>4. k \in Nat /\ k < MaxPending /\ (l = k \/ l = k + 1)
      BY <2>1, <3>1, <3>2, <3>3
    <3> HIDE DEF k, l
    <3>5. l <= MaxPending
      BY <3>4, LimitsAssumption
    <3> QED BY <3>5 DEF l
  <2>3. CASE From[r] # a
    <3>1. Of(entries \cup {n}, a) = Of(entries, a)
      BY <1>1, <2>3 DEF Of
    <3> QED BY <3>1 DEF WithinQuota
  <2> QED BY <2>2, <2>3
<1>4. WithinQuota(entries \cup {n})
  BY <1>2, <1>3 DEF WithinQuota
<1> QED BY <1>4 DEF n

\* Every step preserves Quotas.
LEMMA NextQuotas == Quotas /\ [Next]_vars => Quotas'
<1> SUFFICES ASSUME Quotas, [Next]_vars PROVE Quotas'
  OBVIOUS
<1> USE DEF memory
<1>1. CASE \E r \in Reqs : Schedule(r)
  <2> PICK r \in Reqs : Schedule(r)
    BY <1>1
  <2>1. WithinQuota(entries \cup {NewEntry(r)})
    BY OneMoreWithinQuota DEF Quotas, Schedule
  <2>2. \/ entries' = entries \cup {NewEntry(r)} /\ disk' = entries \cup {NewEntry(r)}
        \/ entries' = entries /\ disk' = disk
    BY DEF Schedule, Saves, SaveThrows
  <2> QED BY <2>1, <2>2 DEF Quotas
<1>2. CASE \E e \in Entries : Cancel(e) \/ RemoveFired(e) \/ FireDrops(e)
  <2> PICK e \in Entries : Cancel(e) \/ RemoveFired(e) \/ FireDrops(e)
    BY <1>2
  <2>1. WithinQuota(entries \ {e})
    BY FewerWithinQuota DEF Quotas
  <2>2. entries' \in {entries, entries \ {e}} /\ disk' \in {disk, entries \ {e}}
    BY DEF Cancel, RemoveFired, FireDrops, Saves, SaveThrows
  <2> QED BY <2>1, <2>2 DEF Quotas
<1>3. CASE Crash
  <2>1. WithinQuota({})
    BY FewerWithinQuota DEF Quotas
  <2> QED BY <1>3, <2>1 DEF Crash, Quotas
<1>4. CASE Boot
  BY <1>4 DEF Boot, Quotas
<1>5. CASE \/ Tick \/ TickEnds \/ ClockAdvances \/ AgentsRestored \/ UNCHANGED vars
           \/ \E a \in Agents : KillOrRevive(a)
           \/ \E e \in Entries : FireHands(e) \/ FireWaits(e)
  <2>1. entries' = entries /\ disk' = disk
    BY <1>5 DEF Tick, TickEnds, ClockAdvances, AgentsRestored, vars, KillOrRevive, FireHands,
                FireWaits
  <2> QED BY <2>1 DEF Quotas
<1> QED BY <1>1, <1>2, <1>3, <1>4, <1>5 DEF Next, Fire

\* No sender has more entries than the quota, in memory or in the file, whatever
\* writes failed and whenever the server restarted (QuotaHolds).
THEOREM QuotaKept == Spec => []QuotaHolds
<1>1. Init => Quotas
  <2> SUFFICES ASSUME Init PROVE WithinQuota({})
    BY DEF Init, Quotas
  <2>1. \A a \in Agents : Of({}, a) = {}
    BY DEF Of
  <2> QED BY <2>1, FS_EmptySet, LimitsAssumption DEF WithinQuota
<1>2. Quotas => QuotaHolds
  BY DEF Quotas, WithinQuota, Of, QuotaHolds
<1> QED BY <1>1, <1>2, NextQuotas, PTL DEF Spec

=============================================================================
