-------------------------- MODULE QueueStoreProofs --------------------------
(***************************************************************************)
(* What the durable queue promises, for any number of agents and messages. *)
(* Each invariant of QueueStore is proved from its own strengthening, all  *)
(* of them on top of type correctness.                                     *)
(***************************************************************************)
EXTENDS QueueStore, TLAPS

-----------------------------------------------------------------------------
(* The strengthenings.                                                     *)

\* Nothing anywhere in the queue's path was refused.
OnlyAccepted ==
  /\ delivered \subseteq accepted
  /\ \A a \in Agents :
       /\ queue[a] \subseteq accepted
       /\ cache[a].queue \subseteq accepted
       /\ disk[a].queue \subseteq accepted
       /\ flush[a].batch \subseteq accepted
  /\ \A s \in outlived : s.queue \subseteq accepted

\* The live queue and the store agree as far as a failed write lets them.
StoreAgrees ==
  /\ cache = disk
  /\ \A s \in outlived : s.agent \in Silent
  /\ \A a \in Agents \ Silent :
       /\ up /\ a \in alive => /\ queue[a] \subseteq disk[a].queue
                               /\ keys[a] = disk[a].keys
       /\ ~(up /\ a \in alive) => queue[a] = {} /\ keys[a] = {}
       /\ flush[a].send = "taken" => flush[a].batch \subseteq delivered

\* m is where it has to be: with a backend, dropped on purpose, or queued at a
\* live agent, on disk and (while the server runs) in memory.
Safe(m) ==
  \/ m \in delivered \cup dropped
  \/ /\ to[m] \in alive
     /\ m \in disk[to[m]].queue
     /\ up => m \in queue[to[m]]

\* A dedupe key stands for a message that is safe, so a deduped success is one.
KeysSafe ==
  /\ \A m \in Msgs : told[m] = "ok" /\ to[m] \notin Silent => Safe(m)
  /\ \A a \in Agents \ Silent, m \in Msgs :
       m \in disk[a].keys => to[m] = a /\ Safe(m)

\* What was accepted is remembered until a kill forgets it.
Remembered ==
  \A m \in accepted :
    /\ to[m] \in Agents
    /\ \/ to[m] \in Silent
       \/ m \in forgotten
       \/ told[m] = "ok"
       \/ to[m] \in alive /\ m \in disk[to[m]].keys

-----------------------------------------------------------------------------
(* Type correctness.                                                       *)

\* Every operation keeps the state well typed.
LEMMA TypeStep ==
  ASSUME TypeOK, [Next]_vars
  PROVE  TypeOK'
<1> USE DEF memory, history
<1>1. ASSUME NEW a \in Agents, NEW m \in Msgs, NEW ok \in Writes,
            EnqueueMessage(a, m, ok)
     PROVE  TypeOK'
  <2>1. CASE /\ m \in keys[a] /\ Answer(m, "ok")
             /\ UNCHANGED <<queue, keys, cache, disk, accepted, again>>
    BY <1>1, <2>1, NoAgentAssumption, SilentAssumption DEF TypeOK, Records, Flushes, Outlived,
       EnqueueMessage, Answer
  <2>2. CASE /\ Answer(m, "refused")
             /\ UNCHANGED <<queue, keys, cache, disk, accepted, again>>
    BY <1>1, <2>2, NoAgentAssumption, SilentAssumption DEF TypeOK, Records, Flushes, Outlived,
       EnqueueMessage, Answer
  <2>3. CASE m \notin keys[a] /\ AcceptOrRollBack(a, m, ok) /\ ok
    BY SMTT(30), <1>1, <2>3, NoAgentAssumption, SilentAssumption DEF TypeOK, Records, Flushes, Outlived,
       EnqueueMessage, AcceptOrRollBack, Save, Record, Answer
  <2>4. CASE m \notin keys[a] /\ AcceptOrRollBack(a, m, ok) /\ ~ok
    BY <1>1, <2>4, NoAgentAssumption, SilentAssumption DEF TypeOK, Records, Flushes, Outlived,
       EnqueueMessage, AcceptOrRollBack, Save, Answer
  <2> QED
    BY <1>1, <2>1, <2>2, <2>3, <2>4 DEF EnqueueMessage
<1>2. ASSUME NEW a \in Agents, NEW m \in Msgs,
            EnqueueRefused(a, m)
     PROVE  TypeOK'
  BY <1>2, NoAgentAssumption, SilentAssumption DEF TypeOK, Records, Flushes, Outlived,
     EnqueueRefused, Answer
<1>3. ASSUME NEW a \in Agents, NEW m \in Msgs, NEW ok \in Writes,
            Handoff(a, m, ok)
     PROVE  TypeOK'
  BY <1>3, NoAgentAssumption, SilentAssumption DEF TypeOK, Records, Flushes, Outlived, Handoff,
     Save, Record
<1>4. ASSUME NEW a \in Agents,
            FlushSends(a)
     PROVE  TypeOK'
  BY <1>4 DEF TypeOK, Records, Flushes, Outlived, FlushSends
<1>5. ASSUME NEW a \in Agents,
            BackendTakes(a)
     PROVE  TypeOK'
  BY <1>5 DEF TypeOK, Records, Flushes, Outlived, BackendTakes
<1>6. ASSUME NEW a \in Agents,
            SessionCloses(a)
     PROVE  TypeOK'
  BY <1>6 DEF TypeOK, Records, Flushes, Outlived, SessionCloses
<1>7. ASSUME NEW a \in Agents, NEW ok \in Writes,
            SendAccepted(a, ok)
     PROVE  TypeOK'
  BY <1>7 DEF TypeOK, Records, Flushes, Outlived, SendAccepted, Remove, Save,
     Record, NoFlush
<1>8. ASSUME NEW a \in Agents,
            SendFails(a)
     PROVE  TypeOK'
  BY <1>8 DEF TypeOK, Records, Flushes, Outlived, SendFails, NoFlush
<1>9. ASSUME NEW s \in outlived, NEW ok \in Writes,
            OutlivedSendReturns(s, ok)
     PROVE  TypeOK'
  BY <1>9 DEF TypeOK, Records, Flushes, Outlived, OutlivedSendReturns, Save,
     Record
<1>10. ASSUME NEW a \in Agents, NEW m \in Msgs, NEW ok \in Writes,
            CancelQueued(a, m, ok)
     PROVE  TypeOK'
  BY <1>10 DEF TypeOK, Records, Flushes, Outlived, CancelQueued, Remove, Save,
     Record
<1>11. ASSUME NEW a \in Agents, NEW ok \in Writes,
            Kill(a, ok)
     PROVE  TypeOK'
  <2>1. CASE UNCHANGED <<cache, disk>>
    BY <1>11, <2>1 DEF TypeOK, Records, Flushes, Outlived, Kill, NoFlush
  <2>2. CASE Save(a, {}, {}, ok)
    BY <1>11, <2>2 DEF TypeOK, Records, Flushes, Outlived, Kill, NoFlush, Save,
       Record
  <2> QED
    BY <1>11, <2>1, <2>2 DEF Kill
<1>12. ASSUME NEW a \in Agents,
            Revive(a)
     PROVE  TypeOK'
  BY <1>12 DEF TypeOK, Records, Flushes, Outlived, Revive
<1>13. CASE Crash
  BY <1>13 DEF TypeOK, Records, Flushes, Outlived, Crash, NoFlush
<1>14. ASSUME NEW ok \in Writes,
            Boot(ok)
     PROVE  TypeOK'
  BY <1>14 DEF TypeOK, Records, Flushes, Outlived, Boot, NoRecord, Record
<1>15. CASE UNCHANGED vars
  BY <1>15 DEF TypeOK, Records, Flushes, Outlived, vars
<1> QED
  BY <1>1, <1>2, <1>3, <1>4, <1>5, <1>6, <1>7, <1>8, <1>9, <1>10, <1>11,
     <1>12, <1>13, <1>14, <1>15
  DEF Next, AgentStep, AgentQuietStep

\* Type correctness, for any number of agents and messages.
THEOREM TypeCorrect == Spec => []TypeOK
<1>1. Init => TypeOK
  BY NoAgentAssumption, SilentAssumption DEF Init, TypeOK, Records, Flushes, Outlived, NoRecord,
     Record, NoFlush
<1>2. TypeOK /\ [Next]_vars => TypeOK'
  BY TypeStep
<1> QED
  BY <1>1, <1>2, PTL DEF Spec

-----------------------------------------------------------------------------
(* What was refused stays out.                                             *)

\* Every operation keeps what was not accepted out of the queue's path.
LEMMA OnlyAcceptedStep ==
  ASSUME TypeOK, OnlyAccepted, [Next]_vars
  PROVE  OnlyAccepted'
<1> USE DEF memory, history
<1>1. ASSUME NEW a \in Agents, NEW m \in Msgs, NEW ok \in Writes,
            EnqueueMessage(a, m, ok)
     PROVE  OnlyAccepted'
  <2>1. CASE /\ m \in keys[a] /\ Answer(m, "ok")
             /\ UNCHANGED <<queue, keys, cache, disk, accepted, again>>
    BY <1>1, <2>1, NoAgentAssumption, SilentAssumption DEF OnlyAccepted, TypeOK, Records, Flushes,
       Outlived, EnqueueMessage, Answer
  <2>2. CASE /\ Answer(m, "refused")
             /\ UNCHANGED <<queue, keys, cache, disk, accepted, again>>
    BY <1>1, <2>2, NoAgentAssumption, SilentAssumption DEF OnlyAccepted, TypeOK, Records, Flushes,
       Outlived, EnqueueMessage, Answer
  <2>3. CASE m \notin keys[a] /\ AcceptOrRollBack(a, m, ok) /\ ok
    BY <1>1, <2>3, NoAgentAssumption, SilentAssumption DEF OnlyAccepted, TypeOK, Records, Flushes,
       Outlived, EnqueueMessage, AcceptOrRollBack, Save, Record, Answer
  <2>4. CASE m \notin keys[a] /\ AcceptOrRollBack(a, m, ok) /\ ~ok
    BY <1>1, <2>4, NoAgentAssumption, SilentAssumption DEF OnlyAccepted, TypeOK, Records, Flushes,
       Outlived, EnqueueMessage, AcceptOrRollBack, Save, Answer
  <2> QED
    BY <1>1, <2>1, <2>2, <2>3, <2>4 DEF EnqueueMessage
<1>2. ASSUME NEW a \in Agents, NEW m \in Msgs,
            EnqueueRefused(a, m)
     PROVE  OnlyAccepted'
  BY <1>2, NoAgentAssumption, SilentAssumption DEF OnlyAccepted, TypeOK, Records, Flushes,
     Outlived, EnqueueRefused, Answer
<1>3. ASSUME NEW a \in Agents, NEW m \in Msgs, NEW ok \in Writes,
            Handoff(a, m, ok)
     PROVE  OnlyAccepted'
  BY <1>3, NoAgentAssumption, SilentAssumption DEF OnlyAccepted, TypeOK, Records, Flushes,
     Outlived, Handoff, Save, Record
<1>4. ASSUME NEW a \in Agents,
            FlushSends(a)
     PROVE  OnlyAccepted'
  BY <1>4 DEF OnlyAccepted, TypeOK, Records, Flushes, Outlived, FlushSends
<1>5. ASSUME NEW a \in Agents,
            BackendTakes(a)
     PROVE  OnlyAccepted'
  BY <1>5 DEF OnlyAccepted, TypeOK, Records, Flushes, Outlived, BackendTakes
<1>6. ASSUME NEW a \in Agents,
            SessionCloses(a)
     PROVE  OnlyAccepted'
  BY <1>6 DEF OnlyAccepted, TypeOK, Records, Flushes, Outlived, SessionCloses
<1>7. ASSUME NEW a \in Agents, NEW ok \in Writes,
            SendAccepted(a, ok)
     PROVE  OnlyAccepted'
  BY <1>7 DEF OnlyAccepted, TypeOK, Records, Flushes, Outlived, SendAccepted,
     Remove, Save, Record, NoFlush
<1>8. ASSUME NEW a \in Agents,
            SendFails(a)
     PROVE  OnlyAccepted'
  BY <1>8 DEF OnlyAccepted, TypeOK, Records, Flushes, Outlived, SendFails,
     NoFlush
<1>9. ASSUME NEW s \in outlived, NEW ok \in Writes,
            OutlivedSendReturns(s, ok)
     PROVE  OnlyAccepted'
  BY <1>9 DEF OnlyAccepted, TypeOK, Records, Flushes, Outlived,
     OutlivedSendReturns, Save, Record
<1>10. ASSUME NEW a \in Agents, NEW m \in Msgs, NEW ok \in Writes,
            CancelQueued(a, m, ok)
     PROVE  OnlyAccepted'
  BY <1>10 DEF OnlyAccepted, TypeOK, Records, Flushes, Outlived, CancelQueued,
     Remove, Save, Record
<1>11. ASSUME NEW a \in Agents, NEW ok \in Writes,
            Kill(a, ok)
     PROVE  OnlyAccepted'
  <2>1. CASE UNCHANGED <<cache, disk>>
    BY <1>11, <2>1 DEF OnlyAccepted, TypeOK, Records, Flushes, Outlived, Kill,
       NoFlush
  <2>2. CASE Save(a, {}, {}, ok)
    BY <1>11, <2>2 DEF OnlyAccepted, TypeOK, Records, Flushes, Outlived, Kill,
       NoFlush, Save, Record
  <2> QED
    BY <1>11, <2>1, <2>2 DEF Kill
<1>12. ASSUME NEW a \in Agents,
            Revive(a)
     PROVE  OnlyAccepted'
  BY <1>12 DEF OnlyAccepted, TypeOK, Records, Flushes, Outlived, Revive
<1>13. CASE Crash
  BY <1>13 DEF OnlyAccepted, TypeOK, Records, Flushes, Outlived, Crash,
     NoFlush
<1>14. ASSUME NEW ok \in Writes,
            Boot(ok)
     PROVE  OnlyAccepted'
  BY <1>14 DEF OnlyAccepted, TypeOK, Records, Flushes, Outlived, Boot,
     NoRecord, Record
<1>15. CASE UNCHANGED vars
  BY <1>15 DEF OnlyAccepted, TypeOK, Records, Flushes, Outlived, vars
<1> QED
  BY <1>1, <1>2, <1>3, <1>4, <1>5, <1>6, <1>7, <1>8, <1>9, <1>10, <1>11,
     <1>12, <1>13, <1>14, <1>15
  DEF Next, AgentStep, AgentQuietStep

\* A message every call refused is never delivered, whatever writes failed,
\* with either kind of send (copy on success, persistQueueStateThrow).
THEOREM RefusedOut == Spec => []RefusedStaysOut
<1>1. Init => OnlyAccepted
  BY DEF Init, OnlyAccepted, NoRecord, Record, NoFlush
<1>2. TypeOK /\ OnlyAccepted /\ [Next]_vars => OnlyAccepted'
  BY OnlyAcceptedStep
<1>3. OnlyAccepted => RefusedStaysOut
  BY DEF OnlyAccepted, RefusedStaysOut
<1> QED
  BY <1>1, <1>2, <1>3, TypeCorrect, PTL DEF Spec


-----------------------------------------------------------------------------
(* What was acknowledged stays safe, and is accepted once.                 *)

\* Every operation keeps the live queue within the store, and its keys equal to
\* the store's.
LEMMA StoreAgreesStep ==
  ASSUME TypeOK, StoreAgrees, [Next]_vars
  PROVE  StoreAgrees'
<1> USE DEF memory, history
<1>1. ASSUME NEW a \in Agents, NEW m \in Msgs, NEW ok \in Writes,
            EnqueueMessage(a, m, ok)
     PROVE  StoreAgrees'
  <2>1. CASE /\ m \in keys[a] /\ Answer(m, "ok")
             /\ UNCHANGED <<queue, keys, cache, disk, accepted, again>>
    BY <1>1, <2>1, NoAgentAssumption, SilentAssumption DEF StoreAgrees, TypeOK, Records, Flushes,
       Outlived, EnqueueMessage, Answer
  <2>2. CASE /\ Answer(m, "refused")
             /\ UNCHANGED <<queue, keys, cache, disk, accepted, again>>
    BY <1>1, <2>2, NoAgentAssumption, SilentAssumption DEF StoreAgrees, TypeOK, Records, Flushes,
       Outlived, EnqueueMessage, Answer
  <2>3. CASE m \notin keys[a] /\ AcceptOrRollBack(a, m, ok) /\ ok
    BY <1>1, <2>3, NoAgentAssumption, SilentAssumption DEF StoreAgrees, TypeOK, Records, Flushes,
       Outlived, EnqueueMessage, AcceptOrRollBack, Save, Record, Answer
  <2>4. CASE m \notin keys[a] /\ AcceptOrRollBack(a, m, ok) /\ ~ok
    BY <1>1, <2>4, NoAgentAssumption, SilentAssumption DEF StoreAgrees, TypeOK, Records, Flushes,
       Outlived, EnqueueMessage, AcceptOrRollBack, Save, Answer
  <2> QED
    BY <1>1, <2>1, <2>2, <2>3, <2>4 DEF EnqueueMessage
<1>2. ASSUME NEW a \in Agents, NEW m \in Msgs,
            EnqueueRefused(a, m)
     PROVE  StoreAgrees'
  BY <1>2, NoAgentAssumption, SilentAssumption DEF StoreAgrees, TypeOK, Records, Flushes,
     Outlived, EnqueueRefused, Answer
<1>3. ASSUME NEW a \in Agents, NEW m \in Msgs, NEW ok \in Writes,
            Handoff(a, m, ok)
     PROVE  StoreAgrees'
  BY <1>3, NoAgentAssumption, SilentAssumption DEF StoreAgrees, TypeOK, Records, Flushes,
     Outlived, Handoff, Save, Record
<1>4. ASSUME NEW a \in Agents,
            FlushSends(a)
     PROVE  StoreAgrees'
  BY <1>4 DEF StoreAgrees, TypeOK, Records, Flushes, Outlived, FlushSends
<1>5. ASSUME NEW a \in Agents,
            BackendTakes(a)
     PROVE  StoreAgrees'
  BY <1>5 DEF StoreAgrees, TypeOK, Records, Flushes, Outlived, BackendTakes
<1>6. ASSUME NEW a \in Agents,
            SessionCloses(a)
     PROVE  StoreAgrees'
  BY <1>6 DEF StoreAgrees, TypeOK, Records, Flushes, Outlived, SessionCloses
<1>7. ASSUME NEW a \in Agents, NEW ok \in Writes,
            SendAccepted(a, ok)
     PROVE  StoreAgrees'
  BY <1>7 DEF StoreAgrees, TypeOK, Records, Flushes, Outlived, SendAccepted,
     Returned, Remove, Save, Record, NoFlush
<1>8. ASSUME NEW a \in Agents,
            SendFails(a)
     PROVE  StoreAgrees'
  BY <1>8 DEF StoreAgrees, TypeOK, Records, Flushes, Outlived, SendFails,
     NoFlush
<1>9. ASSUME NEW s \in outlived, NEW ok \in Writes,
            OutlivedSendReturns(s, ok)
     PROVE  StoreAgrees'
  BY <1>9 DEF StoreAgrees, TypeOK, Records, Flushes, Outlived,
     OutlivedSendReturns, Save, Record
<1>10. ASSUME NEW a \in Agents, NEW m \in Msgs, NEW ok \in Writes,
            CancelQueued(a, m, ok)
     PROVE  StoreAgrees'
  BY <1>10 DEF StoreAgrees, TypeOK, Records, Flushes, Outlived, CancelQueued,
     Remove, Save, Record
<1>11. ASSUME NEW a \in Agents, NEW ok \in Writes,
            Kill(a, ok)
     PROVE  StoreAgrees'
  <2>1. CASE UNCHANGED <<cache, disk>>
    BY <1>11, <2>1 DEF StoreAgrees, TypeOK, Records, Flushes, Outlived, Kill,
       NoFlush
  <2>2. CASE Save(a, {}, {}, ok)
    BY <1>11, <2>2 DEF StoreAgrees, TypeOK, Records, Flushes, Outlived, Kill,
       NoFlush, Save, Record
  <2> QED
    BY <1>11, <2>1, <2>2 DEF Kill
<1>12. ASSUME NEW a \in Agents,
            Revive(a)
     PROVE  StoreAgrees'
  BY <1>12 DEF StoreAgrees, TypeOK, Records, Flushes, Outlived, Revive
<1>13. CASE Crash
  BY <1>13 DEF StoreAgrees, TypeOK, Records, Flushes, Outlived, Crash, NoFlush
<1>14. ASSUME NEW ok \in Writes,
            Boot(ok)
     PROVE  StoreAgrees'
  BY <1>14 DEF StoreAgrees, TypeOK, Records, Flushes, Outlived, Boot,
     NoRecord, Record
<1>15. CASE UNCHANGED vars
  BY <1>15 DEF StoreAgrees, TypeOK, Records, Flushes, Outlived, vars
<1> QED
  BY <1>1, <1>2, <1>3, <1>4, <1>5, <1>6, <1>7, <1>8, <1>9, <1>10, <1>11,
     <1>12, <1>13, <1>14, <1>15
  DEF Next, AgentStep, AgentQuietStep

\* Every operation keeps an acknowledged message safe, and a key's message too.
LEMMA KeysSafeStep ==
  ASSUME TypeOK, StoreAgrees, KeysSafe, [Next]_vars
  PROVE  KeysSafe'
<1> USE DEF memory, history
<1>1. ASSUME NEW a \in Agents, NEW m \in Msgs, NEW ok \in Writes,
            EnqueueMessage(a, m, ok)
     PROVE  KeysSafe'
  <2>1. CASE /\ m \in keys[a] /\ Answer(m, "ok")
             /\ UNCHANGED <<queue, keys, cache, disk, accepted, again>>
    BY <1>1, <2>1, NoAgentAssumption, SilentAssumption DEF KeysSafe, Safe, StoreAgrees, TypeOK,
       Records, Flushes, Outlived, EnqueueMessage, Answer
  <2>2. CASE /\ Answer(m, "refused")
             /\ UNCHANGED <<queue, keys, cache, disk, accepted, again>>
    BY <1>1, <2>2, NoAgentAssumption, SilentAssumption DEF KeysSafe, Safe, StoreAgrees, TypeOK,
       Records, Flushes, Outlived, EnqueueMessage, Answer
  <2>3. CASE m \notin keys[a] /\ AcceptOrRollBack(a, m, ok) /\ ok
    BY <1>1, <2>3, NoAgentAssumption, SilentAssumption DEF KeysSafe, Safe, StoreAgrees, TypeOK,
       Records, Flushes, Outlived, EnqueueMessage, AcceptOrRollBack, Save,
       Record, Answer
  <2>4. CASE m \notin keys[a] /\ AcceptOrRollBack(a, m, ok) /\ ~ok
    BY <1>1, <2>4, NoAgentAssumption, SilentAssumption DEF KeysSafe, Safe, StoreAgrees, TypeOK,
       Records, Flushes, Outlived, EnqueueMessage, AcceptOrRollBack, Save,
       Answer
  <2> QED
    BY <1>1, <2>1, <2>2, <2>3, <2>4 DEF EnqueueMessage
<1>2. ASSUME NEW a \in Agents, NEW m \in Msgs,
            EnqueueRefused(a, m)
     PROVE  KeysSafe'
  BY <1>2, NoAgentAssumption, SilentAssumption DEF KeysSafe, Safe, StoreAgrees, TypeOK, Records,
     Flushes, Outlived, EnqueueRefused, Answer
<1>3. ASSUME NEW a \in Agents, NEW m \in Msgs, NEW ok \in Writes,
            Handoff(a, m, ok)
     PROVE  KeysSafe'
  BY <1>3, NoAgentAssumption, SilentAssumption DEF KeysSafe, Safe, StoreAgrees, TypeOK, Records,
     Flushes, Outlived, Handoff, Save, Record
<1>4. ASSUME NEW a \in Agents,
            FlushSends(a)
     PROVE  KeysSafe'
  BY <1>4 DEF KeysSafe, Safe, StoreAgrees, TypeOK, Records, Flushes, Outlived,
     FlushSends
<1>5. ASSUME NEW a \in Agents,
            BackendTakes(a)
     PROVE  KeysSafe'
  BY <1>5 DEF KeysSafe, Safe, StoreAgrees, TypeOK, Records, Flushes, Outlived,
     BackendTakes
<1>6. ASSUME NEW a \in Agents,
            SessionCloses(a)
     PROVE  KeysSafe'
  BY <1>6 DEF KeysSafe, Safe, StoreAgrees, TypeOK, Records, Flushes, Outlived,
     SessionCloses
<1>7. ASSUME NEW a \in Agents, NEW ok \in Writes,
            SendAccepted(a, ok)
     PROVE  KeysSafe'
  BY <1>7 DEF KeysSafe, Safe, StoreAgrees, TypeOK, Records, Flushes, Outlived,
     SendAccepted, Returned, Remove, Save, Record, NoFlush
<1>8. ASSUME NEW a \in Agents,
            SendFails(a)
     PROVE  KeysSafe'
  BY <1>8 DEF KeysSafe, Safe, StoreAgrees, TypeOK, Records, Flushes, Outlived,
     SendFails, NoFlush
<1>9. ASSUME NEW s \in outlived, NEW ok \in Writes,
            OutlivedSendReturns(s, ok)
     PROVE  KeysSafe'
  BY <1>9 DEF KeysSafe, Safe, StoreAgrees, TypeOK, Records, Flushes, Outlived,
     OutlivedSendReturns, Save, Record
<1>10. ASSUME NEW a \in Agents, NEW m \in Msgs, NEW ok \in Writes,
            CancelQueued(a, m, ok)
     PROVE  KeysSafe'
  BY <1>10 DEF KeysSafe, Safe, StoreAgrees, TypeOK, Records, Flushes,
     Outlived, CancelQueued, Remove, Save, Record
<1>11. ASSUME NEW a \in Agents, NEW ok \in Writes,
            Kill(a, ok)
     PROVE  KeysSafe'
  <2>1. CASE UNCHANGED <<cache, disk>>
    BY <1>11, <2>1 DEF KeysSafe, Safe, StoreAgrees, TypeOK, Records, Flushes,
       Outlived, Kill, NoFlush
  <2>2. CASE Save(a, {}, {}, ok)
    BY <1>11, <2>2 DEF KeysSafe, Safe, StoreAgrees, TypeOK, Records, Flushes,
       Outlived, Kill, NoFlush, Save, Record
  <2> QED
    BY <1>11, <2>1, <2>2 DEF Kill
<1>12. ASSUME NEW a \in Agents,
            Revive(a)
     PROVE  KeysSafe'
  BY <1>12 DEF KeysSafe, Safe, StoreAgrees, TypeOK, Records, Flushes,
     Outlived, Revive
<1>13. CASE Crash
  BY <1>13 DEF KeysSafe, Safe, StoreAgrees, TypeOK, Records, Flushes,
     Outlived, Crash, NoFlush
<1>14. ASSUME NEW ok \in Writes,
            Boot(ok)
     PROVE  KeysSafe'
  BY <1>14 DEF KeysSafe, Safe, StoreAgrees, TypeOK, Records, Flushes,
     Outlived, Boot, NoRecord, Record
<1>15. CASE UNCHANGED vars
  BY <1>15 DEF KeysSafe, Safe, StoreAgrees, TypeOK, Records, Flushes,
     Outlived, vars
<1> QED
  BY <1>1, <1>2, <1>3, <1>4, <1>5, <1>6, <1>7, <1>8, <1>9, <1>10, <1>11,
     <1>12, <1>13, <1>14, <1>15
  DEF Next, AgentStep, AgentQuietStep

\* Every operation but a kill keeps the key of what was accepted.
LEMMA RememberedStep ==
  ASSUME TypeOK, StoreAgrees, Remembered, AcceptedOnce, [Next]_vars
  PROVE  Remembered' /\ AcceptedOnce'
<1> USE DEF memory, history
<1>1. ASSUME NEW a \in Agents, NEW m \in Msgs, NEW ok \in Writes,
            EnqueueMessage(a, m, ok)
     PROVE  Remembered' /\ AcceptedOnce'
  <2>1. CASE /\ m \in keys[a] /\ Answer(m, "ok")
             /\ UNCHANGED <<queue, keys, cache, disk, accepted, again>>
    BY <1>1, <2>1, NoAgentAssumption, SilentAssumption DEF Remembered, AcceptedOnce, StoreAgrees,
       TypeOK, Records, Flushes, Outlived, EnqueueMessage, Answer
  <2>2. CASE /\ Answer(m, "refused")
             /\ UNCHANGED <<queue, keys, cache, disk, accepted, again>>
    BY <1>1, <2>2, NoAgentAssumption, SilentAssumption DEF Remembered, AcceptedOnce, StoreAgrees,
       TypeOK, Records, Flushes, Outlived, EnqueueMessage, Answer
  <2>3. CASE m \notin keys[a] /\ AcceptOrRollBack(a, m, ok) /\ ok
    BY <1>1, <2>3, NoAgentAssumption, SilentAssumption DEF Remembered, AcceptedOnce, StoreAgrees,
       TypeOK, Records, Flushes, Outlived, EnqueueMessage, AcceptOrRollBack,
       Save, Record, Answer
  <2>4. CASE m \notin keys[a] /\ AcceptOrRollBack(a, m, ok) /\ ~ok
    BY <1>1, <2>4, NoAgentAssumption, SilentAssumption DEF Remembered, AcceptedOnce, StoreAgrees,
       TypeOK, Records, Flushes, Outlived, EnqueueMessage, AcceptOrRollBack,
       Save, Answer
  <2> QED
    BY <1>1, <2>1, <2>2, <2>3, <2>4 DEF EnqueueMessage
<1>2. ASSUME NEW a \in Agents, NEW m \in Msgs,
            EnqueueRefused(a, m)
     PROVE  Remembered' /\ AcceptedOnce'
  BY <1>2, NoAgentAssumption, SilentAssumption DEF Remembered, AcceptedOnce, StoreAgrees,
     TypeOK, Records, Flushes, Outlived, EnqueueRefused, Answer
<1>3. ASSUME NEW a \in Agents, NEW m \in Msgs, NEW ok \in Writes,
            Handoff(a, m, ok)
     PROVE  Remembered' /\ AcceptedOnce'
  BY <1>3, NoAgentAssumption, SilentAssumption DEF Remembered, AcceptedOnce, StoreAgrees,
     TypeOK, Records, Flushes, Outlived, Handoff, Save, Record
<1>4. ASSUME NEW a \in Agents,
            FlushSends(a)
     PROVE  Remembered' /\ AcceptedOnce'
  BY <1>4 DEF Remembered, AcceptedOnce, StoreAgrees, TypeOK, Records, Flushes,
     Outlived, FlushSends
<1>5. ASSUME NEW a \in Agents,
            BackendTakes(a)
     PROVE  Remembered' /\ AcceptedOnce'
  BY <1>5 DEF Remembered, AcceptedOnce, StoreAgrees, TypeOK, Records, Flushes,
     Outlived, BackendTakes
<1>6. ASSUME NEW a \in Agents,
            SessionCloses(a)
     PROVE  Remembered' /\ AcceptedOnce'
  BY <1>6 DEF Remembered, AcceptedOnce, StoreAgrees, TypeOK, Records, Flushes,
     Outlived, SessionCloses
<1>7. ASSUME NEW a \in Agents, NEW ok \in Writes,
            SendAccepted(a, ok)
     PROVE  Remembered' /\ AcceptedOnce'
  BY <1>7 DEF Remembered, AcceptedOnce, StoreAgrees, TypeOK, Records, Flushes,
     Outlived, SendAccepted, Returned, Remove, Save, Record, NoFlush
<1>8. ASSUME NEW a \in Agents,
            SendFails(a)
     PROVE  Remembered' /\ AcceptedOnce'
  BY <1>8 DEF Remembered, AcceptedOnce, StoreAgrees, TypeOK, Records, Flushes,
     Outlived, SendFails, NoFlush
<1>9. ASSUME NEW s \in outlived, NEW ok \in Writes,
            OutlivedSendReturns(s, ok)
     PROVE  Remembered' /\ AcceptedOnce'
  BY <1>9 DEF Remembered, AcceptedOnce, StoreAgrees, TypeOK, Records, Flushes,
     Outlived, OutlivedSendReturns, Save, Record
<1>10. ASSUME NEW a \in Agents, NEW m \in Msgs, NEW ok \in Writes,
            CancelQueued(a, m, ok)
     PROVE  Remembered' /\ AcceptedOnce'
  BY <1>10 DEF Remembered, AcceptedOnce, StoreAgrees, TypeOK, Records,
     Flushes, Outlived, CancelQueued, Remove, Save, Record
<1>11. ASSUME NEW a \in Agents, NEW ok \in Writes,
            Kill(a, ok)
     PROVE  Remembered' /\ AcceptedOnce'
  <2>1. CASE UNCHANGED <<cache, disk>>
    BY <1>11, <2>1 DEF Remembered, AcceptedOnce, StoreAgrees, TypeOK, Records,
       Flushes, Outlived, Kill, NoFlush
  <2>2. CASE Save(a, {}, {}, ok)
    BY <1>11, <2>2 DEF Remembered, AcceptedOnce, StoreAgrees, TypeOK, Records,
       Flushes, Outlived, Kill, NoFlush, Save, Record
  <2> QED
    BY <1>11, <2>1, <2>2 DEF Kill
<1>12. ASSUME NEW a \in Agents,
            Revive(a)
     PROVE  Remembered' /\ AcceptedOnce'
  BY <1>12 DEF Remembered, AcceptedOnce, StoreAgrees, TypeOK, Records,
     Flushes, Outlived, Revive
<1>13. CASE Crash
  BY <1>13 DEF Remembered, AcceptedOnce, StoreAgrees, TypeOK, Records,
     Flushes, Outlived, Crash, NoFlush
<1>14. ASSUME NEW ok \in Writes,
            Boot(ok)
     PROVE  Remembered' /\ AcceptedOnce'
  BY <1>14 DEF Remembered, AcceptedOnce, StoreAgrees, TypeOK, Records,
     Flushes, Outlived, Boot, NoRecord, Record
<1>15. CASE UNCHANGED vars
  BY <1>15 DEF Remembered, AcceptedOnce, StoreAgrees, TypeOK, Records,
     Flushes, Outlived, vars
<1> QED
  BY <1>1, <1>2, <1>3, <1>4, <1>5, <1>6, <1>7, <1>8, <1>9, <1>10, <1>11,
     <1>12, <1>13, <1>14, <1>15
  DEF Next, AgentStep, AgentQuietStep

\* An acknowledged message is never lost, whatever writes fail, whatever answers
\* are lost and wherever the server crashes, for the agents whose send() throws
\* on a closed session (Codex), beside any number of others.
THEOREM AckedSafe == Spec => []AckedNeverLost
<1>1. Init => StoreAgrees /\ KeysSafe
  BY DEF Init, StoreAgrees, KeysSafe, NoRecord, Record, NoFlush
<1>2. TypeOK /\ StoreAgrees /\ KeysSafe /\ [Next]_vars
        => (StoreAgrees /\ KeysSafe)'
  BY StoreAgreesStep, KeysSafeStep
<1>3. KeysSafe => AckedNeverLost
  BY DEF KeysSafe, Safe, AckedNeverLost, Kept
<1> QED
  BY <1>1, <1>2, <1>3, TypeCorrect, PTL DEF Spec

\* A retry inside the dedupe window is accepted once unless a kill forgot its
\* key, for the agents whose send() throws on a closed session.
THEOREM Once == Spec => []AcceptedOnce
<1>1. Init => StoreAgrees /\ Remembered /\ AcceptedOnce
  BY DEF Init, StoreAgrees, Remembered, AcceptedOnce, NoRecord, Record, NoFlush
<1>2. TypeOK /\ StoreAgrees /\ Remembered /\ AcceptedOnce /\ [Next]_vars
        => (StoreAgrees /\ Remembered /\ AcceptedOnce)'
  BY StoreAgreesStep, RememberedStep
<1> QED
  BY <1>1, <1>2, TypeCorrect, PTL DEF Spec

=============================================================================
