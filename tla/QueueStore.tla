----------------------------- MODULE QueueStore -----------------------------
(***************************************************************************)
(* The durable message queue (server/message-queue.ts): acceptance, the    *)
(* dedupe window, the mirror in message-queues.json and its replay at boot *)
(* (server/agent-restore.ts).                                              *)
(*                                                                         *)
(* Every operation is synchronous up to its answer, so an action is one    *)
(* operation; a crash can fall between any two, a write to the store can   *)
(* fail at any one, and an answer can be lost on its way to the client.    *)
(* A message stands for its client message id. The model stays inside one  *)
(* dedupe window (QUEUE_DEDUPE_TTL_MS): no key expires. The order of the   *)
(* queue is left out, and so is what a message says.                       *)
(*                                                                         *)
(* A send waits for its session to open before the backend has anything,   *)
(* and the session can be closed meanwhile. What send() does then differs: *)
(* Codex throws, Claude and OpenCode return as if the backend had taken    *)
(* the batch (the agents in Silent).                                       *)
(***************************************************************************)
EXTENDS Naturals, FiniteSets

CONSTANTS
  Agents,     \* agents whose records share the one store
  Msgs,       \* messages, by client message id
  QueueMax,   \* QUEUE_MAX
  Silent,     \* agents whose send() on a closed session returns normally
  WriteFails, \* a write of message-queues.json can fail
  MaxOutlived,\* bound: sends under way that outlive their agent
  NoAgent

ASSUME BoundsAssumption == QueueMax \in Nat /\ MaxOutlived \in Nat
ASSUME SilentAssumption == Silent \subseteq Agents
ASSUME WritesAssumption == WriteFails \in BOOLEAN
ASSUME NoAgentAssumption == NoAgent \notin Agents

VARIABLES
  up,         \* the server runs
  alive,      \* agents that exist; killed ones can be revived
  queue,      \* queue[a]: ManagedAgent.messageQueue
  keys,       \* keys[a]: ManagedAgent.queueDedupe
  cache,      \* queueStoreCache, a record per agent
  disk,       \* message-queues.json
  flush,      \* flush[a]: the batch of the running flush and where its send is
  outlived,   \* sends of killed agents, each with its ManagedAgent's queue
  to,         \* to[m]: the agent m is for
  told,       \* told[m]: the last answer m's client received
  accepted,   \* messages some call accepted
  again,      \* messages a second call accepted
  delivered,  \* messages a backend took
  dropped,    \* messages cancelled, or queued at an agent when it was killed
  forgotten   \* messages whose dedupe key a kill dropped

memory == <<queue, keys, cache, flush, outlived>>
history == <<accepted, again, delivered, dropped, forgotten>>
vars == <<up, alive, memory, disk, to, told, history>>

\* buildQueueRecord.
Record(q, k) == [queue |-> q, keys |-> k]
NoRecord == Record({}, {})   \* the agent has no entry in the store

\* The outcomes of a write: it did not throw, or it did.
Writes == IF WriteFails THEN BOOLEAN ELSE {TRUE}

NoFlush == [batch |-> {}, send |-> "none"]

Init ==
  /\ up = TRUE
  /\ alive = Agents
  /\ queue = [a \in Agents |-> {}]
  /\ keys = [a \in Agents |-> {}]
  /\ cache = [a \in Agents |-> NoRecord]
  /\ disk = [a \in Agents |-> NoRecord]
  /\ flush = [a \in Agents |-> NoFlush]
  /\ outlived = {}
  /\ to = [m \in Msgs |-> NoAgent]
  /\ told = [m \in Msgs |-> "none"]
  /\ accepted = {}
  /\ again = {}
  /\ delivered = {}
  /\ dropped = {}
  /\ forgotten = {}

-----------------------------------------------------------------------------
(* The store. A save writes every agent's record.                          *)

\* Mutant: the cache changes before the write, and stays changed if it fails.
SaveCacheFirst(a, q, k, ok) ==
  /\ cache' = [cache EXCEPT ![a] = Record(q, k)]
  /\ disk' = IF ok THEN cache' ELSE disk

\* persistQueueStateThrow: copy on success. `ok`: the write did not throw.
Save(a, q, k, ok) ==
  /\ cache' = IF ok THEN [cache EXCEPT ![a] = Record(q, k)] ELSE cache
  /\ disk' = IF ok THEN cache' ELSE disk

\* Takes items out of the live queue, then persists as well as it can:
\* drainQueueItems and the splice of cancelQueued.
Remove(a, items, ok) ==
  /\ queue' = [queue EXCEPT ![a] = @ \ items]
  /\ Save(a, queue[a] \ items, keys[a], ok)

-----------------------------------------------------------------------------
(* Acceptance.                                                             *)

\* The client hears the answer, or the answer is lost.
Answer(m, answer) == told' \in {told, [told EXCEPT ![m] = answer]}

\* Mutant: a failed write leaves the dedupe key behind.
AcceptOrRollBackKeepsKey(a, m, ok) ==
  /\ Save(a, queue[a] \cup {m}, keys[a] \cup {m}, ok)
  /\ queue' = IF ok THEN [queue EXCEPT ![a] = @ \cup {m}] ELSE queue
  /\ keys' = [keys EXCEPT ![a] = @ \cup {m}]
  /\ accepted' = IF ok THEN accepted \cup {m} ELSE accepted
  /\ again' = IF ok /\ m \in accepted THEN again \cup {m} ELSE again
  /\ Answer(m, IF ok THEN "ok" ELSE "refused")

\* Mutant: the dedupe key is left out of the durable write.
AcceptOrRollBackKeyInMemory(a, m, ok) ==
  /\ Save(a, queue[a] \cup {m}, keys[a], ok)
  /\ queue' = IF ok THEN [queue EXCEPT ![a] = @ \cup {m}] ELSE queue
  /\ keys' = IF ok THEN [keys EXCEPT ![a] = @ \cup {m}] ELSE keys
  /\ accepted' = IF ok THEN accepted \cup {m} ELSE accepted
  /\ again' = IF ok /\ m \in accepted THEN again \cup {m} ELSE again
  /\ Answer(m, IF ok THEN "ok" ELSE "refused")

\* The item and its key land in memory, then in one write; when the write
\* fails both are rolled back and the answer is a 500.
AcceptOrRollBack(a, m, ok) ==
  /\ Save(a, queue[a] \cup {m}, keys[a] \cup {m}, ok)
  /\ queue' = IF ok THEN [queue EXCEPT ![a] = @ \cup {m}] ELSE queue
  /\ keys' = IF ok THEN [keys EXCEPT ![a] = @ \cup {m}] ELSE keys
  /\ accepted' = IF ok THEN accepted \cup {m} ELSE accepted
  /\ again' = IF ok /\ m \in accepted THEN again \cup {m} ELSE again
  /\ Answer(m, IF ok THEN "ok" ELSE "refused")

\* enqueueMessage, a first try or a retry of a client that heard no success.
EnqueueMessage(a, m, ok) ==
  /\ up /\ a \in alive
  /\ to[m] \in {a, NoAgent}
  /\ told[m] # "ok"
  /\ to' = [to EXCEPT ![m] = a]
  /\ \/ /\ m \in keys[a]                                   \* deduped
        /\ Answer(m, "ok")
        /\ UNCHANGED <<queue, keys, cache, disk, accepted, again>>
     \/ /\ m \notin keys[a]
        /\ Cardinality(queue[a]) >= QueueMax               \* 429
        /\ Answer(m, "refused")
        /\ UNCHANGED <<queue, keys, cache, disk, accepted, again>>
     \/ /\ m \notin keys[a]
        /\ Cardinality(queue[a]) < QueueMax
        /\ AcceptOrRollBack(a, m, ok)
  /\ UNCHANGED <<up, alive, flush, outlived, delivered, dropped, forgotten>>

\* The same call to an agent that is gone, stopped or in an error it cannot
\* resume from, or over a usage cap or a pack rule: refused before the queue
\* is looked at.
EnqueueRefused(a, m) ==
  /\ up
  /\ to[m] \in {a, NoAgent}
  /\ told[m] # "ok"
  /\ to' = [to EXCEPT ![m] = a]
  /\ Answer(m, "refused")
  /\ UNCHANGED <<up, alive, memory, disk, history>>

\* handoffBody: the brief goes in with no key and no cap check, in the same
\* transactional way.
Handoff(a, m, ok) ==
  /\ up /\ a \in alive
  /\ to[m] = NoAgent
  /\ to' = [to EXCEPT ![m] = a]
  /\ Save(a, queue[a] \cup {m}, keys[a], ok)
  /\ queue' = IF ok THEN [queue EXCEPT ![a] = @ \cup {m}] ELSE queue
  /\ accepted' = IF ok THEN accepted \cup {m} ELSE accepted
  /\ told' = [told EXCEPT ![m] = IF ok THEN "ok" ELSE "refused"]
  /\ UNCHANGED <<up, alive, keys, flush, outlived, again, delivered, dropped,
                 forgotten>>

-----------------------------------------------------------------------------
(* Delivery and removal.                                                   *)

\* flushQueue calls send with a batch. The items stay queued.
FlushSends(a) ==
  /\ up /\ a \in alive
  /\ flush[a] = NoFlush
  /\ \E batch \in SUBSET queue[a] \ {{}} :
       flush' = [flush EXCEPT ![a] = [batch |-> batch, send |-> "waiting"]]
  /\ UNCHANGED <<up, alive, queue, keys, cache, disk, outlived, to, told, history>>

\* The session is open and the backend takes the batch.
BackendTakes(a) ==
  /\ up /\ a \in alive
  /\ flush[a].send = "waiting"
  /\ flush' = [flush EXCEPT ![a] = [batch |-> @.batch, send |-> "taken"]]
  /\ delivered' = delivered \cup flush[a].batch
  /\ UNCHANGED <<up, alive, queue, keys, cache, disk, outlived, to, told,
                 accepted, again, dropped, forgotten>>

\* A swap, a release or a Stop closes the session while its send waits.
SessionCloses(a) ==
  /\ up /\ a \in alive
  /\ flush[a].send = "waiting"
  /\ flush' = [flush EXCEPT ![a] = [batch |-> @.batch, send |-> "closed"]]
  /\ UNCHANGED <<up, alive, queue, keys, cache, disk, outlived, to, told, history>>

\* When send() returns normally.
Returned(a) ==
  flush[a].send = "taken" \/ (flush[a].send = "closed" /\ a \in Silent)

\* onSendAccepted: drain the batch.
SendAccepted(a, ok) ==
  /\ up /\ a \in alive
  /\ Returned(a)
  /\ flush' = [flush EXCEPT ![a] = NoFlush]
  /\ Remove(a, flush[a].batch, ok)
  /\ UNCHANGED <<up, alive, keys, outlived, to, told, history>>

\* send() throws, or the process dies before it answered: nothing is drained.
SendFails(a) ==
  /\ up /\ a \in alive
  /\ flush[a] # NoFlush
  /\ flush[a].send = "closed" => a \notin Silent
  /\ flush' = [flush EXCEPT ![a] = NoFlush]
  /\ UNCHANGED <<up, alive, queue, keys, cache, disk, outlived, to, told, history>>

\* The send of an agent killed meanwhile returns: onSendAccepted drains the
\* killed ManagedAgent's queue and persists the rest under its id.
OutlivedSendReturns(s, ok) ==
  /\ up
  /\ outlived' = outlived \ {s}
  /\ Save(s.agent, s.queue \ s.batch, s.keys, ok)
  /\ UNCHANGED <<up, alive, queue, keys, flush, to, told, history>>

\* cancelQueued, and the drop of an item a member's usage cap refuses.
CancelQueued(a, m, ok) ==
  /\ up /\ a \in alive
  /\ m \in queue[a]
  /\ Remove(a, {m}, ok)
  /\ dropped' = dropped \cup {m}
  /\ UNCHANGED <<up, alive, keys, flush, outlived, to, told, accepted, again,
                 delivered, forgotten>>

-----------------------------------------------------------------------------
(* Kill, revive, crash and boot.                                           *)

\* kill: removeQueueRecord, as well as it can. Nothing to write when the store
\* has no record. A send that is under way goes on by itself; where it throws
\* it changes nothing more.
Kill(a, ok) ==
  /\ up /\ a \in alive
  /\ alive' = alive \ {a}
  /\ dropped' = dropped \cup queue[a]
  /\ forgotten' = forgotten \cup keys[a]
  /\ queue' = [queue EXCEPT ![a] = {}]
  /\ keys' = [keys EXCEPT ![a] = {}]
  /\ flush' = [flush EXCEPT ![a] = NoFlush]
  /\ outlived' = IF flush[a] = NoFlush \/ a \notin Silent THEN outlived
                 ELSE outlived \cup {[agent |-> a, queue |-> queue[a],
                                      keys |-> keys[a], batch |-> flush[a].batch]}
  /\ Cardinality(outlived') <= MaxOutlived
  /\ IF cache[a] = NoRecord THEN UNCHANGED <<cache, disk>>
     ELSE Save(a, {}, {}, ok)
  /\ UNCHANGED <<up, to, told, accepted, again, delivered>>

\* restoreOrReviveAgent reads the agent's record from the store.
Revive(a) ==
  /\ up /\ a \notin alive
  /\ alive' = alive \cup {a}
  /\ queue' = [queue EXCEPT ![a] = cache[a].queue]
  /\ keys' = [keys EXCEPT ![a] = cache[a].keys]
  /\ UNCHANGED <<up, cache, disk, flush, outlived, to, told, history>>

Crash ==
  /\ up
  /\ up' = FALSE
  /\ queue' = [a \in Agents |-> {}]
  /\ keys' = [a \in Agents |-> {}]
  /\ flush' = [a \in Agents |-> NoFlush]
  /\ outlived' = {}
  /\ UNCHANGED <<alive, cache, disk, to, told, history>>

\* restoreAgents: load the store, replay each agent's record, prune the records
\* of agents that are gone, as well as it can.
Boot(ok) ==
  /\ ~up
  /\ up' = TRUE
  /\ queue' = [a \in Agents |-> IF a \in alive THEN disk[a].queue ELSE {}]
  /\ keys' = [a \in Agents |-> IF a \in alive THEN disk[a].keys ELSE {}]
  /\ LET pruned == [a \in Agents |-> IF a \in alive THEN disk[a] ELSE NoRecord]
     IN disk' = IF ok THEN pruned ELSE disk
  /\ cache' = disk'
  /\ UNCHANGED <<alive, flush, outlived, to, told, history>>

-----------------------------------------------------------------------------

AgentStep(a, ok) ==
  \/ SendAccepted(a, ok)
  \/ Kill(a, ok)
  \/ \E m \in Msgs :
       EnqueueMessage(a, m, ok) \/ Handoff(a, m, ok) \/ CancelQueued(a, m, ok)

AgentQuietStep(a) ==
  \/ FlushSends(a)
  \/ BackendTakes(a)
  \/ SessionCloses(a)
  \/ SendFails(a)
  \/ Revive(a)
  \/ \E m \in Msgs : EnqueueRefused(a, m)

Next ==
  \/ \E a \in Agents, ok \in Writes : AgentStep(a, ok)
  \/ \E a \in Agents : AgentQuietStep(a)
  \/ Crash
  \/ \E s \in outlived, ok \in Writes : OutlivedSendReturns(s, ok)
  \/ \E ok \in Writes : Boot(ok)

Spec == Init /\ [][Next]_vars

-----------------------------------------------------------------------------
(* Properties.                                                             *)

Records == [queue : SUBSET Msgs, keys : SUBSET Msgs]
Flushes == [batch : SUBSET Msgs, send : {"none", "waiting", "taken", "closed"}]
Outlived == [agent : Agents, queue : SUBSET Msgs, keys : SUBSET Msgs,
             batch : SUBSET Msgs]

\* Type correctness of the live queues, of the store and of its cache.
TypeOK ==
  /\ up \in BOOLEAN
  /\ alive \subseteq Agents
  /\ queue \in [Agents -> SUBSET Msgs]
  /\ keys \in [Agents -> SUBSET Msgs]
  /\ cache \in [Agents -> Records]
  /\ disk \in [Agents -> Records]
  /\ flush \in [Agents -> Flushes]
  /\ outlived \subseteq Outlived
  /\ to \in [Msgs -> Agents \cup {NoAgent}]
  /\ told \in [Msgs -> {"none", "ok", "refused"}]
  /\ accepted \subseteq Msgs
  /\ again \subseteq Msgs
  /\ delivered \subseteq Msgs
  /\ dropped \subseteq Msgs
  /\ forgotten \subseteq Msgs

\* m is with a backend, dropped on purpose, or in the store on disk, and then in
\* the live queue whenever the server runs.
Kept(m) ==
  \/ m \in delivered \cup dropped
  \/ /\ m \in disk[to[m]].queue
     /\ up => m \in queue[to[m]]

\* An acknowledged message is never lost where send() throws on a closed
\* session: a client that heard a success, a deduped retry included, has its
\* message kept across failed writes, lost answers, kills and crashes, and
\* whatever the other agents write to the one store they share.
AckedNeverLost ==
  \A m \in Msgs : told[m] = "ok" /\ to[m] \notin Silent => Kept(m)

\* A message every call refused never comes back from the dead: no backend
\* takes what no call accepted (copy on success).
RefusedStaysOut == delivered \subseteq accepted

\* A retry inside the dedupe window is accepted once, whatever was lost or
\* restarted in between, where send() throws on a closed session. Only a kill
\* forgets a key.
AcceptedOnce == \A m \in again : to[m] \notin Silent => m \in forgotten
=============================================================================
