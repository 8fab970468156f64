----------------------------- MODULE SlotTable -----------------------------
(***************************************************************************)
(* What the process slot promises the rest of the server: the transition   *)
(* table at the head of server/session-manager.ts, with the processes      *)
(* behind it. `bound` is the process a send goes to; `retired` are the     *)
(* processes that were bound and never will be again.                      *)
(***************************************************************************)
CONSTANTS Sessions, NoSession

VARIABLES kind, bound, retired

tableVars == <<kind, bound, retired>>

Init ==
  /\ kind = "released"
  /\ bound = NoSession
  /\ retired = {}

\* install, or the end of a swap: only a free or swapping slot, and only a
\* process that was never bound before.
Bind(s) ==
  /\ kind \in {"released", "swapping"}
  /\ s \notin retired
  /\ kind' = "live"
  /\ bound' = s
  /\ UNCHANGED retired

\* Unbinding: a swap takes the lock, or a release or a dead stream frees it.
Unbind(to) ==
  /\ kind = "live"
  /\ kind' = to
  /\ bound' = NoSession
  /\ retired' = retired \cup {bound}

\* A swap that could not build its replacement.
Unbuilt ==
  /\ kind = "swapping"
  /\ kind' = "released"
  /\ UNCHANGED <<bound, retired>>

\* kill, from every kind but dead, which is terminal.
Kill ==
  /\ kind # "dead"
  /\ kind' = "dead"
  /\ bound' = NoSession
  /\ retired' = IF bound = NoSession THEN retired ELSE retired \cup {bound}

Next ==
  \/ \E s \in Sessions : Bind(s)
  \/ \E to \in {"swapping", "released"} : Unbind(to)
  \/ Unbuilt
  \/ Kill

\* The lock does not stay taken.
SwapEnds == kind = "swapping" /\ Next

SafeSpec == Init /\ [][Next]_tableVars
Spec == SafeSpec /\ WF_tableVars(SwapEnds)
=============================================================================
