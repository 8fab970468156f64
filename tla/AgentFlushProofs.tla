-------------------------- MODULE AgentFlushProofs --------------------------
(***************************************************************************)
(* Proofs about AgentFlush: the agent's record keeps its shape across all  *)
(* handlers (TypeCorrect), no message is accepted by a backend twice       *)
(* (TakenOnce), the state the office shows of an agent fits the turn it    *)
(* runs (StateFits), and no wakeup of its queue is lost (WakeupsKept).     *)
(*                                                                         *)
(* The handlers are compositions of synchronous pieces, so the proofs are  *)
(* compositions of lemmas about the pieces.                                *)
(*                                                                         *)
(* For the messages, nearly all pieces Shed: they move no message into the *)
(* queue or a call.  The invariant Sound says that the places a message    *)
(* can be in are Apart; only the few pieces that do move messages need an  *)
(* argument of their own.                                                  *)
(*                                                                         *)
(* For the turns, each piece has a lemma that says what it does to the     *)
(* turn: it leaves it alone (Same), sets the state (Sets), ends a call     *)
(* (CallEnds, CallFails), blames someone (Failed) or tears the session     *)
(* down (Torn).  The lemmas about the actions chain these relations.       *)
(***************************************************************************)
EXTENDS AgentFlush, TLAPS

\* How a call that reached the backend can have ended.
SentEnds == {"open", "cut", "done", "fail"}

\* A call fits its stage: one that reached the backend was not cut in its
\* pre-send window.
EndFits(r) == r.at \in {"sending", "sent"} => r.end \in SentEnds

\* The flush has a call of its own only while it is at its turn, the calls fit
\* their stages, and a swap that holds the slot has a caller.
CallsFit(x) ==
  /\ x.slot = "swap" => x.swap # "none"
  /\ x.flush.at # "run" => x.run["flush"].at = "none" /\ x.run["flush"].items = {}
  /\ \A o \in Owners : EndFits(x.run[o])

\* What a piece of a handler may do with the messages the agent holds: it
\* leaves the queue and the typed message alone and at most lets go of what a
\* call carries.
Sheds(x, y) ==
  /\ y \in Managed
  /\ CallsFit(x) => CallsFit(y)
  /\ y.queue = x.queue /\ y.typed = x.typed
  /\ \A o \in Owners : y.run[o].items \subseteq x.run[o].items

USE DEF Owners, CallsFit

-----------------------------------------------------------------------------
(* The synchronous pieces of the handlers.                                 *)

\* Pieces of a handler compose.
LEMMA ShedsTrans ==
  ASSUME NEW x, NEW y, NEW z, Sheds(x, y), Sheds(y, z)
  PROVE  Sheds(x, z)
BY DEF Sheds

\* A piece of a handler leaves a well-formed agent.
LEMMA ShedsTyped ==
  ASSUME NEW x, NEW y, Sheds(x, y)
  PROVE  y \in Managed
BY DEF Sheds

\* A piece that does nothing.
LEMMA ShedsSelf ==
  ASSUME NEW x \in Managed
  PROVE  Sheds(x, x)
BY DEF Sheds

\* The absent flush and the absent call are well formed.
LEMMA NoneTyped ==
  /\ NoFlush \in FlushRun /\ NoRun \in TurnRun
  /\ NoRun.at = "none" /\ NoRun.items = {} /\ EndFits(NoRun)
BY DEF NoFlush, FlushRun, FlushAt, NoRun, TurnRun, EndFits

\* Asking a running flush to run again.
LEMMA RerunSheds ==
  ASSUME NEW x \in Managed
  PROVE  Sheds(x, [x EXCEPT !.flush.rerun = TRUE])
BY DEF Sheds, Managed, FlushRun

\* A flush that is not at its turn moves on.
LEMMA SetFlushSheds ==
  ASSUME NEW x \in Managed, NEW at \in FlushAt, x.flush.at # "run" \/ at = "run"
  PROVE  Sheds(x, [x EXCEPT !.flush.at = at])
BY DEF Sheds, Managed, FlushRun

\* requestFlush starts a flush, marks the running one, or does nothing.
LEMMA RequestFlushSheds ==
  ASSUME NEW x \in Managed
  PROVE  Sheds(x, RequestFlush(x))
<1> DEFINE y == [x EXCEPT !.gap = @ \ {"flush"}]
           at == IF x.pending # "none" THEN "turn" ELSE "begin"
<1>1. Sheds(x, y)
  BY DEF Sheds, Managed
<1>2. y \in Managed /\ at \in FlushAt /\ y.flush = x.flush
  BY <1>1 DEF Sheds, FlushAt, Managed
<1>3. RequestFlush(x) \in
        {x, y, [y EXCEPT !.flush.rerun = TRUE]}
        \cup (IF x.flush.at = "none" THEN {[y EXCEPT !.flush.at = at]} ELSE {})
  BY DEF RequestFlush
<1> HIDE DEF y, at
<1> QED BY <1>1, <1>2, <1>3, RerunSheds, SetFlushSheds, ShedsSelf, ShedsTrans

\* updateState sets the state and may request a flush.
LEMMA UpdateStateSheds ==
  ASSUME NEW x \in Managed, NEW s \in States
  PROVE  Sheds(x, UpdateState(x, s))
<1> DEFINE y == [x EXCEPT !.state = s, !.gap = @ \ {"busy"}]
<1>1. Sheds(x, y)
  BY DEF Sheds, Managed
<1>2. y \in Managed
  BY <1>1 DEF Sheds
<1> QED BY <1>1, <1>2, ShedsSelf, RequestFlushSheds, ShedsTrans DEF UpdateState

\* The record of an overlap is history only.
LEMMA OverlapsSheds ==
  ASSUME NEW x \in Managed, NEW others \in SUBSET Owners
  PROVE  Sheds(x, Overlaps(x, others))
BY DEF Overlaps, Sheds, Managed

\* The finally of a flush forgets the flush's own call.
LEMMA FlushEndsSheds ==
  ASSUME NEW x \in Managed
  PROVE  Sheds(x, FlushEnds(x))
<1> DEFINE y == [x EXCEPT !.flush = NoFlush, !.run["flush"] = NoRun]
<1>0. y \in Managed
  BY NoneTyped DEF Managed
<1>a. /\ y.queue = x.queue /\ y.typed = x.typed /\ y.run["flush"] = NoRun
      /\ y.slot = x.slot /\ y.swap = x.swap
      /\ \A o \in Owners : o # "flush" => y.run[o] = x.run[o]
  BY DEF Managed
<1>1. Sheds(x, y)
  <2> HIDE DEF y
  <2> QED BY <1>0, <1>a, NoneTyped DEF Sheds
<1>2. y \in Managed
  BY <1>1 DEF Sheds
<1> QED BY <1>1, <1>2, RequestFlushSheds, ShedsTrans DEF FlushEnds

\* The busy claim.
LEMMA BeginTurnSheds ==
  ASSUME NEW x \in Managed
  PROVE  Sheds(x, BeginTurn(x))
<1> DEFINE y == [x EXCEPT !.clock = TRUE]
<1>1. Sheds(x, y)
  BY DEF Sheds, Managed
<1>2. y \in Managed
  BY <1>1 DEF Sheds
<1> QED BY <1>1, <1>2, ShedsSelf, UpdateStateSheds, ShedsTrans DEF BeginTurn, States

\* The busy claim starts no flush: busy is no idle state.
LEMMA BeginTurnFlush ==
  ASSUME NEW x \in Managed
  PROVE  LET y == BeginTurn(x)
         IN /\ y.flush = x.flush /\ y.run = x.run
            /\ y.slot = x.slot /\ y.swap = x.swap
BY DEF BeginTurn, UpdateState, IsQueueIdle, Managed

\* A released hold requests a flush.
LEMMA ReleaseHoldSheds ==
  ASSUME NEW x \in Managed, NEW h
  PROVE  Sheds(x, ReleaseHold(x, h))
<1> DEFINE y == [x EXCEPT !.holds = @ \ {h}]
<1>1. Sheds(x, y)
  BY DEF Sheds, Managed
<1>2. y \in Managed
  BY <1>1 DEF Sheds
<1> QED BY <1>1, <1>2, RequestFlushSheds, ShedsTrans DEF ReleaseHold

\* Calls that keep their stage or end, and carry no more than before.
LEMMA SetRunSheds ==
  ASSUME NEW x \in Managed, NEW r \in [Owners -> TurnRun],
         \A o \in Owners : /\ r[o].items \subseteq x.run[o].items
                           /\ r[o].at \in {x.run[o].at, "none"}
                           /\ EndFits(x.run[o]) => EndFits(r[o])
  PROVE  Sheds(x, [x EXCEPT !.run = r])
BY DEF Sheds, Managed

\* Moving the cancel token closes the calls that are not sent yet.
LEMMA BumpTokenSheds ==
  ASSUME NEW x \in Managed, NEW why \in {"stop", "cut", "gone"}
  PROVE  Sheds(x, BumpToken(x, why))
<1> DEFINE run == [o \in Owners |->
                     IF x.run[o].at = "presend" /\ x.run[o].end = "open"
                       THEN [x.run[o] EXCEPT !.end = why] ELSE x.run[o]]
           cut == x.flush.cut \/ x.flush.at = "cap"
<1>1. x.run \in [Owners -> TurnRun] /\ x.flush \in FlushRun
  BY DEF Managed
<1>2. run \in [Owners -> TurnRun]
  BY <1>1 DEF TurnRun
<1>3. \A o \in Owners : /\ run[o].items = x.run[o].items
                        /\ run[o].at = x.run[o].at
                        /\ EndFits(x.run[o]) => EndFits(run[o])
  BY <1>1 DEF TurnRun, EndFits
<1>4. cut \in BOOLEAN
  BY <1>1 DEF FlushRun
<1> DEFINE y == [x EXCEPT !.run = run]
<1>5. BumpToken(x, why) = [x EXCEPT !.run = run, !.flush.cut = cut]
  BY DEF BumpToken
<1> HIDE DEF run, cut
<1>6. [x EXCEPT !.run = run, !.flush.cut = cut] = [y EXCEPT !.flush.cut = cut]
  BY DEF Managed
<1>7. Sheds(x, y)
  BY <1>2, <1>3, SetRunSheds
<1>8. y \in Managed
  BY <1>7 DEF Sheds
<1> HIDE DEF y
<1>9. Sheds(y, [y EXCEPT !.flush.cut = cut])
  BY <1>4, <1>8 DEF Sheds, Managed, FlushRun
<1> QED BY <1>5, <1>6, <1>7, <1>9, ShedsTrans

\* A settled turn lets the flush that waits for it begin.
LEMMA SettledSheds ==
  ASSUME NEW x \in Managed
  PROVE  Sheds(x, Settled(x))
<1> DEFINE y == [x EXCEPT !.pending = "none"]
           at == IF x.flush.at = "turn" THEN "begin" ELSE x.flush.at
<1>1. Sheds(x, y)
  BY DEF Sheds, Managed
<1>2. y \in Managed
  BY <1>1 DEF Sheds
<1>3. at \in FlushAt /\ (y.flush.at # "run" \/ at = "run")
  BY DEF Managed, FlushRun, FlushAt
<1>4. Settled(x) = [y EXCEPT !.flush.at = at]
  BY DEF Settled, Managed
<1> HIDE DEF y, at
<1> QED BY <1>1, <1>2, <1>3, <1>4, SetFlushSheds, ShedsTrans

\* A call is told how its turn ended.
LEMMA RunEndSheds ==
  ASSUME NEW x \in Managed, NEW o \in Owners, NEW e \in {"cut", "done", "fail"}
  PROVE  Sheds(x, [x EXCEPT !.run[o].end = e])
<1> DEFINE r == [x.run EXCEPT ![o].end = e]
<1>1. x.run \in [Owners -> TurnRun]
  BY DEF Managed
<1>2. r \in [Owners -> TurnRun]
  BY <1>1 DEF TurnRun
<1>a. \A p \in Owners : /\ r[p].items \subseteq x.run[p].items
                        /\ r[p].at \in {x.run[p].at, "none"}
                        /\ EndFits(x.run[p]) => EndFits(r[p])
  BY <1>1 DEF TurnRun, EndFits, SentEnds
<1>3. [x EXCEPT !.run[o].end = e] = [x EXCEPT !.run = r]
  OBVIOUS
<1> HIDE DEF r
<1>4. Sheds(x, [x EXCEPT !.run = r])
  BY <1>2, <1>a, SetRunSheds
<1> QED BY <1>3, <1>4

\* Tearing a session down moves the token and rejects the turn.
LEMMA TeardownSheds ==
  ASSUME NEW x \in Managed
  PROVE  Sheds(x, Teardown(x))
<1> DEFINE b == BumpToken(x, "cut")
           y == [b EXCEPT !.clock = FALSE, !.stamped = FALSE]
           o == x.pending
           z == [y EXCEPT !.run[o].end = "cut"]
<1>0. b \in Managed
  BY BumpTokenSheds DEF Sheds
<1>1. Sheds(b, y)
  <2> HIDE DEF b
  <2>1. y \in Managed
    BY <1>0 DEF Managed
  <2>2. /\ y.queue = b.queue /\ y.typed = b.typed /\ y.run = b.run
        /\ y.flush = b.flush /\ y.slot = b.slot /\ y.swap = b.swap
    BY <1>0 DEF Managed
  <2> HIDE DEF y
  <2> QED BY <2>1, <2>2 DEF Sheds
<1>2. Sheds(x, y)
  BY <1>1, BumpTokenSheds, ShedsTrans
<1>3. ASSUME o # "none" PROVE Sheds(y, z)
  <2>1. o \in Owners /\ y \in Managed
    BY <1>2, <1>3 DEF Sheds, Managed
  <2> HIDE DEF y, o
  <2> QED BY <2>1, RunEndSheds
<1>4. Teardown(x) = IF o = "none" THEN y
                    ELSE Settled(IF y.run[o].at = "sent" THEN y ELSE z)
  BY DEF Teardown
<1> HIDE DEF y, o, z
<1>5. y \in Managed /\ (o # "none" => z \in Managed)
  BY <1>2, <1>3 DEF Sheds
<1> QED BY <1>2, <1>3, <1>4, <1>5, SettledSheds, ShedsTrans

\* The error state.
LEMMA StampErrorSheds ==
  ASSUME NEW x \in Managed
  PROVE  Sheds(x, StampError(x))
<1>1. Sheds(x, Overlaps(x, Owners)) /\ Overlaps(x, Owners) \in Managed
  BY OverlapsSheds DEF Sheds
<1> QED BY <1>1, UpdateStateSheds, ShedsTrans DEF StampError, States

\* The hold of an unconfigured backend is released.
LEMMA ReleaseBackendHoldSheds ==
  ASSUME NEW x \in Managed
  PROVE  Sheds(x, ReleaseBackendHold(x))
BY ReleaseHoldSheds, ShedsSelf DEF ReleaseBackendHold

\* The queue is held for an unconfigured backend.
LEMMA HoldForBackendSheds ==
  ASSUME NEW x \in Managed
  PROVE  Sheds(x, HoldForBackend(x))
<1> DEFINE y == IF x.queue # {} THEN [x EXCEPT !.holds = @ \cup {"backend"}]
                ELSE x
<1>1. Sheds(x, y)
  BY DEF Sheds, Managed
<1>2. y \in Managed
  BY <1>1 DEF Sheds
<1> HIDE DEF y
<1>3. Sheds(y, UpdateState(y, "waiting"))
  BY <1>2, UpdateStateSheds DEF States
<1> QED BY <1>1, <1>3, ShedsTrans DEF HoldForBackend, y

\* The kinds of a failure (ownedTurnFailure).
Failures == {"config", "capacity", "error"}

\* A failed turn sets the state by the failure's kind.
LEMMA OwnedTurnFailureSheds ==
  ASSUME NEW x \in Managed, NEW o \in Owners, NEW kind \in Failures
  PROVE  Sheds(x, OwnedTurnFailure(x, o, kind))
<1> DEFINE y == Overlaps(x, Owners \ {o})
<1>1. Sheds(x, y)
  BY OverlapsSheds
<1>2. y \in Managed
  BY <1>1 DEF Sheds
<1>3. OwnedTurnFailure(x, o, kind) \in
        {HoldForBackend(y), UpdateState(y, "waiting"), UpdateState(y, "error")}
  BY DEF OwnedTurnFailure, Failures
<1> HIDE DEF y
<1> QED BY <1>1, <1>2, <1>3, HoldForBackendSheds, UpdateStateSheds, ShedsTrans
        DEF States

\* The handoff enters another phase.
LEMMA SetPhaseSheds ==
  ASSUME NEW x \in Managed, NEW ph \in {"none", "brief", "reset", "asked", "auto"}
  PROVE  Sheds(x, [x EXCEPT !.phase = ph])
BY DEF Sheds, Managed

\* A brief turn that comes to nothing ends the handoff.
LEMMA BriefEndsSheds ==
  ASSUME NEW x \in Managed
  PROVE  Sheds(x, BriefEnds(x)) /\ Sheds(x, FailAutoHandoff(x))
<1> DEFINE y == [x EXCEPT !.phase = "none"]
<1>1. Sheds(x, y)
  BY SetPhaseSheds
<1>2. y \in Managed
  BY <1>1 DEF Sheds
<1> QED BY <1>1, <1>2, RequestFlushSheds, ShedsSelf, ShedsTrans
        DEF BriefEnds, FailAutoHandoff

\* The call of a turn is over.
LEMMA EndRunSheds ==
  ASSUME NEW x \in Managed, NEW o \in Owners
  PROVE  Sheds(x, [x EXCEPT !.run[o] = NoRun])
<1> DEFINE r == [x.run EXCEPT ![o] = NoRun]
<1>1. x.run \in [Owners -> TurnRun]
  BY DEF Managed
<1>2. r \in [Owners -> TurnRun]
  BY <1>1, NoneTyped
<1>3. \A p \in Owners : /\ r[p].items \subseteq x.run[p].items
                        /\ r[p].at \in {x.run[p].at, "none"}
                        /\ EndFits(x.run[p]) => EndFits(r[p])
  BY <1>1 DEF NoRun, EndFits
<1> QED BY <1>2, <1>3, SetRunSheds

\* The edit enters another stage.
LEMMA SetEditSheds ==
  ASSUME NEW x \in Managed,
         NEW e \in {"none", "read", "fork", "turn", "back", "unset"}
  PROVE  Sheds(x, [x EXCEPT !.edit = e])
BY DEF Sheds, Managed

\* The resume enters another stage.
LEMMA SetResumeSheds ==
  ASSUME NEW x \in Managed, NEW r \in {"none", "claimed", "swap"}
  PROVE  Sheds(x, [x EXCEPT !.resume = r])
BY DEF Sheds, Managed

\* The caller of a completed turn goes on.
LEMMA TurnDoneSheds ==
  ASSUME NEW x \in Managed, NEW o \in Owners
  PROVE  Sheds(x, TurnDone(x, o))
<1> DEFINE y == [x EXCEPT !.run[o] = NoRun]
<1>1. Sheds(x, y)
  BY EndRunSheds
<1>2. y \in Managed
  BY <1>1 DEF Sheds
<1> DEFINE z == [y EXCEPT !.edit = "none"]
<1>3. Sheds(y, [y EXCEPT !.phase = "reset"]) /\ Sheds(y, z)
  BY <1>2, SetPhaseSheds, SetEditSheds
<1>4. z \in Managed
  BY <1>3 DEF Sheds
<1>5. Sheds(z, ReleaseHold(z, "edit"))
  BY <1>4, ReleaseHoldSheds
<1>6. TurnDone(x, o) \in {FlushEnds(x), y, [y EXCEPT !.phase = "reset"],
                          ReleaseHold(z, "edit")}
  BY DEF TurnDone
<1> HIDE DEF y, z
<1> QED BY <1>1, <1>3, <1>5, <1>6, FlushEndsSheds, ShedsTrans

\* The caller of a failed turn goes on.
LEMMA TurnFailedSheds ==
  ASSUME NEW x \in Managed, NEW o \in Owners, NEW kind \in Failures
  PROVE  Sheds(x, TurnFailed(x, o, kind))
<1> DEFINE y == [x EXCEPT !.run[o] = NoRun]
           f == OwnedTurnFailure(x, o, kind)
           g == OwnedTurnFailure(y, o, kind)
           e == IF kind = "config" THEN "unset" ELSE "back"
<1>1. Sheds(x, y)
  BY EndRunSheds
<1>2. y \in Managed
  BY <1>1 DEF Sheds
<1>3. TurnFailed(x, o, kind) \in
         {FlushEnds(f), FlushEnds(x), g, BriefEnds(g), [y EXCEPT !.edit = e]}
  BY DEF TurnFailed
<1>4. Sheds(x, f) /\ Sheds(y, g)
  BY <1>2, OwnedTurnFailureSheds
<1>5. f \in Managed /\ g \in Managed
  BY <1>4 DEF Sheds
<1>6. Sheds(y, [y EXCEPT !.edit = e])
  BY <1>2, SetEditSheds
<1> HIDE DEF f, g, y, e
<1> QED BY <1>1, <1>3, <1>4, <1>5, <1>6, FlushEndsSheds, BriefEndsSheds,
           ShedsTrans

\* A turn resolves: its caller goes on, now or once send() returned.
LEMMA ResolvesSheds ==
  ASSUME NEW x \in Managed, NEW o \in Owners \cup {"none"}
  PROVE  Sheds(x, Resolves(x, o))
BY TurnDoneSheds, RunEndSheds, ShedsSelf DEF Resolves

\* A turn rejects: its caller goes on, now or once send() returned.
LEMMA RejectsSheds ==
  ASSUME NEW x \in Managed, NEW o \in Owners \cup {"none"}, NEW kind \in Failures
  PROVE  Sheds(x, Rejects(x, o, kind))
BY TurnFailedSheds, RunEndSheds, ShedsSelf DEF Rejects

\* A direct send that a swap cut may go back to the queue; nothing else moves.
LEMMA TurnSwappedSheds ==
  ASSUME NEW x \in Managed, NEW o \in Owners
  PROVE  Sheds(x, TurnSwapped(x, o, FALSE))
<1> DEFINE y == [x EXCEPT !.run[o] = NoRun]
           f == IF x.alive THEN [x EXCEPT !.flush.rerun = TRUE] ELSE x
           e == [y EXCEPT !.edit = "none"]
<1>1. Sheds(x, y)
  BY EndRunSheds
<1>2. y \in Managed
  BY <1>1 DEF Sheds
<1>3. TurnSwapped(x, o, FALSE) \in
        {FlushEnds(f), y, BriefEnds(y), ReleaseHold(e, "edit")}
  BY DEF TurnSwapped
<1>4. Sheds(x, f) /\ Sheds(y, e)
  BY <1>2, RerunSheds, ShedsSelf, SetEditSheds
<1>5. f \in Managed /\ e \in Managed
  BY <1>4 DEF Sheds
<1> HIDE DEF y, f, e
<1>6. Sheds(x, FlushEnds(f))
  BY <1>4, <1>5, FlushEndsSheds, ShedsTrans
<1>7. Sheds(x, BriefEnds(y))
  BY <1>1, <1>2, BriefEndsSheds, ShedsTrans
<1>8. Sheds(y, ReleaseHold(e, "edit"))
  BY <1>4, <1>5, ReleaseHoldSheds, ShedsTrans
<1>9. Sheds(x, ReleaseHold(e, "edit"))
  BY <1>1, <1>8, ShedsTrans
<1> QED BY <1>1, <1>3, <1>6, <1>7, <1>9

\* The caller of a turn that a swap cut goes on.
LEMMA SwappedSheds ==
  ASSUME NEW x \in Managed, NEW o \in Owners \cup {"none"}
  PROVE  Sheds(x, Swapped(x, o))
BY TurnSwappedSheds, ShedsSelf DEF Swapped

\* A finished Stop lets the flush that waits for it check again.
LEMMA AbortDoneSheds ==
  ASSUME NEW x \in Managed
  PROVE  Sheds(x, AbortDone(x))
<1> DEFINE y == [x EXCEPT !.abort = "none"]
           at == IF x.flush.at = "abort" THEN "recheck" ELSE x.flush.at
<1>1. Sheds(x, y)
  BY DEF Sheds, Managed
<1>2. y \in Managed
  BY <1>1 DEF Sheds
<1>3. at \in FlushAt /\ (y.flush.at # "run" \/ at = "run")
  BY DEF Managed, FlushRun, FlushAt
<1>4. AbortDone(x) = [y EXCEPT !.flush.at = at]
  BY DEF AbortDone, Managed
<1> HIDE DEF y, at
<1> QED BY <1>1, <1>2, <1>3, <1>4, SetFlushSheds, ShedsTrans

\* A newer turn settles the one it finds pending.
LEMMA SupersedeSheds ==
  ASSUME NEW x \in Managed
  PROVE  Sheds(x, Supersede(x))
<1> DEFINE y == Settled(x)
           p == x.pending
<1>1. Sheds(x, y)
  BY SettledSheds
<1>2. y \in Managed /\ p \in Owners \cup {"none"}
  BY <1>1 DEF Sheds, Managed
<1>3. p # "none" => Supersede(x) \in {[y EXCEPT !.run[p].end = "fail"],
                                      FlushEnds(y), TurnFailed(y, p, "error")}
  BY DEF Supersede
<1>4. p = "none" => Supersede(x) = x
  BY DEF Supersede
<1> HIDE DEF y, p
<1>5. ASSUME p # "none"
      PROVE  /\ Sheds(y, [y EXCEPT !.run[p].end = "fail"])
             /\ Sheds(y, FlushEnds(y)) /\ Sheds(y, TurnFailed(y, p, "error"))
  BY <1>2, <1>5, RunEndSheds, FlushEndsSheds, TurnFailedSheds DEF Failures
<1> QED BY <1>1, <1>3, <1>4, <1>5, ShedsSelf, ShedsTrans

\* The slot and the swap that holds it change.
LEMMA SetSlotSheds ==
  ASSUME NEW x \in Managed, NEW sl \in {"live", "none", "swap"},
         NEW sw \in {"none", "settings", "stop", "fork", "back", "resume"},
         sl = "swap" => sw # "none"
  PROVE  Sheds(x, [x EXCEPT !.slot = sl, !.swap = sw])
<1> DEFINE y == [x EXCEPT !.slot = sl]
           z == [x EXCEPT !.slot = sl, !.swap = sw]
<1>1. y \in Managed
  BY DEF Managed
<1>2. z = [y EXCEPT !.swap = sw]
  BY DEF Managed
<1>3. z \in Managed
  <2> HIDE DEF y, z
  <2> QED BY <1>1, <1>2 DEF Managed
<1>4. /\ z.queue = x.queue /\ z.typed = x.typed /\ z.run = x.run
      /\ z.flush = x.flush /\ z.slot = sl /\ z.swap = sw
  BY DEF Managed
<1> HIDE DEF z
<1>5. Sheds(x, z)
  BY <1>3, <1>4 DEF Sheds
<1> QED BY <1>5 DEF z

\* A swap takes the slot: it tears the old session down.
LEMMA SwapStartsSheds ==
  ASSUME NEW x \in Managed,
         NEW kind \in {"settings", "stop", "fork", "back", "resume"}
  PROVE  Sheds(x, SwapStarts(x, kind))
<1> DEFINE y == [x EXCEPT !.flow = IF @ = "permission" THEN "none" ELSE @]
           z == [Teardown(y) EXCEPT !.slot = "swap", !.swap = kind]
<1>1. Sheds(x, y)
  BY DEF Sheds, Managed
<1>2. y \in Managed
  BY <1>1 DEF Sheds
<1>3. Sheds(y, Teardown(y)) /\ Teardown(y) \in Managed
  BY <1>2, TeardownSheds, ShedsTyped
<1>4. Sheds(Teardown(y), z)
  BY <1>3, SetSlotSheds
<1>5. z \in Managed /\ x.pending \in Owners \cup {"none"}
  BY <1>4 DEF Sheds, Managed
<1>6. SwapStarts(x, kind) = Swapped(z, x.pending)
  BY DEF SwapStarts
<1> HIDE DEF y, z
<1>7. Sheds(z, Swapped(z, x.pending))
  BY <1>5, SwappedSheds
<1> QED BY <1>1, <1>3, <1>4, <1>6, <1>7, ShedsTrans

\* A call of runAgentTurn begins: it carries the items, and nothing else moves.
\* A call that starts: nothing has been sent and nothing has ended it.
Call(items) == [at |-> "presend", end |-> "open", items |-> items]

\* A call starts with the messages it was given.
LEMMA StartsTurnSheds ==
  ASSUME NEW x \in Managed, NEW o \in Owners, NEW items \in SUBSET Items
  PROVE  /\ [x EXCEPT !.run[o] = Call(items)] \in Managed
         /\ Sheds([x EXCEPT !.run[o] = Call(items)], StartsTurn(x, o, items))
<1> DEFINE y == Overlaps(x, Owners \ {o})
           z == BeginTurn(y)
<1>1. Sheds(x, y)
  BY OverlapsSheds
<1>2. y \in Managed
  BY <1>1 DEF Sheds
<1>3. Sheds(y, z)
  BY <1>2, BeginTurnSheds
<1>4. Sheds(x, z)
  BY <1>1, <1>3, ShedsTrans
<1>5. StartsTurn(x, o, items) = [z EXCEPT !.run[o] = Call(items)]
  BY DEF StartsTurn, Call
<1>6. Call(items) \in TurnRun /\ Call(items).items = items
  BY DEF Call, TurnRun
<1> HIDE DEF y, z
<1>7. z \in Managed
  BY <1>4 DEF Sheds
<1>8. \A w \in Managed : LET v == [w EXCEPT !.run[o] = Call(items)]
                         IN /\ v \in Managed /\ v.queue = w.queue
                            /\ v.typed = w.typed /\ v.run[o] = Call(items)
                            /\ v.flush = w.flush
                            /\ v.slot = w.slot /\ v.swap = w.swap
                            /\ \A p \in Owners \ {o} : v.run[p] = w.run[p]
  BY <1>6 DEF Managed
<1>9. /\ z.flush = x.flush /\ z.run = x.run
      /\ z.slot = x.slot /\ z.swap = x.swap
  BY <1>2, BeginTurnFlush DEF z, y, Overlaps, Managed
<1>10. Call(items).at = "presend" /\ EndFits(Call(items))
  BY DEF Call, EndFits
<1> DEFINE v == [x EXCEPT !.run[o] = Call(items)]
           w == [z EXCEPT !.run[o] = Call(items)]
<1>11. /\ v \in Managed /\ v.queue = x.queue /\ v.typed = x.typed
       /\ v.slot = x.slot /\ v.swap = x.swap
       /\ v.run[o] = Call(items) /\ v.flush = x.flush
       /\ \A p \in Owners \ {o} : v.run[p] = x.run[p]
  BY <1>8
<1>12. /\ w \in Managed /\ w.queue = z.queue /\ w.typed = z.typed
       /\ w.slot = z.slot /\ w.swap = z.swap
       /\ w.run[o] = Call(items) /\ w.flush = z.flush
       /\ \A p \in Owners \ {o} : w.run[p] = z.run[p]
  BY <1>7, <1>8
<1> HIDE DEF v, w
<1>13. CallsFit(v) => CallsFit(w)
  BY <1>9, <1>10, <1>11, <1>12
<1>14. Sheds(v, w)
  BY <1>4, <1>11, <1>12, <1>13 DEF Sheds
<1> QED BY <1>5, <1>11, <1>14 DEF v, w

\* A message joins the queue.
LEMMA EnqueueSheds ==
  ASSUME NEW x \in Managed, NEW i \in Items
  PROVE  /\ [x EXCEPT !.queue = @ \cup {i}] \in Managed
         /\ Sheds([x EXCEPT !.queue = @ \cup {i}], Enqueue(x, i))
<1> DEFINE q == [x EXCEPT !.queue = @ \cup {i}]
           y == ReleaseBackendHold(q)
           r == IF y.resume = "none" THEN "claimed" ELSE y.resume
<1>1. q \in Managed
  BY DEF Managed
<1>2. Sheds(q, y)
  BY <1>1, ReleaseBackendHoldSheds
<1>3. Enqueue(x, i) \in {[y EXCEPT !.resume = r], RequestFlush(y), y}
  BY DEF Enqueue
<1> HIDE DEF q, y
<1>4. y \in Managed
  BY <1>2 DEF Sheds
<1>5. r \in {"none", "claimed", "swap"}
  BY <1>4 DEF Managed
<1> HIDE DEF r
<1>6. Sheds(y, [y EXCEPT !.resume = r])
  BY <1>4, <1>5, SetResumeSheds
<1>7. Sheds(q, Enqueue(x, i))
  BY <1>2, <1>3, <1>4, <1>6, RequestFlushSheds, ShedsTrans
<1> QED BY <1>1, <1>7 DEF q

\* The call of the flush carries a part of the queue.
LEMMA FlushSendsSheds ==
  ASSUME NEW x \in Managed, NEW batch \in SUBSET Items
  PROVE  LET y == [x EXCEPT !.flush.at = "run", !.flush.batch = batch]
             v == [y EXCEPT !.run["flush"] = Call(batch)]
         IN v \in Managed /\ Sheds(v, FlushSends(x, batch))
<1> DEFINE y == [x EXCEPT !.flush.at = "run", !.flush.batch = batch]
<1>1. y \in Managed
  BY DEF Managed, FlushRun, FlushAt
<1> QED BY <1>1, StartsTurnSheds DEF FlushSends

\* Nothing but the state, the flush and the history changes.
OnlyFlow(x, y) ==
  /\ y.alive = x.alive /\ y.queue = x.queue /\ y.flow = x.flow
  /\ y.holds = x.holds /\ y.slot = x.slot /\ y.phase = x.phase
  /\ y.run = x.run /\ y.pending = x.pending /\ y.clock = x.clock
  /\ y.abort = x.abort /\ y.stamped = x.stamped /\ y.swap = x.swap
  /\ y.edit = x.edit /\ y.resume = x.resume /\ y.typed = x.typed

-----------------------------------------------------------------------------
(* What the pieces leave alone.                                            *)

\* requestFlush touches the flush alone.
LEMMA RequestFlushFrame ==
  ASSUME NEW x \in Managed
  PROVE  OnlyFlow(x, RequestFlush(x)) /\ RequestFlush(x).state = x.state
BY DEF RequestFlush, Managed, OnlyFlow

\* updateState touches the state and the flush alone.
LEMMA UpdateStateFrame ==
  ASSUME NEW x \in Managed, NEW s \in States
  PROVE  /\ OnlyFlow(x, UpdateState(x, s))
         /\ UpdateState(x, s).state = IF x.alive THEN s ELSE x.state
<1> DEFINE y == [x EXCEPT !.state = s, !.gap = @ \ {"busy"}]
<1>1. y \in Managed
  BY DEF Managed
<1>2. OnlyFlow(x, y) /\ y.state = s
  BY DEF Managed, OnlyFlow
<1>3. x.alive => UpdateState(x, s) \in {y, RequestFlush(y)}
  BY DEF UpdateState
<1>4. OnlyFlow(x, x)
  BY DEF OnlyFlow
<1> HIDE DEF y
<1>5. OnlyFlow(y, RequestFlush(y)) /\ RequestFlush(y).state = s
  BY <1>1, <1>2, RequestFlushFrame
<1>6. OnlyFlow(x, RequestFlush(y))
  BY <1>2, <1>5 DEF OnlyFlow
<1>7. CASE ~x.alive
  BY <1>4, <1>7 DEF UpdateState
<1> QED BY <1>2, <1>3, <1>5, <1>6, <1>7 DEF Managed

\* The end of a flush ends the flush's call and no other.
LEMMA FlushEndsRun ==
  ASSUME NEW x \in Managed, NEW o \in Owners
  PROVE  FlushEnds(x).run[o] = IF o = "flush" THEN NoRun ELSE x.run[o]
<1> DEFINE y == [x EXCEPT !.flush = NoFlush, !.run["flush"] = NoRun]
<1>1. y \in Managed
  BY NoneTyped DEF Managed
<1>2. y.run[o] = IF o = "flush" THEN NoRun ELSE x.run[o]
  BY DEF Managed
<1>3. FlushEnds(x) \in {y, RequestFlush(y)}
  BY DEF FlushEnds
<1> HIDE DEF y
<1> QED BY <1>1, <1>2, <1>3, RequestFlushFrame DEF OnlyFlow

\* A failed turn leaves the calls alone.
LEMMA OwnedTurnFailureRun ==
  ASSUME NEW x \in Managed, NEW o \in Owners, NEW kind \in Failures
  PROVE  OwnedTurnFailure(x, o, kind).run = x.run
<1> DEFINE y == Overlaps(x, Owners \ {o})
           h == [y EXCEPT !.holds = @ \cup {"backend"}]
<1>1. y \in Managed
  BY OverlapsSheds, ShedsTyped
<1>2. y.run = x.run
  BY DEF Overlaps, Managed
<1>3. h \in Managed /\ h.run = y.run
  <2> HIDE DEF y
  <2> QED BY <1>1 DEF Managed
<1>4. OwnedTurnFailure(x, o, kind) \in
        {UpdateState(h, "waiting"), UpdateState(y, "waiting"),
         UpdateState(y, "error")}
  BY DEF OwnedTurnFailure, Failures, HoldForBackend
<1> HIDE DEF y, h
<1> QED BY <1>1, <1>2, <1>3, <1>4, UpdateStateFrame DEF States, OnlyFlow

\* The caller of a failed turn ends its own call and no other.
LEMMA TurnFailedRun ==
  ASSUME NEW x \in Managed, NEW o \in Owners, NEW kind \in Failures,
         NEW p \in Owners, p # o
  PROVE  TurnFailed(x, o, kind).run[p] = x.run[p]
<1> DEFINE y == [x EXCEPT !.run[o] = NoRun]
           f == OwnedTurnFailure(x, o, kind)
           g == OwnedTurnFailure(y, o, kind)
           h == [g EXCEPT !.phase = "none"]
           e == [y EXCEPT !.edit = IF kind = "config" THEN "unset" ELSE "back"]
<1>1. y \in Managed /\ y.run[p] = x.run[p]
  BY EndRunSheds, ShedsTyped DEF Managed
<1>2. TurnFailed(x, o, kind) \in {g, RequestFlush(h), e}
        \cup (IF o = "flush" THEN {FlushEnds(f), FlushEnds(x)} ELSE {})
  BY DEF TurnFailed, BriefEnds, FailAutoHandoff
<1>3. f \in Managed /\ g \in Managed
  BY <1>1, OwnedTurnFailureSheds, ShedsTyped
<1>4. f.run = x.run /\ g.run = y.run
  BY <1>1, OwnedTurnFailureRun
<1>5. e.run = y.run
  BY <1>1 DEF Managed
<1> HIDE DEF y, f, g, e
<1>6. h \in Managed /\ h.run = g.run
  BY <1>3 DEF Managed
<1> HIDE DEF h
<1>7. RequestFlush(h).run = h.run
  BY <1>6, RequestFlushFrame DEF OnlyFlow
<1> QED BY <1>1, <1>2, <1>3, <1>4, <1>5, <1>6, <1>7, FlushEndsRun

-----------------------------------------------------------------------------
(* No message is accepted twice.                                           *)

\* The calls that do not come from the queue.
Directs == Owners \ {"flush"}

\* The places a message can be in before a backend takes it exclude each
\* other, and a message in one of them was not taken: nobody sent it yet, it
\* waits in the queue, it was just typed, or a call that is not the flush's
\* carries it. The flush's own call carries messages that are still queued.
Apart(x, t, f) ==
  /\ CallsFit(x)
  /\ x.run["flush"].items \subseteq x.queue
  /\ x.queue \cap x.typed = {}
  /\ f \cap (x.queue \cup x.typed) = {}
  /\ \A o \in Directs : x.run[o].items \cap (x.queue \cup x.typed \cup f) = {}
  /\ \A o, p \in Directs : o # p => x.run[o].items \cap x.run[p].items = {}
  /\ \A i \in f \cup x.queue \cup x.typed : t[i] = 0
  /\ \A o \in Directs : \A i \in x.run[o].items : t[i] = 0

\* A piece of a handler that sheds keeps the places apart.
LEMMA ApartSheds ==
  ASSUME NEW x, NEW y, NEW t, NEW f, Apart(x, t, f), Sheds(x, y)
  PROVE  Apart(y, t, f)
BY DEF Apart, Sheds, Directs

\* A message that is nowhere else, and was not taken, may join the queue.
LEMMA ApartEnqueue ==
  ASSUME NEW x \in Managed, NEW t, NEW f \in SUBSET Items, NEW i \in Items,
         Apart(x, t, f), t[i] = 0, i \notin f \cup x.typed,
         \A o \in Directs : i \notin x.run[o].items
  PROVE  Apart(Enqueue(x, i), t, f) /\ Enqueue(x, i) \in Managed
<1> DEFINE q == [x EXCEPT !.queue = @ \cup {i}]
<1>1. q \in Managed /\ Sheds(q, Enqueue(x, i))
  BY EnqueueSheds
<1>2. /\ q.queue = x.queue \cup {i} /\ q.typed = x.typed /\ q.run = x.run
      /\ q.flush = x.flush /\ q.slot = x.slot /\ q.swap = x.swap
  BY DEF Managed
<1> HIDE DEF q
<1>3. Apart(q, t, f)
  BY <1>2 DEF Apart
<1> QED BY <1>1, <1>3, ApartSheds DEF Sheds

\* A flush's call takes a part of the queue, which stays queued.
LEMMA ApartFlushSends ==
  ASSUME NEW x \in Managed, NEW t, NEW f, NEW batch \in SUBSET x.queue,
         Apart(x, t, f)
  PROVE  Apart(FlushSends(x, batch), t, f) /\ FlushSends(x, batch) \in Managed
<1> DEFINE y == [x EXCEPT !.flush.at = "run", !.flush.batch = batch]
           v == [y EXCEPT !.run["flush"] = Call(batch)]
<1>0. batch \in SUBSET Items
  BY DEF Managed
<1>1. v \in Managed /\ Sheds(v, FlushSends(x, batch))
  BY <1>0, FlushSendsSheds
<1>2. /\ v.queue = x.queue /\ v.typed = x.typed
      /\ v.run["flush"].items = batch
      /\ v.flush.at = "run" /\ v.slot = x.slot /\ v.swap = x.swap
      /\ \A o \in Directs : v.run[o] = x.run[o]
  BY DEF Managed, FlushRun, Call, Directs
<1>a. EndFits(v.run["flush"])
  BY DEF Managed, FlushRun, Call, EndFits
<1> HIDE DEF v
<1>3. Apart(v, t, f)
  BY <1>2, <1>a DEF Apart, Directs
<1> QED BY <1>1, <1>3, ApartSheds DEF Sheds

\* A call that is not the flush's starts with what it already carries.
LEMMA ApartStartsTurn ==
  ASSUME NEW x \in Managed, NEW t, NEW f, NEW o \in Directs,
         NEW items \in SUBSET x.run[o].items, Apart(x, t, f)
  PROVE  Apart(StartsTurn(x, o, items), t, f) /\ StartsTurn(x, o, items) \in Managed
<1> DEFINE v == [x EXCEPT !.run[o] = Call(items)]
<1>0. items \in SUBSET Items /\ o \in Owners
  BY DEF Managed, TurnRun, Directs
<1>1. v \in Managed /\ Sheds(v, StartsTurn(x, o, items))
  BY <1>0, StartsTurnSheds
<1>2. Sheds(x, v)
  <2>1. /\ v.queue = x.queue /\ v.typed = x.typed
        /\ v.run[o].items = items /\ v.flush = x.flush /\ EndFits(v.run[o])
        /\ v.slot = x.slot /\ v.swap = x.swap
        /\ \A p \in Owners : p # o => v.run[p] = x.run[p]
    BY <1>0 DEF Managed, Call, EndFits
  <2>2. o # "flush"
    BY DEF Directs
  <2> HIDE DEF v
  <2> QED BY <1>0, <1>1, <2>1, <2>2 DEF Sheds
<1> QED BY <1>1, <1>2, ApartSheds, ShedsTrans DEF Sheds

\* A direct send that a swap cut goes back to the queue, and nowhere else.
LEMMA ApartTurnSwapped ==
  ASSUME NEW x \in Managed, NEW t, NEW f \in SUBSET Items, NEW o \in Owners,
         NEW kept \in BOOLEAN, Apart(x, t, f)
  PROVE  /\ Apart(TurnSwapped(x, o, kept), t, f)
         /\ TurnSwapped(x, o, kept) \in Managed
<1>1. CASE ~(kept /\ x.alive /\ x.run[o].items # {}) \/ o \in {"flush", "brief"}
  <2>1. TurnSwapped(x, o, kept) = TurnSwapped(x, o, FALSE)
    BY <1>1 DEF TurnSwapped
  <2> QED BY <2>1, TurnSwappedSheds, ApartSheds, ShedsTyped
<1>2. CASE /\ kept /\ x.alive /\ x.run[o].items # {}
           /\ o \in {"member", "edit"}
  <2> DEFINE y == [x EXCEPT !.run[o] = NoRun]
             i == CHOOSE i \in x.run[o].items : TRUE
             z == Enqueue(y, i)
             e == [z EXCEPT !.edit = "none"]
  <2>1. i \in x.run[o].items /\ o \in Directs
    BY <1>2 DEF Directs
  <2>2. i \in Items
    BY <2>1 DEF Managed, TurnRun
  <2>3. Sheds(x, y) /\ y \in Managed
    BY EndRunSheds, ShedsTyped
  <2>4. Apart(y, t, f)
    BY <2>3, ApartSheds
  <2>5. y.run[o].items = {} /\ \A p \in Owners : p # o => y.run[p] = x.run[p]
    BY DEF Managed, NoRun
  <2>6. y.typed = x.typed
    BY <2>3 DEF Sheds
  <2>7. TurnSwapped(x, o, kept) \in {z, ReleaseHold(e, "edit")}
    BY <1>2 DEF TurnSwapped
  <2> HIDE DEF y, i, z, e
  <2>8. /\ t[i] = 0 /\ i \notin f \cup y.typed
        /\ \A p \in Directs : i \notin y.run[p].items
    BY <2>1, <2>5, <2>6 DEF Apart, Directs
  <2>9. Apart(z, t, f) /\ z \in Managed
    BY <2>2, <2>3, <2>4, <2>8, ApartEnqueue DEF z
  <2>10. Sheds(z, e) /\ e \in Managed
    BY <2>9, SetEditSheds DEF e, Sheds
  <2>11. Sheds(z, ReleaseHold(e, "edit"))
    BY <2>10, ReleaseHoldSheds, ShedsTrans
  <2> QED BY <2>7, <2>9, <2>11, ApartSheds DEF Sheds
<1> QED BY <1>1, <1>2

\* The brief turn carries no message.
LEMMA ApartBrief ==
  ASSUME NEW x \in Managed, NEW t, NEW f, Apart(x, t, f)
  PROVE  /\ Apart(StartAutoHandoffBrief(x), t, f)
         /\ StartAutoHandoffBrief(x) \in Managed
<1> DEFINE y == [x EXCEPT !.phase = "brief"]
<1>1. Sheds(x, y) /\ y \in Managed
  BY SetPhaseSheds DEF Sheds
<1>2. Apart(y, t, f)
  BY <1>1, ApartSheds
<1>3. StartAutoHandoffBrief(x) \in {x, StartsTurn(y, "brief", {})}
  BY DEF StartAutoHandoffBrief
<1> HIDE DEF y
<1> QED BY <1>1, <1>2, <1>3, ApartStartsTurn DEF Directs

\* The agent and what is known of the messages are sound.
Sound ==
  /\ m \in Managed
  /\ taken \in [Items -> Nat]
  /\ fresh \subseteq Items
  /\ Apart(m, taken, fresh)
  /\ AcceptedOnce

-----------------------------------------------------------------------------
(* The actions.                                                            *)

\* A step to an agent whose places are apart keeps the invariant.
LEMMA BecomesApart ==
  ASSUME Sound, NEW y, Becomes(y), y \in Managed, Apart(y, taken, fresh)
  PROVE  Sound'
BY DEF Sound, Becomes, AcceptedOnce

\* A step that sheds keeps the invariant.
LEMMA BecomesSheds ==
  ASSUME Sound, NEW y, Becomes(y), Sheds(m, y)
  PROVE  Sound'
BY BecomesApart, ApartSheds DEF Sound, Sheds

\* A flush that may proceed sends, writes a brief or stops.
LEMMA FlushProceedsSound ==
  ASSUME Sound, NEW x, Sheds(m, x), FlushProceeds(x), x.flush.at = "ready"
  PROVE  Sound'
<1>1. x \in Managed /\ Apart(x, taken, fresh)
  BY ApartSheds DEF Sound, Sheds
<1>2. CASE Becomes(FlushEnds(StartAutoHandoffBrief(x)))
  <2> DEFINE b == StartAutoHandoffBrief(x)
  <2>1. b \in Managed /\ Apart(b, taken, fresh)
    BY <1>1, ApartBrief
  <2> HIDE DEF b
  <2>2. FlushEnds(b) \in Managed /\ Apart(FlushEnds(b), taken, fresh)
    BY <2>1, FlushEndsSheds, ApartSheds DEF Sheds
  <2> QED BY <1>2, <2>2, BecomesApart DEF b
<1>3. CASE Becomes(FlushEnds(x))
  BY <1>1, <1>3, FlushEndsSheds, ShedsTrans, BecomesSheds
<1>4. CASE Becomes(FlushSends(x, x.queue))
  BY <1>1, <1>4, ApartFlushSends, BecomesApart
<1>5. CASE Becomes([x EXCEPT !.flush.at = "cap", !.flush.batch = x.queue,
                             !.flush.cut = FALSE])
  <2>1. x.queue \subseteq Items /\ "cap" \in FlushAt
    BY <1>1 DEF Managed, FlushAt
  <2>2. Sheds(x, [x EXCEPT !.flush.at = "cap", !.flush.batch = x.queue,
                           !.flush.cut = FALSE])
    BY <1>1, <2>1 DEF Sheds, Managed, FlushRun
  <2> QED BY <1>5, <2>2, ShedsTrans, BecomesSheds
<1> QED BY <1>2, <1>3, <1>4, <1>5 DEF FlushProceeds

\* Every step of the flush keeps the invariant.
LEMMA FlushingSound ==
  ASSUME Sound, Flushing
  PROVE  Sound'
<1> USE DEF FlushAt
<1>0. m \in Managed /\ Sheds(m, FlushEnds(m))
  BY FlushEndsSheds DEF Sound
<1>1. CASE FlushBegins
  BY <1>0, <1>1, SetFlushSheds, BecomesSheds DEF FlushBegins
<1>2. CASE SampleArrives
  <2> DEFINE y == [m EXCEPT !.flush.at = "check"]
  <2>1. m.flush.at = "sample" =>
          Sheds(m, [m EXCEPT !.flush.at = "check", !.phase = "auto"])
    <3>1. m.flush.at = "sample" => Sheds(m, y) /\ y \in Managed
      BY <1>0, SetFlushSheds, ShedsTyped
    <3>2. [m EXCEPT !.flush.at = "check", !.phase = "auto"]
            = [y EXCEPT !.phase = "auto"]
      BY <1>0 DEF Managed
    <3> QED BY <3>1, <3>2, SetPhaseSheds, ShedsTrans
  <2> QED BY <1>0, <1>2, <2>1, SetFlushSheds, BecomesSheds DEF SampleArrives
<1>3. CASE FlushChecks
  BY <1>0, <1>3, SetFlushSheds, BecomesSheds DEF FlushChecks
<1>4. CASE FlushRechecks
  BY <1>0, <1>4, SetFlushSheds, BecomesSheds DEF FlushRechecks
<1>5. CASE AccountChecked
  BY <1>0, <1>5, SetFlushSheds, BecomesSheds DEF AccountChecked
<1>6. CASE FlushReady
  <2>1. /\ Sheds(m, m) /\ Sheds(m, [m EXCEPT !.slot = "live"])
        /\ [m EXCEPT !.slot = "live"].flush = m.flush
    BY <1>0 DEF Sheds, Managed
  <2>2. Sheds(m, FlushEnds(UpdateState(m, "error")))
    <3>1. Sheds(m, UpdateState(m, "error"))
      BY <1>0, UpdateStateSheds DEF States
    <3> QED BY <3>1, FlushEndsSheds, ShedsTrans DEF Sheds
  <2> QED BY <1>0, <1>6, <2>1, <2>2, FlushProceedsSound, BecomesSheds
          DEF FlushReady
<1>7. CASE CapRead
  <2>1. CASE Becomes(FlushEnds([m EXCEPT !.flush.rerun = TRUE]))
    <3>1. Sheds(m, [m EXCEPT !.flush.rerun = TRUE])
      BY <1>0, RerunSheds
    <3>2. Sheds(m, FlushEnds([m EXCEPT !.flush.rerun = TRUE]))
      BY <3>1, FlushEndsSheds, ShedsTrans, ShedsTyped
    <3> QED BY <2>1, <3>2, BecomesSheds
  <2>2. CASE Becomes(FlushEnds(m))
    BY <1>0, <2>2, BecomesSheds
  <2>3. ASSUME NEW refused,
               Becomes(LET x == [m EXCEPT !.queue = @ \ refused]
                           batch == (m.flush.batch \ refused) \cap x.queue
                       IN IF batch = {} THEN FlushEnds(x)
                          ELSE FlushSends(x, batch)),
               m.flush.at = "cap"
        PROVE  Sound'
    <3> DEFINE x == [m EXCEPT !.queue = @ \ refused]
               batch == (m.flush.batch \ refused) \cap x.queue
    <3>1. /\ x \in Managed /\ x.typed = m.typed /\ x.run = m.run
          /\ x.queue = m.queue \ refused /\ x.flush = m.flush
          /\ x.slot = m.slot /\ x.swap = m.swap
      BY <1>0 DEF Managed
    <3>2. Apart(x, taken, fresh)
      BY <2>3, <3>1 DEF Apart, Sound
    <3>3. batch \in SUBSET x.queue
      OBVIOUS
    <3>4. Becomes(IF batch = {} THEN FlushEnds(x) ELSE FlushSends(x, batch))
      BY <2>3
    <3> HIDE DEF x, batch
    <3>5. CASE Becomes(FlushEnds(x))
      BY <3>1, <3>2, <3>5, FlushEndsSheds, ApartSheds, BecomesApart DEF Sheds
    <3>6. CASE Becomes(FlushSends(x, batch))
      BY <3>1, <3>2, <3>3, <3>6, ApartFlushSends, BecomesApart
    <3> QED BY <3>4, <3>5, <3>6
  <2> QED BY <1>7, <2>1, <2>2, <2>3 DEF CapRead
<1> QED BY <1>1, <1>2, <1>3, <1>4, <1>5, <1>6, <1>7 DEF Flushing

\* A superseded turn is told; a call that waits for its send goes on.
LEMMA SupersedeKeeps ==
  ASSUME NEW x \in Managed, NEW o \in Owners, x.run[o].at # "sent"
  PROVE  /\ Supersede(x).run[o].at = x.run[o].at
         /\ Supersede(x).run[o].end \in {x.run[o].end, "fail"}
<1> DEFINE y == Settled(x)
           p == x.pending
<1>1. y \in Managed /\ y.run = x.run
  BY ZenonT(40), SettledSheds DEF Settled, Sheds, Managed
<1>2. p \in Owners \cup {"none"}
  BY DEF Managed
<1>3. CASE p # "none" /\ x.run[p].at # "sent"
  <2>1. Supersede(x) = [y EXCEPT !.run[p].end = "fail"]
    BY <1>3 DEF Supersede
  <2> HIDE DEF y, p
  <2> QED BY <1>1, <1>2, <1>3, <2>1 DEF Managed, TurnRun
<1>4. CASE p = "flush" /\ x.run[p].at = "sent"
  <2>1. Supersede(x) = FlushEnds(y)
    BY <1>4 DEF Supersede
  <2> HIDE DEF y
  <2> QED BY <1>1, <1>4, <2>1, FlushEndsRun
<1>5. CASE p \notin {"flush", "none"} /\ x.run[p].at = "sent"
  <2>1. Supersede(x) = TurnFailed(y, p, "error")
    BY <1>5 DEF Supersede
  <2> HIDE DEF y, p
  <2>2. TurnFailed(y, p, "error").run[o] = y.run[o]
    BY <1>1, <1>2, <1>5, TurnFailedRun DEF Failures
  <2> QED BY <1>1, <2>1, <2>2
<1> QED BY <1>2, <1>3, <1>4, <1>5 DEF Supersede

\* The end of the pre-send window keeps the invariant.
LEMMA PresendEndsSound ==
  ASSUME Sound, NEW o \in Owners, PresendEnds(o)
  PROVE  Sound'
<1> DEFINE x == Supersede(m)
           v == [x EXCEPT !.pending = o, !.run[o].at = "sending"]
<1>1. m \in Managed /\ Sheds(m, x)
  BY SupersedeSheds DEF Sound
<1>2. x \in Managed /\ Apart(x, taken, fresh)
  BY <1>1, ApartSheds, ShedsTyped DEF Sound
<1>3. CASE Becomes(TurnSwapped(m, o, FALSE))
  BY <1>1, <1>3, TurnSwappedSheds, BecomesSheds
<1>4. CASE Becomes(TurnFailed(x, o, "error"))
  BY <1>1, <1>2, <1>4, TurnFailedSheds, ShedsTrans, BecomesSheds DEF Failures
<1>5. CASE m.run[o].at = "presend" /\ m.run[o].end = "open" /\ Becomes(v)
  <2>1. x.run[o].at = "presend" /\ x.run[o].end \in {"open", "fail"}
    BY <1>1, <1>5, SupersedeKeeps
  <2> HIDE DEF x
  <2>2. /\ v.queue = x.queue /\ v.typed = x.typed
        /\ v.flush = x.flush /\ v.slot = x.slot /\ v.swap = x.swap
        /\ v.run = [x.run EXCEPT ![o].at = "sending"]
    BY <1>2 DEF Managed
  <2>3. v \in Managed
    <3> DEFINE w == [x EXCEPT !.pending = o]
    <3>1. w \in Managed
      BY <1>2 DEF Managed
    <3>2. v = [w EXCEPT !.run[o].at = "sending"]
      BY <1>2 DEF Managed
    <3>3. w.run \in [Owners -> TurnRun]
      BY <3>1 DEF Managed
    <3> HIDE DEF w, v
    <3>4. [w.run EXCEPT ![o].at = "sending"] \in [Owners -> TurnRun]
      BY <3>3 DEF TurnRun
    <3> QED BY <3>1, <3>2, <3>4 DEF Managed
  <2>4. x.run \in [Owners -> TurnRun]
    BY <1>2 DEF Managed
  <2>5. /\ \A p \in Owners : v.run[p].items = x.run[p].items
        /\ \A p \in Owners : p # o => v.run[p] = x.run[p]
        /\ v.run[o].end = x.run[o].end
    BY <2>2, <2>4 DEF TurnRun
  <2> HIDE DEF v
  <2>6. CallsFit(v)
    BY <1>2, <2>1, <2>2, <2>5 DEF Apart, EndFits, SentEnds
  <2>7. Apart(v, taken, fresh)
    BY <1>2, <2>2, <2>5, <2>6 DEF Apart, Directs
  <2> QED BY <1>5, <2>3, <2>7, BecomesApart
<1> QED BY <1>3, <1>4, <1>5 DEF PresendEnds

\* The backend takes what a call carries: the messages are nowhere else.
LEMMA SendAcceptedSound ==
  ASSUME Sound, NEW o \in Owners, SendAccepted(o)
  PROVE  Sound'
<1> DEFINE r == m.run[o]
           x == [m EXCEPT !.run[o].at = "sent", !.run[o].items = {},
                          !.queue = IF o = "flush" THEN @ \ r.items ELSE @]
<1>1. m \in Managed /\ r \in TurnRun /\ r.at = "sending" /\ r.end \in SentEnds
  BY DEF Sound, Apart, Managed, SendAccepted, EndFits
<1>2. /\ x.queue = IF o = "flush" THEN m.queue \ r.items ELSE m.queue
      /\ x.typed = m.typed /\ x.flush = m.flush /\ x.slot = m.slot
      /\ x.swap = m.swap
  BY <1>1 DEF Managed
<1>3. /\ x.run[o].at = "sent" /\ x.run[o].items = {} /\ x.run[o].end = r.end
      /\ \A p \in Owners : p # o => x.run[p] = m.run[p]
  BY <1>1 DEF Managed, TurnRun
<1>4. x \in Managed
  <2> DEFINE q == IF o = "flush" THEN m.queue \ r.items ELSE m.queue
             run == [m.run EXCEPT ![o].at = "sent", ![o].items = {}]
             w == [m EXCEPT !.queue = q]
  <2>1. run \in [Owners -> TurnRun]
    BY <1>1 DEF Managed, TurnRun
  <2>2. w \in Managed
    BY <1>1 DEF Managed
  <2>3. x = [w EXCEPT !.run = run]
    BY <1>1 DEF Managed
  <2> HIDE DEF run, w, x
  <2> QED BY <2>1, <2>2, <2>3 DEF Managed
<1>5. m' \in {x, TurnSwapped(x, o, FALSE), TurnDone(x, o),
              TurnFailed(x, o, "error")}
  BY <1>1 DEF SendAccepted, SentEnds
<1> HIDE DEF x
<1>6. Sheds(x, m')
  BY <1>4, <1>5, ShedsSelf, TurnSwappedSheds, TurnDoneSheds, TurnFailedSheds
     DEF Failures
<1>7. /\ taken \in [Items -> Nat]
      /\ taken' = [i \in Items |-> IF i \in r.items THEN taken[i] + 1
                                   ELSE taken[i]]
      /\ fresh' = fresh /\ fresh \subseteq Items
  BY DEF SendAccepted, Sound
<1>8. \A i \in r.items : i \in Items /\ taken[i] = 0
  BY <1>1 DEF Sound, Apart, TurnRun, Directs
<1>9. taken' \in [Items -> Nat] /\ AcceptedOnce'
  BY <1>7, <1>8 DEF Sound, AcceptedOnce
<1>10. \A i \in Items : i \notin r.items => taken'[i] = taken[i]
  BY <1>7
<1> HIDE DEF r
<1>11. Apart(x, taken', fresh)
  <2>1. CallsFit(x)
    BY <1>1, <1>2, <1>3 DEF Sound, Apart, EndFits, r
  <2>2. CASE o = "flush"
    <3>1. \A p \in Directs : x.run[p] = m.run[p]
      BY <1>3, <2>2 DEF Directs
    <3>2. /\ x.run["flush"].items \subseteq x.queue
          /\ x.queue \cap x.typed = {} /\ fresh \cap (x.queue \cup x.typed) = {}
          /\ \A p \in Directs :
               x.run[p].items \cap (x.queue \cup x.typed \cup fresh) = {}
          /\ \A p, q \in Directs : p # q => x.run[p].items \cap x.run[q].items = {}
      BY <1>2, <1>3, <2>2, <3>1 DEF Sound, Apart
    <3>3. r.items \subseteq m.queue
      BY <2>2 DEF Sound, Apart, r
    <3>4. \A i \in fresh \cup x.queue \cup x.typed : i \in Items /\ i \notin r.items
      BY <1>2, <1>4, <1>7, <2>2, <3>3 DEF Managed, Sound, Apart
    <3>5. \A p \in Directs : \A i \in x.run[p].items :
            i \in Items /\ i \notin r.items
      BY <1>4, <3>1, <3>3 DEF Managed, TurnRun, Sound, Apart, Directs
    <3> QED BY <1>2, <1>10, <2>1, <2>2, <3>1, <3>2, <3>4, <3>5 DEF Sound, Apart
  <2>3. CASE o # "flush"
    <3>1. o \in Directs /\ \A p \in Owners : x.run[p].items \subseteq m.run[p].items
      BY <1>3, <2>3 DEF Directs
    <3>2. /\ x.run["flush"].items \subseteq x.queue
          /\ x.queue \cap x.typed = {} /\ fresh \cap (x.queue \cup x.typed) = {}
          /\ \A p \in Directs :
               x.run[p].items \cap (x.queue \cup x.typed \cup fresh) = {}
          /\ \A p, q \in Directs : p # q => x.run[p].items \cap x.run[q].items = {}
      BY <1>2, <2>3, <3>1 DEF Sound, Apart, Directs
    <3>4. \A i \in fresh \cup x.queue \cup x.typed : i \in Items /\ i \notin r.items
      BY <1>2, <1>4, <1>7, <2>3, <3>1 DEF Managed, Sound, Apart, r
    <3>5. \A p \in Directs : \A i \in x.run[p].items :
            i \in Items /\ i \notin r.items
      BY <1>3, <1>4, <3>1 DEF Managed, TurnRun, Sound, Apart, Directs, r
    <3> QED BY <1>2, <1>10, <2>1, <2>3, <3>1, <3>2, <3>4, <3>5
            DEF Sound, Apart, Directs
  <2> QED BY <2>2, <2>3
<1> QED BY <1>6, <1>7, <1>9, <1>11, ApartSheds, ShedsTyped DEF Sound

\* The other steps of a turn's call.
LEMMA CallStepsSound ==
  ASSUME Sound, NEW o \in Owners, NEW kind \in {"config", "error"},
         SendCut(o) \/ SendFails(o, kind)
  PROVE  Sound'
<1>1. m \in Managed /\ Apart(m, taken, fresh) /\ fresh \in SUBSET Items
  BY DEF Sound
<1>2. CASE SendCut(o)
  <2>1. (m.abort = "none" /\ ~m.stamped) \in BOOLEAN
    OBVIOUS
  <2> QED BY <1>1, <1>2, <2>1, ApartTurnSwapped, BecomesApart DEF SendCut
<1>3. CASE SendFails(o, kind)
  <2> DEFINE x == IF m.pending = o THEN Settled(m) ELSE m
  <2>1. Sheds(m, x) /\ x \in Managed
    BY <1>1, SettledSheds, ShedsSelf, ShedsTyped
  <2>2. Becomes(TurnFailed(x, o, kind))
    BY <1>3 DEF SendFails
  <2> HIDE DEF x
  <2> QED BY <2>1, <2>2, TurnFailedSheds, ShedsTrans, BecomesSheds DEF Failures
<1> QED BY <1>2, <1>3

\* Fields that hold no message and no call may change.
LEMMA FieldsShed ==
  ASSUME NEW x, NEW y \in Managed,
         y.queue = x.queue, y.typed = x.typed, y.run = x.run,
         y.flush = x.flush, y.slot = x.slot, y.swap = x.swap
  PROVE  Sheds(x, y)
BY DEF Sheds

\* The turn clock, the Stop stamp and a freed slot.
LEMMA CloseSheds ==
  ASSUME NEW x \in Managed
  PROVE  /\ Sheds(x, [x EXCEPT !.clock = FALSE])
         /\ Sheds(x, [x EXCEPT !.stamped = FALSE])
         /\ \A sl \in {"live", "none"} : Sheds(x, [x EXCEPT !.slot = sl])
<1>1. Sheds(x, [x EXCEPT !.clock = FALSE])
  BY DEF Sheds, Managed
<1>2. Sheds(x, [x EXCEPT !.stamped = FALSE])
  BY ZenonT(40) DEF Sheds, Managed
<1>3. ASSUME NEW sl \in {"live", "none"}
      PROVE  Sheds(x, [x EXCEPT !.slot = sl])
  BY DEF Sheds, Managed
<1> QED BY <1>1, <1>2, <1>3

\* The end of a turn keeps the invariant.
LEMMA TurnEndsSound ==
  ASSUME Sound, NEW kind \in {"completed", "failed", "capacity"},
         TurnEnds(kind)
  PROVE  Sound'
<1> DEFINE o == m.pending
           x == UpdateState(m, IF kind = "failed" THEN "error" ELSE "waiting")
           c == [x EXCEPT !.clock = FALSE]
           y == Settled(c)
<1>1. m \in Managed
  BY DEF Sound
<1>2. Sheds(m, x) /\ x \in Managed
  BY <1>1, UpdateStateSheds, ShedsTyped DEF States
<1>3. Becomes(IF kind = "capacity" THEN Rejects(y, o, "capacity")
              ELSE Resolves(y, o))
  BY DEF TurnEnds
<1>4. o \in Owners \cup {"none"}
  BY <1>1 DEF Managed
<1> HIDE DEF x, o
<1>5. Sheds(x, c)
  BY <1>2, CloseSheds
<1>6. Sheds(c, y) /\ y \in Managed
  BY <1>5, SettledSheds, ShedsTyped
<1> HIDE DEF c, y
<1>7. Sheds(m, y)
  BY <1>2, <1>5, <1>6, ShedsTrans
<1>8. Sheds(m, Rejects(y, o, "capacity")) /\ Sheds(m, Resolves(y, o))
  BY <1>4, <1>6, <1>7, RejectsSheds, ResolvesSheds, ShedsTrans DEF Failures
<1> QED BY <1>3, <1>8, BecomesSheds

\* The end of the stream keeps the invariant.
LEMMA StreamEndsSound ==
  ASSUME Sound, StreamEnds
  PROVE  Sound'
<1> DEFINE o == m.pending
           b == BumpToken(m, "gone")
           x == [b EXCEPT !.clock = FALSE, !.slot = "none", !.stamped = FALSE]
<1>1. m \in Managed
  BY DEF Sound
<1>2. Sheds(m, b) /\ b \in Managed
  BY <1>1, BumpTokenSheds, ShedsTyped
<1>3. Becomes(IF o # "none" THEN Rejects(Settled(x), o, "error")
              ELSE IF x.state = "busy" THEN UpdateState(x, "waiting") ELSE x)
  BY DEF StreamEnds
<1>4. o \in Owners \cup {"none"}
  BY <1>1 DEF Managed
<1> HIDE DEF b, o
<1>5. Sheds(b, x)
  <2> DEFINE c == [b EXCEPT !.clock = FALSE]
             d == [c EXCEPT !.slot = "none"]
  <2>1. x = [d EXCEPT !.stamped = FALSE]
    BY <1>2 DEF Managed
  <2>2. Sheds(b, c) /\ c \in Managed
    BY <1>2, CloseSheds, ShedsTyped
  <2> HIDE DEF c, x
  <2>3. Sheds(c, d) /\ d \in Managed
    BY <2>2, CloseSheds, ShedsTyped
  <2> HIDE DEF d
  <2> QED BY <2>1, <2>2, <2>3, CloseSheds, ShedsTrans
<1>6. Sheds(m, x) /\ x \in Managed
  BY <1>2, <1>5, ShedsTrans, ShedsTyped
<1> HIDE DEF x
<1>7. Sheds(x, Settled(x)) /\ Settled(x) \in Managed
  BY <1>6, SettledSheds, ShedsTyped
<1>8. Sheds(m, Rejects(Settled(x), o, "error"))
  BY <1>4, <1>6, <1>7, RejectsSheds, ShedsTrans DEF Failures
<1>9. Sheds(m, UpdateState(x, "waiting"))
  BY <1>6, UpdateStateSheds, ShedsTrans DEF States
<1> QED BY <1>3, <1>6, <1>8, <1>9, BecomesSheds

\* The caller of a swap: an edit's turn carries the edited message.
LEMMA SwapCallerApart ==
  ASSUME NEW x \in Managed, NEW t, NEW f, Apart(x, t, f),
         NEW kind \in {"settings", "stop", "fork", "back", "resume"}
  PROVE  SwapCaller(x, kind) \in Managed /\ Apart(SwapCaller(x, kind), t, f)
<1>1. CASE kind = "settings"
  BY <1>1 DEF SwapCaller
<1>2. CASE kind = "stop"
  <2> DEFINE y == IF x.state = "error" THEN UpdateState(x, "waiting") ELSE x
  <2>1. Sheds(x, y) /\ y \in Managed
    BY UpdateStateSheds, ShedsSelf, ShedsTyped DEF States
  <2>2. SwapCaller(x, kind) = AbortDone(y)
    BY <1>2 DEF SwapCaller
  <2> HIDE DEF y
  <2> QED BY <2>1, <2>2, AbortDoneSheds, ShedsTrans, ApartSheds, ShedsTyped
<1>3. CASE kind = "resume"
  <2> DEFINE y == [x EXCEPT !.resume = "none"]
  <2>1. Sheds(x, y) /\ y \in Managed
    BY SetResumeSheds, ShedsTyped
  <2>2. SwapCaller(x, kind) \in {y, ReleaseHold(y, "resume")}
    BY <1>3 DEF SwapCaller
  <2> HIDE DEF y
  <2> QED BY <2>1, <2>2, ReleaseHoldSheds, ShedsTrans, ApartSheds, ShedsTyped
<1>4. CASE kind = "fork"
  <2> DEFINE y == [x EXCEPT !.edit = "turn"]
             z == StartsTurn(y, "edit", x.run["edit"].items)
  <2>1. Sheds(x, y) /\ y \in Managed
    BY SetEditSheds, ShedsTyped
  <2>a. y.run = x.run
    BY DEF Managed
  <2>2. Apart(y, t, f)
    BY <2>1, ApartSheds
  <2>3. SwapCaller(x, kind) = ReleaseHold(z, "edit")
    BY <1>4 DEF SwapCaller
  <2>4. "edit" \in Directs
    BY DEF Directs
  <2> HIDE DEF y
  <2>5. Apart(z, t, f) /\ z \in Managed
    BY <2>1, <2>a, <2>2, <2>4, ApartStartsTurn
  <2> HIDE DEF z
  <2> QED BY <2>3, <2>5, ReleaseHoldSheds, ApartSheds, ShedsTyped
<1>5. CASE kind = "back"
  <2> DEFINE y == [x EXCEPT !.edit = "none"]
             z == IF x.edit = "unset" THEN HoldForBackend(y)
                  ELSE UpdateState(y, "error")
  <2>1. Sheds(x, y) /\ y \in Managed
    BY SetEditSheds, ShedsTyped
  <2>2. SwapCaller(x, kind) = ReleaseHold(z, "edit")
    BY <1>5 DEF SwapCaller
  <2> HIDE DEF y
  <2>3. Sheds(y, z) /\ z \in Managed
    BY <2>1, HoldForBackendSheds, UpdateStateSheds, ShedsTyped DEF States
  <2> HIDE DEF z
  <2>4. Sheds(x, ReleaseHold(z, "edit"))
    BY <2>1, <2>3, ReleaseHoldSheds, ShedsTrans
  <2> QED BY <2>2, <2>4, ApartSheds, ShedsTyped
<1> QED BY <1>1, <1>2, <1>3, <1>4, <1>5

\* The end of a swap keeps the invariant.
LEMMA SwapEndsSound ==
  ASSUME Sound, NEW built \in BOOLEAN, SwapEnds(built)
  PROVE  Sound'
<1> DEFINE sl == IF built THEN "live" ELSE "none"
           a == [m EXCEPT !.slot = sl, !.swap = "none"]
           p == [a EXCEPT !.phase = "none"]
           b == CASE m.swap = "resume" /\ "resume" \in m.holds ->
                       UpdateState([a EXCEPT !.phase = "none"], "waiting")
                  [] m.swap = "resume" /\ "resume" \notin m.holds ->
                       UpdateState(a, "waiting")
                  [] m.swap = "fork" -> [a EXCEPT !.phase = "none"]
                  [] OTHER -> a
           g == [b EXCEPT !.gap = IF built THEN @ ELSE @ \cup {"busy"}]
           c == IF /\ built /\ b.pending = "none"
                   /\ b.state = "busy" /\ ~b.clock
                  THEN UpdateState(b, "waiting") ELSE g
<1>1. /\ m \in Managed /\ m.slot = "swap"
      /\ m.swap \in {"settings", "stop", "fork", "back", "resume"}
  BY DEF Sound, SwapEnds, Apart, Managed
<1>2. Becomes(SwapCaller(RequestFlush(c), m.swap))
  BY DEF SwapEnds
<1>3. Sheds(m, a) /\ a \in Managed
  BY <1>1, SetSlotSheds, ShedsTyped
<1>4. b \in {UpdateState(p, "waiting"), UpdateState(a, "waiting"), p, a}
  OBVIOUS
<1>5. c \in {UpdateState(b, "waiting"), g}
  OBVIOUS
<1> HIDE DEF a, b, c
<1>6. Sheds(a, p) /\ p \in Managed
  BY <1>3, SetPhaseSheds, ShedsTyped
<1> HIDE DEF p
<1>7. /\ Sheds(p, UpdateState(p, "waiting"))
      /\ Sheds(a, UpdateState(a, "waiting"))
  BY <1>3, <1>6, UpdateStateSheds DEF States
<1>8. Sheds(a, b)
  BY <1>3, <1>4, <1>6, <1>7, ShedsSelf, ShedsTrans
<1>9. b \in Managed /\ Sheds(m, b)
  BY <1>3, <1>8, ShedsTrans, ShedsTyped
<1>10. Sheds(b, g)
  BY <1>9 DEF Sheds, Managed
<1> HIDE DEF g
<1>11. Sheds(b, c) /\ c \in Managed
  BY <1>5, <1>9, <1>10, UpdateStateSheds, ShedsTyped DEF States
<1>12. Sheds(m, RequestFlush(c))
  BY <1>9, <1>11, RequestFlushSheds, ShedsTrans
<1>13. RequestFlush(c) \in Managed /\ Apart(RequestFlush(c), taken, fresh)
  BY <1>12, ApartSheds, ShedsTyped DEF Sound
<1> QED BY <1>1, <1>2, <1>13, SwapCallerApart, BecomesApart

\* A prompt or a pick opens or closes.
LEMMA SetFlowSheds ==
  ASSUME NEW x \in Managed, NEW f \in {"none", "permission", "pick"}
  PROVE  Sheds(x, [x EXCEPT !.flow = f])
BY DEF Sheds, Managed

\* The history changes.
LEMMA SetGapSheds ==
  ASSUME NEW x \in Managed, NEW g \in SUBSET {"flush", "busy", "overlap"}
  PROVE  Sheds(x, [x EXCEPT !.gap = g])
BY DEF Sheds, Managed

\* The Stop enters another stage.
LEMMA SetAbortSheds ==
  ASSUME NEW x \in Managed, NEW a \in {"none", "hot", "replace", "swap"}
  PROVE  Sheds(x, [x EXCEPT !.abort = a])
BY DEF Sheds, Managed

\* The holds change.
LEMMA SetHoldsSheds ==
  ASSUME NEW x \in Managed, NEW h \in SUBSET {"backend", "edit", "resume"}
  PROVE  Sheds(x, [x EXCEPT !.holds = h])
BY DEF Sheds, Managed

\* A Stop: the token moves, the state, the prompt and the wait change.
LEMMA StopSound ==
  ASSUME Sound, Stop
  PROVE  Sound'
<1> DEFINE b == BumpToken(m, "stop")
           ph == IF b.phase = "asked" THEN "none" ELSE b.phase
           x == [b EXCEPT !.stamped = TRUE,
                          !.phase = IF @ = "asked" THEN "none" ELSE @]
           denied == [x EXCEPT !.flow = "none", !.gap = @ \cup {"flush"}]
           up == UpdateState(x, "waiting")
<1>1. m \in Managed
  BY DEF Sound
<1>2. Sheds(m, b) /\ b \in Managed
  BY <1>1, BumpTokenSheds, ShedsTyped
<1>3. \/ Becomes(UpdateState(denied, "waiting"))
      \/ Becomes(IF m.state = "busy" THEN up ELSE x)
      \/ Becomes(x)
      \/ \E hot \in BOOLEAN :
           Becomes([up EXCEPT
                     !.flow = IF @ = "permission" THEN "none" ELSE @,
                     !.gap = IF m.flow = "permission" THEN @ \cup {"flush"}
                             ELSE @,
                     !.abort = IF hot /\ m.slot = "live" THEN "hot"
                               ELSE "replace"])
  BY DEF Stop
<1> HIDE DEF b
<1>4. Sheds(m, x) /\ x \in Managed
  <2> DEFINE s == [b EXCEPT !.stamped = TRUE]
  <2>1. Sheds(b, s)
    BY ZenonT(40), <1>2 DEF Sheds, Managed
  <2>2. s \in Managed /\ x = [s EXCEPT !.phase = ph]
    BY <1>2, <2>1, ShedsTyped DEF Managed
  <2>3. ph \in {"none", "brief", "reset", "asked", "auto"}
    BY <1>2 DEF Managed
  <2> HIDE DEF s, x, ph
  <2> QED BY <1>2, <2>1, <2>2, <2>3, SetPhaseSheds, ShedsTrans, ShedsTyped
<1> HIDE DEF x
<1>5. Sheds(m, up) /\ up \in Managed
  BY <1>4, UpdateStateSheds, ShedsTrans, ShedsTyped DEF States
<1>6. Sheds(m, UpdateState(denied, "waiting"))
  <2> DEFINE n == [x EXCEPT !.flow = "none"]
             ga == x.gap \cup {"flush"}
  <2>a. denied = [n EXCEPT !.gap = ga] /\ ga \in SUBSET {"flush", "busy", "overlap"}
    BY <1>4 DEF Managed
  <2>b. Sheds(x, n) /\ n \in Managed
    BY <1>4, SetFlowSheds, ShedsTyped
  <2> HIDE DEF n, ga, denied
  <2>1. Sheds(x, denied)
    BY <2>a, <2>b, SetGapSheds, ShedsTrans
  <2> HIDE DEF denied
  <2> QED BY <1>4, <2>1, UpdateStateSheds, ShedsTrans, ShedsTyped DEF States
<1> HIDE DEF up
<1>7. ASSUME NEW hot \in BOOLEAN
      PROVE  Sheds(m, [up EXCEPT
                     !.flow = IF @ = "permission" THEN "none" ELSE @,
                     !.gap = IF m.flow = "permission" THEN @ \cup {"flush"}
                             ELSE @,
                     !.abort = IF hot /\ m.slot = "live" THEN "hot"
                               ELSE "replace"])
  <2> DEFINE fl == IF up.flow = "permission" THEN "none" ELSE up.flow
             ga == IF m.flow = "permission" THEN up.gap \cup {"flush"} ELSE up.gap
             ab == IF hot /\ m.slot = "live" THEN "hot" ELSE "replace"
             c == [up EXCEPT !.flow = fl]
             d == [c EXCEPT !.gap = ga]
             e == [up EXCEPT !.flow = fl, !.gap = ga, !.abort = ab]
  <2>1. /\ fl \in {"none", "permission", "pick"}
        /\ ga \in SUBSET {"flush", "busy", "overlap"}
        /\ ab \in {"none", "hot", "replace", "swap"}
    BY <1>5 DEF Managed
  <2> HIDE DEF fl, ga, ab
  <2>2. e = [d EXCEPT !.abort = ab]
    BY <1>5 DEF Managed
  <2> HIDE DEF e
  <2>3. Sheds(m, c) /\ c \in Managed
    BY <1>5, <2>1, SetFlowSheds, ShedsTrans, ShedsTyped
  <2> HIDE DEF c
  <2>4. Sheds(m, d) /\ d \in Managed
    BY <2>1, <2>3, SetGapSheds, ShedsTrans, ShedsTyped
  <2> HIDE DEF d
  <2>5. Sheds(m, e)
    BY <2>1, <2>2, <2>4, SetAbortSheds, ShedsTrans
  <2> QED BY <2>5 DEF e, fl, ga, ab
<1> QED BY <1>3, <1>4, <1>5, <1>6, <1>7, BecomesSheds

\* The steps of a Stop under way keep the invariant.
LEMMA AbortStepsSound ==
  ASSUME Sound,
         \/ HotAbortEnds \/ HotAbortTimesOut \/ AbortReplaces \/ AbortFails
  PROVE  Sound'
<1>1. m \in Managed
  BY DEF Sound
<1>2. CASE HotAbortEnds \/ HotAbortTimesOut
  BY <1>1, <1>2, SetAbortSheds, AbortDoneSheds, BecomesSheds
     DEF HotAbortEnds, HotAbortTimesOut
<1>3. CASE AbortReplaces
  <2> DEFINE x == [m EXCEPT !.abort = "swap"]
  <2>1. Sheds(m, x) /\ x \in Managed
    BY <1>1, SetAbortSheds, ShedsTyped
  <2> HIDE DEF x
  <2>2. Sheds(m, SwapStarts(x, "stop"))
    BY <2>1, SwapStartsSheds, ShedsTrans
  <2> QED BY <1>3, <2>2, BecomesSheds DEF AbortReplaces, x
<1>4. CASE AbortFails
  <2>1. Sheds(m, StampError(m)) /\ StampError(m) \in Managed
    BY <1>1, StampErrorSheds, ShedsTyped
  <2>2. Sheds(m, AbortDone(StampError(m)))
    BY <2>1, AbortDoneSheds, ShedsTrans
  <2> QED BY <1>4, <2>2, BecomesSheds DEF AbortFails
<1> QED BY <1>2, <1>3, <1>4

\* A message that is sent leaves the fresh ones.
LEMMA ApartSent ==
  ASSUME NEW x, NEW t, NEW f, NEW i \in f, Apart(x, t, f)
  PROVE  /\ Apart(x, t, f \ {i}) /\ t[i] = 0 /\ i \notin x.typed
         /\ \A o \in Directs : i \notin x.run[o].items
BY DEF Apart

\* A message that arrives keeps the invariant: it leaves `fresh'.
LEMMA SendsSound ==
  ASSUME Sound, NEW i \in Items, AgentSends(i) \/ MemberSends(i) \/ Edit(i)
  PROVE  Sound'
<1>1. m \in Managed /\ Apart(m, taken, fresh) /\ fresh \in SUBSET Items
  BY DEF Sound
<1>2. i \in fresh /\ fresh' = fresh \ {i} /\ taken' = taken
  BY DEF AgentSends, MemberSends, Edit
<1>3. /\ Apart(m, taken, fresh \ {i}) /\ taken[i] = 0 /\ i \notin m.typed
      /\ \A o \in Directs : i \notin m.run[o].items
  BY <1>1, <1>2, ApartSent
<1>4. SUFFICES m' \in Managed /\ Apart(m', taken, fresh \ {i})
  BY <1>2 DEF Sound, AcceptedOnce
<1>5. CASE AgentSends(i)
  <2>1. fresh \ {i} \in SUBSET Items
    BY <1>1
  <2> QED BY <1>1, <1>3, <1>5, <2>1, ApartEnqueue DEF AgentSends
<1>6. CASE MemberSends(i)
  <2> DEFINE x == ReleaseBackendHold(m)
             y == [x EXCEPT !.typed = {i}]
  <2>1. Sheds(m, x) /\ x \in Managed
    BY <1>1, ReleaseBackendHoldSheds, ShedsTyped
  <2>2. Apart(x, taken, fresh)
    BY <1>1, <2>1, ApartSheds
  <2>3. m' = y
    BY <1>6 DEF MemberSends
  <2> HIDE DEF x
  <2>4. /\ y \in Managed /\ y.queue = x.queue /\ y.typed = {i} /\ y.run = x.run
        /\ y.flush = x.flush /\ y.slot = x.slot /\ y.swap = x.swap
    BY <2>1 DEF Managed
  <2> HIDE DEF y
  <2>5. Apart(y, taken, fresh \ {i})
    BY <1>2, <2>2, <2>4 DEF Apart
  <2> QED BY <2>3, <2>4, <2>5
<1>7. CASE Edit(i)
  <2> DEFINE r == [NoRun EXCEPT !.items = {i}]
             h == (m.holds \ {"backend"}) \cup {"edit"}
             x == [m EXCEPT !.holds = h]
             z == [x EXCEPT !.edit = "read"]
             y == [m EXCEPT !.holds = h, !.edit = "read", !.run["edit"] = r]
  <2>1. r \in TurnRun /\ r.items = {i} /\ EndFits(r)
    BY DEF NoRun, TurnRun, EndFits
  <2>2. h \in SUBSET {"backend", "edit", "resume"}
    BY <1>1 DEF Managed
  <2>3. m' = y
    BY <1>7 DEF Edit
  <2> HIDE DEF r, h
  <2>4. y = [z EXCEPT !.run["edit"] = r]
    BY <1>1 DEF Managed
  <2>5. Sheds(m, x) /\ x \in Managed
    BY <1>1, <2>2, SetHoldsSheds, ShedsTyped
  <2> HIDE DEF x, y
  <2>6. Sheds(x, z) /\ z \in Managed
    BY <2>5, SetEditSheds, ShedsTyped
  <2> HIDE DEF z
  <2>7. Apart(z, taken, fresh)
    BY <1>1, <2>5, <2>6, ShedsTrans, ApartSheds
  <2>8. /\ y \in Managed /\ y.queue = z.queue /\ y.typed = z.typed
        /\ y.flush = z.flush /\ y.slot = z.slot /\ y.swap = z.swap
        /\ y.run["edit"] = r
        /\ \A p \in Owners : p # "edit" => y.run[p] = z.run[p]
    BY <2>1, <2>4, <2>6 DEF Managed
  <2>9. Apart(y, taken, fresh \ {i})
    BY <1>2, <2>1, <2>7, <2>8 DEF Apart, Directs
  <2> QED BY <2>3, <2>8, <2>9
<1> QED BY <1>5, <1>6, <1>7

\* A member's message is queued or becomes a call, never both.
LEMMA RoutingSound ==
  ASSUME Sound, Routing
  PROVE  Sound'
<1>1. m \in Managed /\ Apart(m, taken, fresh) /\ fresh \in SUBSET Items
  BY DEF Sound
<1>2. CASE MemberRoutes
  <2> DEFINE x == [m EXCEPT !.typed = {}]
             i == CHOOSE i \in m.typed : TRUE
             y == BeginTurn(x)
             r == [at |-> "wait", end |-> "open", items |-> m.typed]
             v == [y EXCEPT !.run["member"] = r]
  <2>1. /\ x \in Managed /\ x.queue = m.queue /\ x.typed = {} /\ x.run = m.run
        /\ x.flush = m.flush /\ x.slot = m.slot /\ x.swap = m.swap
    BY <1>1 DEF Managed
  <2>2. i \in m.typed /\ i \in Items
    BY <1>1, <1>2 DEF MemberRoutes, Managed
  <2>3. Becomes(Enqueue(x, i)) \/ Becomes(v)
    BY <1>2 DEF MemberRoutes
  <2>4. r \in TurnRun /\ r.items = m.typed /\ EndFits(r)
    BY <1>1 DEF TurnRun, Managed, EndFits
  <2> HIDE DEF x, i, r
  <2>5. Apart(x, taken, fresh)
    BY <1>1, <2>1 DEF Apart
  <2>6. taken[i] = 0 /\ i \notin fresh \cup x.typed
        /\ \A o \in Directs : i \notin x.run[o].items
    BY <1>1, <2>1, <2>2 DEF Apart
  <2>7. Enqueue(x, i) \in Managed /\ Apart(Enqueue(x, i), taken, fresh)
    BY <1>1, <2>1, <2>2, <2>5, <2>6, ApartEnqueue
  <2>8. Sheds(x, y) /\ y \in Managed
    BY <2>1, BeginTurnSheds, ShedsTyped
  <2>9. Apart(y, taken, fresh)
    BY <2>5, <2>8, ApartSheds
  <2>10. /\ y.queue = m.queue /\ y.typed = {}
         /\ \A o \in Owners : y.run[o].items \subseteq m.run[o].items
    BY <2>1, <2>8 DEF Sheds
  <2> HIDE DEF y
  <2>11. /\ v \in Managed /\ v.queue = y.queue /\ v.typed = y.typed
         /\ v.flush = y.flush /\ v.slot = y.slot /\ v.swap = y.swap
         /\ v.run["member"] = r
         /\ \A p \in Owners : p # "member" => v.run[p] = y.run[p]
    BY <2>4, <2>8 DEF Managed
  <2> HIDE DEF v
  <2>12. Apart(v, taken, fresh)
    BY <1>1, <2>4, <2>9, <2>10, <2>11 DEF Apart, Directs
  <2> QED BY <2>3, <2>7, <2>11, <2>12, BecomesApart
<1>3. CASE MemberStarts
  <2> DEFINE x == [m EXCEPT !.slot = "live"]
  <2>1. Sheds(m, x)
    BY <1>1, CloseSheds
  <2>2. x \in Managed /\ Apart(x, taken, fresh)
    BY <1>1, <2>1, ApartSheds, ShedsTyped
  <2>3. x.run = m.run /\ "member" \in Directs
    BY <1>1 DEF Managed, Directs
  <2>4. \/ Becomes(StartsTurn(x, "member", m.run["member"].items))
        \/ Becomes([m EXCEPT !.run["member"] = NoRun])
    BY <1>3 DEF MemberStarts
  <2> HIDE DEF x
  <2> QED BY <1>1, <2>2, <2>3, <2>4, EndRunSheds, BecomesSheds, ApartStartsTurn,
             BecomesApart
<1> QED BY <1>2, <1>3 DEF Routing

\* Prompts and picks keep the invariant.
LEMMA PromptsSound ==
  ASSUME Sound,
         \/ TurnActivity \/ PromptOpens \/ PromptAnswered \/ PromptWithdrawn
         \/ PromptReplyFails \/ PickOpens \/ PickAnswered \/ Watchdog
  PROVE  Sound'
<1> DEFINE x == [m EXCEPT !.flow = "none"]
<1>1. m \in Managed
  BY DEF Sound
<1>2. Sheds(m, x) /\ x \in Managed
  BY <1>1, SetFlowSheds, ShedsTyped
<1>3. x.gap \in SUBSET {"flush", "busy", "overlap"}
  BY <1>2 DEF Managed
<1>4. CASE TurnActivity \/ Watchdog
  BY <1>1, <1>4, UpdateStateSheds, RequestFlushSheds, BecomesSheds
     DEF TurnActivity, Watchdog, States
<1>5. CASE PromptOpens \/ PickOpens
  <2>1. ASSUME NEW f \in {"permission", "pick"}
        PROVE  Sheds(m, UpdateState([m EXCEPT !.flow = f], "waiting"))
    <3> DEFINE y == [m EXCEPT !.flow = f]
    <3>1. Sheds(m, y) /\ y \in Managed
      BY <1>1, SetFlowSheds, ShedsTyped
    <3> HIDE DEF y
    <3>2. Sheds(m, UpdateState(y, "waiting"))
      BY <3>1, UpdateStateSheds, ShedsTrans DEF States
    <3> QED BY <3>2 DEF y
  <2> QED BY <1>5, <2>1, BecomesSheds DEF PromptOpens, PickOpens
<1>6. CASE PromptAnswered
  <2> DEFINE u == UpdateState(x, "busy")
             ga == IF m.pending = "none" THEN u.gap \cup {"busy"} ELSE u.gap
             y == [u EXCEPT !.gap = IF m.pending = "none" THEN @ \cup {"busy"}
                                    ELSE @]
  <2>1. Sheds(x, u) /\ u \in Managed
    BY <1>2, UpdateStateSheds, ShedsTyped DEF States
  <2>2. Becomes(RequestFlush(x)) \/ Becomes(RequestFlush(y))
    BY <1>6 DEF PromptAnswered
  <2> HIDE DEF u
  <2>3. ga \in SUBSET {"flush", "busy", "overlap"} /\ y = [u EXCEPT !.gap = ga]
    BY <2>1 DEF Managed
  <2> HIDE DEF x, y, ga
  <2>4. Sheds(m, y) /\ y \in Managed
    BY <1>2, <2>1, <2>3, SetGapSheds, ShedsTrans, ShedsTyped
  <2> QED BY <1>2, <2>2, <2>4, RequestFlushSheds, ShedsTrans, BecomesSheds
<1>7. CASE PromptWithdrawn
  <2> DEFINE ga == x.gap \cup {"flush"}
  <2>1. Becomes(UpdateState(x, "busy")) \/ Becomes([x EXCEPT !.gap = ga])
    BY <1>7 DEF PromptWithdrawn
  <2>2. ga \in SUBSET {"flush", "busy", "overlap"}
    BY <1>3
  <2> HIDE DEF x, ga
  <2> QED BY <1>2, <2>1, <2>2, SetGapSheds, UpdateStateSheds, ShedsTrans,
             BecomesSheds
          DEF States
<1>8. CASE PromptReplyFails
  <2>1. Becomes(RequestFlush(StampError(x)))
    BY <1>8 DEF PromptReplyFails
  <2> HIDE DEF x
  <2>2. Sheds(m, StampError(x)) /\ StampError(x) \in Managed
    BY <1>2, StampErrorSheds, ShedsTrans, ShedsTyped
  <2> QED BY <2>1, <2>2, RequestFlushSheds, ShedsTrans, BecomesSheds
<1>9. CASE PickAnswered
  <2> DEFINE ga == x.gap \cup {"flush"}
  <2>1. \/ Becomes(RequestFlush(x)) \/ Becomes(SwapStarts(x, "settings"))
        \/ Becomes([x EXCEPT !.gap = ga])
    BY <1>9 DEF PickAnswered
  <2>2. ga \in SUBSET {"flush", "busy", "overlap"}
    BY <1>3
  <2> HIDE DEF x, ga
  <2>3. /\ Sheds(m, RequestFlush(x)) /\ Sheds(m, SwapStarts(x, "settings"))
        /\ Sheds(m, [x EXCEPT !.gap = ga])
    BY <1>2, <2>2, RequestFlushSheds, SwapStartsSheds, SetGapSheds, ShedsTrans
  <2> QED BY <2>1, <2>3, BecomesSheds
<1> QED BY <1>4, <1>5, <1>6, <1>7, <1>8, <1>9

\* newConversation gives the queue back.
LEMMA NewConversationSheds ==
  ASSUME NEW x \in Managed
  PROVE  Sheds(x, NewConversation(x))
<1> DEFINE fl == IF x.flow = "pick" THEN "none" ELSE x.flow
           h == x.holds \ {"backend"}
           a == [x EXCEPT !.flow = IF @ = "pick" THEN "none" ELSE @,
                          !.holds = @ \ {"backend"}, !.queue = {},
                          !.phase = "none"]
           u == UpdateState(a, "idle")
           t == Teardown(u)
           b == [t EXCEPT !.slot = "none", !.queue = x.queue]
           c == IF x.queue # {} THEN RequestFlush(b) ELSE b
<1>1. a \in Managed
  <2> DEFINE p == [x EXCEPT !.flow = fl]
             q == [p EXCEPT !.holds = h]
             r == [q EXCEPT !.queue = {}]
  <2>1. a = [r EXCEPT !.phase = "none"]
    BY DEF Managed
  <2>2. p \in Managed
    BY DEF Managed
  <2>3. h \in SUBSET {"backend", "edit", "resume"}
    BY DEF Managed
  <2> HIDE DEF p, h, a
  <2>4. q \in Managed
    BY <2>2, <2>3 DEF Managed
  <2> HIDE DEF q
  <2>5. r \in Managed
    BY <2>4 DEF Managed
  <2> HIDE DEF r
  <2> QED BY <2>1, <2>5, SetPhaseSheds, ShedsTyped
<1>2. /\ a.typed = x.typed /\ a.run = x.run /\ a.flush = x.flush
      /\ a.slot = x.slot /\ a.swap = x.swap
  BY DEF Managed
<1>3. NewConversation(x) = Swapped(c, x.pending)
  BY DEF NewConversation
<1> HIDE DEF a
<1>4. Sheds(a, u) /\ u \in Managed
  BY <1>1, UpdateStateSheds, ShedsTyped DEF States
<1> HIDE DEF u
<1>5. Sheds(a, t) /\ t \in Managed
  BY <1>4, TeardownSheds, ShedsTrans, ShedsTyped
<1> HIDE DEF t
<1>6. x.queue \subseteq Items /\ x.pending \in Owners \cup {"none"}
  BY DEF Managed
<1>7. b \in Managed
  <2> DEFINE w == [t EXCEPT !.slot = "none"]
  <2>1. w \in Managed
    BY <1>5, CloseSheds, ShedsTyped
  <2>2. b = [w EXCEPT !.queue = x.queue]
    BY <1>5 DEF Managed
  <2> HIDE DEF w, b
  <2> QED BY <1>6, <2>1, <2>2 DEF Managed
<1>8. /\ b.queue = x.queue /\ b.typed = t.typed /\ b.run = t.run
      /\ b.flush = t.flush /\ b.slot = "none"
  BY <1>5 DEF Managed
<1> HIDE DEF b
<1>9. Sheds(x, b)
  BY <1>2, <1>5, <1>7, <1>8 DEF Sheds
<1>10. Sheds(x, c) /\ c \in Managed
  BY <1>7, <1>9, RequestFlushSheds, ShedsTrans, ShedsTyped
<1> HIDE DEF c
<1> QED BY <1>3, <1>6, <1>10, SwappedSheds, ShedsTrans

\* Changes of the conversation keep the invariant.
LEMMA ConversationsSound ==
  ASSUME Sound,
         \/ SettingsSwap \/ Clear \/ AskHandoff \/ HandoffResets
         \/ MemberResumes \/ ResumeSwaps \/ ResumeFails
  PROVE  Sound'
<1>1. m \in Managed /\ Apart(m, taken, fresh)
  BY DEF Sound
<1>2. CASE SettingsSwap \/ Clear
  BY <1>1, <1>2, SwapStartsSheds, NewConversationSheds, BecomesSheds
     DEF SettingsSwap, Clear
<1>3. CASE AskHandoff
  <2> DEFINE x == [m EXCEPT !.phase = "asked"]
             r == IF x.resume = "none" THEN "claimed" ELSE x.resume
  <2>1. Sheds(m, x) /\ x \in Managed
    BY <1>1, SetPhaseSheds, ShedsTyped
  <2>2. \/ Becomes(x) \/ Becomes([x EXCEPT !.resume = r])
        \/ Becomes(RequestFlush(ReleaseBackendHold(x)))
    BY <1>3 DEF AskHandoff
  <2>3. r \in {"none", "claimed", "swap"}
    BY <2>1 DEF Managed
  <2> HIDE DEF x, r
  <2>4. Sheds(m, [x EXCEPT !.resume = r])
    BY <2>1, <2>3, SetResumeSheds, ShedsTrans
  <2>5. Sheds(m, ReleaseBackendHold(x)) /\ ReleaseBackendHold(x) \in Managed
    BY <2>1, ReleaseBackendHoldSheds, ShedsTrans, ShedsTyped
  <2>6. Sheds(m, RequestFlush(ReleaseBackendHold(x)))
    BY <2>5, RequestFlushSheds, ShedsTrans
  <2> QED BY <2>1, <2>2, <2>4, <2>6, BecomesSheds
<1>4. CASE HandoffResets
  <2>1. CASE Becomes(FailAutoHandoff(m))
    BY <1>1, <2>1, BriefEndsSheds, BecomesSheds
  <2>2. ASSUME NEW i \in fresh,
               m' = NewConversation([m EXCEPT !.queue = @ \cup {i}]),
               fresh' = fresh \ {i}, UNCHANGED taken
        PROVE  Sound'
    <3> DEFINE q == [m EXCEPT !.queue = @ \cup {i}]
    <3>1. i \in Items
      BY DEF Sound
    <3>2. /\ q \in Managed /\ q.queue = m.queue \cup {i} /\ q.typed = m.typed
          /\ q.run = m.run /\ q.flush = m.flush /\ q.slot = m.slot
          /\ q.swap = m.swap
      BY <1>1, <3>1 DEF Managed
    <3> HIDE DEF q
    <3>3. Apart(q, taken, fresh \ {i})
      BY <1>1, <3>2 DEF Apart
    <3>4. Sheds(q, m')
      BY <2>2, <3>2, NewConversationSheds DEF q
    <3>5. m' \in Managed /\ Apart(m', taken, fresh \ {i})
      BY <3>3, <3>4, ApartSheds, ShedsTyped
    <3> QED BY <2>2, <3>5 DEF Sound, AcceptedOnce
  <2> QED BY <1>4, <2>1, <2>2 DEF HandoffResets
<1>5. CASE MemberResumes
  <2> DEFINE fl == IF m.flow = "pick" THEN "none" ELSE m.flow
             h == (m.holds \ {"backend"}) \cup {"resume"}
             x == [m EXCEPT !.flow = fl]
             y == [x EXCEPT !.holds = h]
             z == [m EXCEPT !.flow = fl, !.holds = h, !.resume = "claimed"]
  <2>1. Becomes(z)
    BY <1>5 DEF MemberResumes
  <2>2. z = [y EXCEPT !.resume = "claimed"]
    BY <1>1 DEF Managed
  <2>3. /\ fl \in {"none", "permission", "pick"}
        /\ h \in SUBSET {"backend", "edit", "resume"}
    BY <1>1 DEF Managed
  <2> HIDE DEF fl, h, z
  <2>4. Sheds(m, x) /\ x \in Managed
    BY <1>1, <2>3, SetFlowSheds, ShedsTyped
  <2> HIDE DEF x
  <2>5. Sheds(m, y) /\ y \in Managed
    BY <2>3, <2>4, SetHoldsSheds, ShedsTrans, ShedsTyped
  <2> HIDE DEF y
  <2> QED BY <2>1, <2>2, <2>5, SetResumeSheds, ShedsTrans, BecomesSheds
<1>6. CASE ResumeSwaps
  <2> DEFINE h == m.holds \ {"backend"}
             x == [m EXCEPT !.resume = "swap"]
             z == [m EXCEPT !.resume = "swap", !.holds = @ \ {"backend"}]
  <2>1. Becomes(SwapStarts(z, "resume"))
    BY <1>6 DEF ResumeSwaps
  <2>2. z = [x EXCEPT !.holds = h] /\ h \in SUBSET {"backend", "edit", "resume"}
    BY <1>1 DEF Managed
  <2> HIDE DEF h, z
  <2>3. Sheds(m, x) /\ x \in Managed
    BY <1>1, SetResumeSheds, ShedsTyped
  <2> HIDE DEF x
  <2>4. Sheds(m, z) /\ z \in Managed
    BY <2>2, <2>3, SetHoldsSheds, ShedsTrans, ShedsTyped
  <2> QED BY <2>1, <2>4, SwapStartsSheds, ShedsTrans, BecomesSheds
<1>7. CASE ResumeFails
  <2> DEFINE y == [m EXCEPT !.resume = "none"]
             x == StampError(y)
  <2>1. Becomes(ReleaseHold(x, "resume")) \/ Becomes(x)
    BY <1>7 DEF ResumeFails
  <2>2. Sheds(m, y) /\ y \in Managed
    BY <1>1, SetResumeSheds, ShedsTyped
  <2> HIDE DEF y
  <2>3. Sheds(m, x) /\ x \in Managed
    BY <2>2, StampErrorSheds, ShedsTrans, ShedsTyped
  <2> HIDE DEF x
  <2> QED BY <2>1, <2>3, ReleaseHoldSheds, ShedsTrans, BecomesSheds
<1> QED BY <1>2, <1>3, <1>4, <1>5, <1>6, <1>7

\* Edits, the idle sweep and a kill keep the invariant.
LEMMA EditsSound ==
  ASSUME Sound, EditForks \/ EditFails \/ EditRollsBack \/ Demote \/ Kill
  PROVE  Sound'
<1>1. m \in Managed /\ m.pending \in Owners \cup {"none"}
  BY DEF Sound, Managed
<1>2. CASE EditForks
  <2> DEFINE x == [m EXCEPT !.edit = "fork"]
  <2>1. Sheds(m, x) /\ x \in Managed
    BY <1>1, SetEditSheds, ShedsTyped
  <2>2. Becomes(SwapStarts(x, "fork"))
    BY <1>2 DEF EditForks
  <2> HIDE DEF x
  <2> QED BY <2>1, <2>2, SwapStartsSheds, ShedsTrans, BecomesSheds
<1>3. CASE EditFails
  <2> DEFINE e == [m EXCEPT !.edit = "none"]
             x == [m EXCEPT !.edit = "none", !.run["edit"] = NoRun]
  <2>1. \/ Becomes(ReleaseHold(x, "edit"))
        \/ Becomes(ReleaseHold(StampError(x), "edit"))
    BY <1>3 DEF EditFails
  <2>2. x = [e EXCEPT !.run["edit"] = NoRun]
    BY <1>1 DEF Managed
  <2> HIDE DEF x
  <2>3. Sheds(m, e) /\ e \in Managed
    BY <1>1, SetEditSheds, ShedsTyped
  <2> HIDE DEF e
  <2>4. Sheds(m, x) /\ x \in Managed
    BY <2>2, <2>3, EndRunSheds, ShedsTrans, ShedsTyped
  <2>5. Sheds(m, StampError(x)) /\ StampError(x) \in Managed
    BY <2>4, StampErrorSheds, ShedsTrans, ShedsTyped
  <2> QED BY <2>1, <2>4, <2>5, ReleaseHoldSheds, ShedsTrans, BecomesSheds
<1>4. CASE EditRollsBack
  BY <1>1, <1>4, SwapStartsSheds, BecomesSheds DEF EditRollsBack
<1>5. CASE Demote
  <2>1. Sheds(m, Teardown(m)) /\ Teardown(m) \in Managed
    BY <1>1, TeardownSheds, ShedsTyped
  <2>2. Sheds(m, [Teardown(m) EXCEPT !.slot = "none"])
    BY <2>1, CloseSheds, ShedsTrans
  <2> QED BY <1>5, <2>2, BecomesSheds DEF Demote
<1>6. CASE Kill
  <2> DEFINE f == [m EXCEPT !.flow = "none"]
             t == Teardown(f)
             a == [t EXCEPT !.alive = FALSE]
             b == [a EXCEPT !.slot = "none", !.swap = "none"]
             c == [b EXCEPT !.edit = "none"]
             x == [t EXCEPT !.alive = FALSE, !.slot = "none", !.swap = "none",
                            !.edit = "none", !.resume = "none"]
  <2>1. Becomes(AbortDone(Swapped(x, m.pending)))
    BY <1>6 DEF Kill
  <2>2. Sheds(m, f) /\ f \in Managed
    BY <1>1, SetFlowSheds, ShedsTyped
  <2> HIDE DEF f
  <2>3. Sheds(m, t) /\ t \in Managed
    BY <2>2, TeardownSheds, ShedsTrans, ShedsTyped
  <2> HIDE DEF t
  <2>4. x = [c EXCEPT !.resume = "none"]
    BY <2>3 DEF Managed
  <2> HIDE DEF x
  <2>a. a \in Managed
    BY <2>3 DEF Managed
  <2>b. /\ a.queue = t.queue /\ a.typed = t.typed /\ a.run = t.run
        /\ a.flush = t.flush /\ a.slot = t.slot /\ a.swap = t.swap
    BY <2>3 DEF Managed
  <2>5. Sheds(t, a) /\ a \in Managed
    BY <2>a, <2>b, FieldsShed
  <2> HIDE DEF a
  <2>6. Sheds(a, b) /\ b \in Managed
    BY <2>5, SetSlotSheds, ShedsTyped
  <2> HIDE DEF b
  <2>7. Sheds(b, c) /\ c \in Managed
    BY <2>6, SetEditSheds, ShedsTyped
  <2> HIDE DEF c
  <2>8. Sheds(c, x) /\ x \in Managed
    BY <2>4, <2>7, SetResumeSheds, ShedsTyped
  <2>9. Sheds(m, x)
    BY <2>3, <2>5, <2>6, <2>7, <2>8, ShedsTrans
  <2>10. Sheds(x, Swapped(x, m.pending)) /\ Swapped(x, m.pending) \in Managed
    BY <1>1, <2>8, SwappedSheds, ShedsTyped
  <2> QED BY <2>1, <2>9, <2>10, AbortDoneSheds, ShedsTrans, BecomesSheds
<1> QED BY <1>2, <1>3, <1>4, <1>5, <1>6

-----------------------------------------------------------------------------
(* The theorems.                                                           *)

\* At the start every message is unsent and nothing was taken.
LEMMA InitSound == Init => Sound
<1> SUFFICES ASSUME Init PROVE Sound
  OBVIOUS
<1>1. m \in Managed
  BY NoneTyped DEF Init, InitAgent, Managed, States
<1>2. /\ m.queue = {} /\ m.typed = {} /\ m.slot = "live"
      /\ \A o \in Owners : m.run[o] = NoRun
  BY DEF Init, InitAgent
<1>3. taken = [i \in Items |-> 0] /\ fresh = Items
  BY DEF Init
<1>4. Apart(m, taken, fresh)
  BY <1>2, <1>3, NoneTyped DEF Apart, Directs
<1> QED BY <1>1, <1>3, <1>4 DEF Sound, AcceptedOnce

\* Every step keeps the invariant.
LEMMA NextSound == Sound /\ [Next]_vars => Sound'
<1> SUFFICES ASSUME Sound, [Next]_vars PROVE Sound'
  OBVIOUS
<1>1. CASE Turning
  BY <1>1, PresendEndsSound, SendAcceptedSound, CallStepsSound, TurnEndsSound
     DEF Turning
<1>2. CASE Swapping
  BY <1>2, SwapEndsSound, AbortStepsSound, ConversationsSound, EditsSound
     DEF Swapping
<1>3. CASE Environment
  BY <1>3, SendsSound, CallStepsSound, TurnEndsSound, PromptsSound,
     StreamEndsSound, ConversationsSound, StopSound, AbortStepsSound, EditsSound
     DEF Environment
<1>4. CASE UNCHANGED vars
  BY <1>4 DEF vars, Sound, AcceptedOnce
<1> QED BY <1>1, <1>2, <1>3, <1>4, FlushingSound, RoutingSound DEF Next, Progress

\* A flush, a member's message, a handoff brief and an edit never hand one
\* message to a backend twice, whatever swaps, Stops, failures, holds and
\* resets cut and re-queue it (drain on accept, requeueSwappedSend).
THEOREM TakenOnce == Spec => []AcceptedOnce
<1>1. Sound => AcceptedOnce
  BY DEF Sound
<1> QED BY <1>1, InitSound, NextSound, PTL DEF Spec

\* The bound on disturbances is never overdrawn.
LEMMA FuelLasts ==
  ASSUME fuel \in 0..MaxEvents, [Next]_vars
  PROVE  fuel' \in 0..MaxEvents
<1> DEFINE Spent == fuel' = fuel \/ (fuel > 0 /\ fuel' = fuel - 1)
<1>1. SUFFICES Spent
  BY BoundsAssumption
<1>2. CASE Flushing
  BY <1>2 DEF Flushing, FlushBegins, SampleArrives, FlushChecks, FlushRechecks,
              AccountChecked, FlushReady, CapRead, Task, Disturb
<1>3. CASE Turning
  BY <1>3 DEF Turning, PresendEnds, SendAccepted, SendCut, TurnEnds, Task,
              Disturb
<1>4. CASE Swapping
  BY <1>4 DEF Swapping, SwapEnds, HotAbortEnds, AbortReplaces, ResumeSwaps,
              EditForks, EditRollsBack, HandoffResets, Task, Disturb
<1>5. CASE Routing
  BY <1>5 DEF Routing, MemberRoutes, MemberStarts
<1>6. CASE Environment
  <2>1. ASSUME NEW i \in Items, AgentSends(i) \/ MemberSends(i) \/ Edit(i)
        PROVE  Spent
    BY <2>1 DEF AgentSends, MemberSends, Edit, Task, Disturb
  <2>2. ASSUME NEW o \in Owners, NEW kind \in {"config", "error"},
               SendFails(o, kind)
        PROVE  Spent
    BY <2>2 DEF SendFails, Disturb
  <2>3. CASE TurnEnds("failed") \/ TurnEnds("capacity")
    BY <2>3 DEF TurnEnds, Task, Disturb
  <2>4. CASE \/ TurnActivity \/ StreamEnds \/ SettingsSwap \/ Stop
             \/ HotAbortTimesOut \/ AbortFails \/ Watchdog
    BY <2>4 DEF TurnActivity, StreamEnds, SettingsSwap, Stop, HotAbortTimesOut,
                AbortFails, Watchdog, Task, Disturb
  <2>5. CASE \/ PromptOpens \/ PromptAnswered \/ PromptWithdrawn
             \/ PromptReplyFails \/ PickOpens \/ PickAnswered
    BY <2>5 DEF PromptOpens, PromptAnswered, PromptWithdrawn, PromptReplyFails,
                PickOpens, PickAnswered, Task, Disturb
  <2>6. CASE \/ Clear \/ AskHandoff \/ MemberResumes \/ ResumeFails \/ EditFails
             \/ Demote \/ Kill
    BY <2>6 DEF Clear, AskHandoff, MemberResumes, ResumeFails, EditFails, Demote,
                Kill, Disturb
  <2> QED BY <1>6, <2>1, <2>2, <2>3, <2>4, <2>5, <2>6 DEF Environment
<1>7. CASE UNCHANGED vars
  BY <1>7 DEF vars
<1> QED BY <1>2, <1>3, <1>4, <1>5, <1>6, <1>7 DEF Next, Progress

\* Every composition of the synchronous pieces keeps the agent's record well
\* typed: no handler meets a swap without a caller or a settled call with an
\* end it does not know.
THEOREM TypeCorrect == Spec => []TypeOK
<1>1. Init => fuel \in 0..MaxEvents
  BY BoundsAssumption DEF Init
<1>2. fuel \in 0..MaxEvents /\ [Next]_vars => (fuel \in 0..MaxEvents)'
  BY FuelLasts
<1>3. Sound /\ fuel \in 0..MaxEvents => TypeOK
  BY DEF Sound, TypeOK
<1> QED BY <1>1, <1>2, <1>3, InitSound, NextSound, PTL DEF Spec

-----------------------------------------------------------------------------
(* The state that is shown fits the turn.                                  *)

\* A call that is about to be sent and was not cut.
Open(x, o) == x.run[o].at = "presend" /\ x.run[o].end = "open"

\* A call whose turn has begun.
Active(x, o) == x.run[o].at \in {"presend", "sending", "sent"}

\* Two turns have not overlapped so far.
Single(x) == "overlap" \notin x.gap

\* The pending turn is one of a live session, and nothing has settled it.
PendingFits(x) ==
  x.pending # "none" =>
    /\ x.slot = "live" /\ x.run[x.pending].at \in {"sending", "sent"}
    /\ x.run[x.pending].end = "open"

\* While a swap has the slot no call can be sent, only a member's message can
\* have claimed the agent, a flush that reads the cap is cut, and the edit that
\* swaps is at its fork or rolls back.
SwapFits(x) ==
  x.slot = "swap" =>
    /\ \A o \in Owners : ~Open(x, o)
    /\ x.clock => x.run["member"].at = "wait"
    /\ x.flush.at = "cap" => x.flush.cut
    /\ x.alive /\ x.swap = "fork" => x.edit = "fork"
    /\ x.alive /\ x.swap = "back" => x.edit \in {"back", "unset"}

\* The edit's call runs in the edit's turn, the brief's call in the handoff's
\* brief phase, and a member's message that waits was not cut.
CallersFit(x) ==
  /\ x.alive /\ x.run["edit"].at # "none" => x.edit = "turn"
  /\ Open(x, "brief") \/ x.pending = "brief" => x.phase = "brief"
  /\ \A o \in Owners : x.run[o].at = "wait" => x.run[o].end = "open"

\* Without an overlap one turn runs at a time, and a call that is about to be
\* sent shows as busy.
TurnsFit(x) ==
  Single(x) =>
    /\ \A o, p \in Owners : Active(x, o) /\ Active(x, p) => o = p
    /\ x.alive => \A o \in Owners : Open(x, o) => x.state = "busy"

\* What a turn, a swap and the callers of turns must agree on.
Fit(x) == PendingFits(x) /\ SwapFits(x) /\ CallersFit(x) /\ TurnsFit(x)

\* A flush that is about to take its batch finds no busy agent.
Ready(x) == x.flush.at = "ready" => x.state # "busy"

\* A pending turn is not shown as an idle agent.
Shown(x) ==
  x.alive /\ x.pending # "none" /\ Single(x) =>
    ~IsQueueIdle(x.state) \/ x.flow = "permission" \/ x.abort # "none"

\* A busy agent has a turn, or something that will put the state right.
Backed(x) ==
  x.alive /\ x.state = "busy" /\ "busy" \notin x.gap =>
    \/ x.pending # "none" \/ x.slot = "swap" \/ x.edit \in {"back", "unset"}
    \/ \E o \in Owners : \/ x.run[o].at = "wait" \/ Open(x, o)
                         \/ x.run[o].at = "sending" /\ x.run[o].end = "fail"

USE DEF Open, Active, Single

\* What a piece of a handler does to the flush, as far as turns care: it starts
\* no cap read, undoes no cut, and makes no flush ready.
FlushKept(x, y) ==
  /\ y.flush.at = "cap" => x.flush.at = "cap" /\ (x.flush.cut => y.flush.cut)
  /\ y.flush.at = "ready" => x.flush.at = "ready"

\* The turn's part of the agent is left alone.
CallsKept(x, y) ==
  /\ y.alive = x.alive /\ y.slot = x.slot /\ y.phase = x.phase
  /\ y.run = x.run /\ y.pending = x.pending /\ y.clock = x.clock
  /\ y.swap = x.swap /\ y.edit = x.edit
  /\ "overlap" \in y.gap <=> "overlap" \in x.gap

\* The piece concerns the flush, the queue and its holds alone.
Same(x, y) ==
  /\ CallsKept(x, y) /\ FlushKept(x, y)
  /\ y.state = x.state /\ y.flow = x.flow /\ y.abort = x.abort
  /\ "busy" \in y.gap <=> "busy" \in x.gap

\* The piece sets the state, as far as the agent lives.
Sets(x, y, s) ==
  /\ CallsKept(x, y) /\ FlushKept(x, y)
  /\ y.flow = x.flow /\ y.abort = x.abort
  /\ IF x.alive THEN y.state = s /\ "busy" \notin y.gap
     ELSE y.state = x.state /\ ("busy" \in y.gap <=> "busy" \in x.gap)

\* Pieces that leave the turn alone compose.
LEMMA SameTrans ==
  ASSUME NEW x, NEW y, NEW z, Same(x, y), Same(y, z)
  PROVE  Same(x, z)
BY DEF Same, CallsKept, FlushKept

\* Doing nothing leaves the turn alone.
LEMMA SameSelf == \A x : Same(x, x)
BY DEF Same, CallsKept, FlushKept

\* A piece that leaves the turn alone may follow one that sets the state.
LEMMA SetsThenSame ==
  ASSUME NEW x, NEW y, NEW z, NEW s, Sets(x, y, s), Same(y, z)
  PROVE  Sets(x, z, s)
BY DEF Same, Sets, CallsKept, FlushKept

\* A piece that concerns the queue alone keeps every part of the invariant.
LEMMA SameFit ==
  ASSUME NEW x, NEW y, Same(x, y)
  PROVE  /\ Fit(x) => Fit(y)
         /\ Ready(x) => Ready(y)
         /\ Shown(x) => Shown(y)
         /\ Backed(x) => Backed(y)
<1> USE DEF Same, CallsKept, FlushKept
<1>1. Fit(x) => PendingFits(y) /\ CallersFit(y)
  BY DEF Fit, PendingFits, CallersFit
<1>2. Fit(x) => SwapFits(y)
  BY DEF Fit, SwapFits
<1>3. Fit(x) => TurnsFit(y)
  BY DEF Fit, TurnsFit
<1>4. (Ready(x) => Ready(y)) /\ (Shown(x) => Shown(y)) /\ (Backed(x) => Backed(y))
  BY DEF Ready, Shown, Backed
<1> QED BY <1>1, <1>2, <1>3, <1>4 DEF Fit

\* requestFlush leaves the turn alone.
LEMMA RequestFlushSame ==
  ASSUME NEW x \in Managed
  PROVE  Same(x, RequestFlush(x))
BY DEF RequestFlush, Same, CallsKept, FlushKept, Managed, FlushRun

\* A hold of the queue is no part of the turn.
LEMMA SetHoldsSame ==
  ASSUME NEW x \in Managed, NEW h
  PROVE  Same(x, [x EXCEPT !.holds = h])
BY DEF Same, CallsKept, FlushKept, Managed

\* The queue is no part of the turn.
LEMMA SetQueueSame ==
  ASSUME NEW x \in Managed, NEW q
  PROVE  Same(x, [x EXCEPT !.queue = q])
BY DEF Same, CallsKept, FlushKept, Managed

\* A wake of the agent is no part of the turn.
LEMMA SetResumeSame ==
  ASSUME NEW x \in Managed, NEW r
  PROVE  Same(x, [x EXCEPT !.resume = r])
BY DEF Same, CallsKept, FlushKept, Managed

\* A message a member has typed is no part of the turn.
LEMMA SetTypedSame ==
  ASSUME NEW x \in Managed, NEW t
  PROVE  Same(x, [x EXCEPT !.typed = t])
BY DEF Same, CallsKept, FlushKept, Managed

\* The request for another flush is no part of the turn.
LEMMA SetRerunSame ==
  ASSUME NEW x \in Managed, NEW t
  PROVE  Same(x, [x EXCEPT !.flush.rerun = t])
BY DEF Same, CallsKept, FlushKept, Managed, FlushRun

\* A stage of the flush before it takes its batch is no part of the turn.
LEMMA SetAtSame ==
  ASSUME NEW x \in Managed, NEW at, at \notin {"cap", "ready"}
  PROVE  Same(x, [x EXCEPT !.flush.at = at])
BY DEF Same, CallsKept, FlushKept, Managed, FlushRun

\* Releasing a hold, with its flush, leaves the turn alone.
LEMMA ReleaseHoldSame ==
  ASSUME NEW x \in Managed, NEW h
  PROVE  Same(x, ReleaseHold(x, h))
<1>1. [x EXCEPT !.holds = @ \ {h}] \in Managed
  BY DEF Managed
<1> QED BY <1>1, SetHoldsSame, RequestFlushSame, SameTrans DEF ReleaseHold

\* Releasing the hold of a failed backend leaves the turn alone.
LEMMA ReleaseBackendHoldSame ==
  ASSUME NEW x \in Managed
  PROVE  Same(x, ReleaseBackendHold(x))
BY ReleaseHoldSame, SameSelf DEF ReleaseBackendHold

\* Enqueueing, with its flush or its wake, leaves the turn alone.
LEMMA EnqueueSame ==
  ASSUME NEW x \in Managed, NEW i \in Items
  PROVE  Same(x, Enqueue(x, i))
<1> DEFINE q == [x EXCEPT !.queue = @ \cup {i}]
           y == ReleaseBackendHold(q)
<1>1. q \in Managed /\ Same(x, q)
  BY SetQueueSame DEF Managed
<1>2. Enqueue(x, i) \in {[y EXCEPT !.resume = IF @ = "none" THEN "claimed" ELSE @],
                         RequestFlush(y), y}
  BY DEF Enqueue
<1> HIDE DEF q
<1>3. y \in Managed /\ Same(x, y)
  BY <1>1, ReleaseBackendHoldSame, ReleaseBackendHoldSheds, ShedsTyped, SameTrans
<1> HIDE DEF y
<1> QED BY <1>2, <1>3, SetResumeSame, RequestFlushSame, SameTrans

\* updateState sets the state of an agent that lives, and only that.
LEMMA UpdateStateSets ==
  ASSUME NEW x \in Managed, NEW s \in States
  PROVE  Sets(x, UpdateState(x, s), s)
<1> DEFINE y == [x EXCEPT !.state = s, !.gap = @ \ {"busy"}]
<1>1. y \in Managed
  BY DEF Managed
<1>2. CallsKept(x, y) /\ FlushKept(x, y) /\ y.flow = x.flow /\ y.abort = x.abort
  BY DEF CallsKept, FlushKept, Managed
<1>3. y.state = s /\ "busy" \notin y.gap
  BY DEF Managed
<1>4. x.alive => UpdateState(x, s) \in {y, RequestFlush(y)}
  BY DEF UpdateState
<1> HIDE DEF y
<1>5. x.alive => Sets(x, y, s)
  BY <1>2, <1>3 DEF Sets
<1>6. CASE x.alive
  BY <1>1, <1>4, <1>5, <1>6, RequestFlushSame, SetsThenSame
<1>7. CASE ~x.alive
  <2>1. UpdateState(x, s) = x
    BY <1>7 DEF UpdateState
  <2> QED BY <1>7, <2>1 DEF Sets, CallsKept, FlushKept
<1> QED BY <1>6, <1>7

\* A state other than busy fits unless a call is about to be sent.
LEMMA SetsFit ==
  ASSUME NEW x, NEW y, NEW s, Sets(x, y, s), Fit(x),
         s = "busy" \/ ~Single(x) \/ \A o \in Owners : ~Open(x, o)
  PROVE  Fit(y)
<1> USE DEF Sets, CallsKept, FlushKept
<1>1. PendingFits(y) /\ CallersFit(y)
  BY DEF Fit, PendingFits, CallersFit
<1>2. SwapFits(y)
  BY DEF Fit, SwapFits
<1>3. TurnsFit(y)
  BY DEF Fit, TurnsFit
<1> QED BY <1>1, <1>2, <1>3 DEF Fit

\* What the other parts need of a state that is set.
LEMMA SetsRest ==
  ASSUME NEW x, NEW y, NEW s, Sets(x, y, s)
  PROVE  /\ Ready(x) /\ s # "busy" => Ready(y)
         /\ x.flush.at # "ready" => Ready(y)
         /\ s # "busy" => Backed(y) \/ ~x.alive
         /\ x.pending # "none" => Backed(y)
         /\ ~IsQueueIdle(s) \/ x.pending = "none" => Shown(y)
         /\ x.flow = "permission" \/ x.abort # "none" => Shown(y)
         /\ ~x.alive => Shown(y) /\ Backed(y)
BY DEF Sets, CallsKept, FlushKept, Ready, Backed, Shown

\* What the end of a call leaves alone: everything but the call, and the part
\* of its caller.
Quits(x, y, o) ==
  /\ y.alive = x.alive /\ y.slot = x.slot /\ y.pending = x.pending
  /\ y.clock = x.clock /\ y.swap = x.swap /\ y.flow = x.flow
  /\ y.abort = x.abort /\ FlushKept(x, y)
  /\ o # "brief" => y.phase = x.phase
  /\ o # "edit" => y.edit = x.edit
  /\ \A p \in Owners : y.run[p] = IF p = o THEN NoRun ELSE x.run[p]

\* A call ends and the state stays.
CallEnds(x, y, o) ==
  /\ Quits(x, y, o) /\ y.state = x.state
  /\ \A g \in {"busy", "overlap"} : g \in y.gap <=> g \in x.gap

\* A failure sets the state, next to the `others'.
Blames(x, y, others) ==
  /\ Single(y) => Single(x)
  /\ x.alive /\ Single(y) => \A o \in others : x.run[o].at = "none"
  /\ IF x.alive THEN y.state \in {"waiting", "error"} /\ "busy" \notin y.gap
     ELSE y.state = x.state /\ ("busy" \in y.gap <=> "busy" \in x.gap)

\* A call fails, and the failure sets the state.
CallFails(x, y, o) == Quits(x, y, o) /\ Blames(x, y, Owners \ {o})

\* A call is no reason to be busy.
Idles(x, o) ==
  ~(x.run[o].at = "wait" \/ Open(x, o) \/ (x.run[o].at = "sending" /\ x.run[o].end = "fail"))

\* The call that ends was made.
Called(x, o) ==
  /\ o = "edit" => x.run["edit"].at # "none"
  /\ x.slot = "swap" => x.run[o].at # "wait"

USE NoneTyped

\* A call that ends keeps the calls in place, unless its turn is pending.
LEMMA CallEndsFit ==
  ASSUME NEW x \in Managed, NEW y, NEW o \in Owners, CallEnds(x, y, o), Fit(x),
         x.pending # o, Called(x, o)
  PROVE  Fit(y)
<1> USE DEF CallEnds, Quits, FlushKept, Called
<1>0. x.pending \in Owners \cup {"none"}
  BY DEF Managed
<1>1. PendingFits(y)
  BY <1>0 DEF Fit, PendingFits
<1>2. CallersFit(y)
  BY DEF Fit, CallersFit
<1>3. SwapFits(y)
  BY DEF Fit, SwapFits, CallersFit
<1>4. TurnsFit(y)
  BY DEF Fit, TurnsFit
<1> QED BY <1>1, <1>2, <1>3, <1>4 DEF Fit

\* What the other parts need of a call that ends.
LEMMA CallEndsRest ==
  ASSUME NEW x, NEW y, NEW o \in Owners, CallEnds(x, y, o)
  PROVE  /\ Ready(x) => Ready(y)
         /\ Shown(x) => Shown(y)
         /\ x.state # "busy" \/ y.edit \in {"back", "unset"} \/ ~x.alive
            \/ x.slot = "swap" => Backed(y)
         /\ Backed(x) /\ Fit(x) /\ Idles(x, o) /\ Called(x, o) => Backed(y)
<1> USE DEF CallEnds, Quits, FlushKept, Called
<1>1. (Ready(x) => Ready(y)) /\ (Shown(x) => Shown(y))
  BY DEF Ready, Shown
<1>2. x.state # "busy" \/ y.edit \in {"back", "unset"} \/ ~x.alive
            \/ x.slot = "swap" => Backed(y)
  BY DEF Backed
<1>3. Backed(x) /\ Fit(x) /\ Idles(x, o) /\ Called(x, o) => Backed(y)
  BY DEF Backed, Fit, CallersFit, Idles
<1> QED BY <1>1, <1>2, <1>3

\* A call that fails, of a turn that is not pending, keeps every part.
LEMMA CallFailsFit ==
  ASSUME NEW x \in Managed, NEW y, NEW o \in Owners, CallFails(x, y, o), Fit(x),
         x.pending # o, Called(x, o), o # "edit"
  PROVE  /\ Fit(y) /\ Shown(y) /\ Backed(y)
         /\ Ready(x) => Ready(y)
<1> USE DEF CallFails, Quits, FlushKept, Called, Blames
<1>0. x.pending \in Owners \cup {"none"}
  BY DEF Managed
<1>1. PendingFits(y)
  BY <1>0 DEF Fit, PendingFits
<1>2. CallersFit(y)
  BY DEF Fit, CallersFit
<1>3. SwapFits(y)
  BY DEF Fit, SwapFits, CallersFit
<1>4. TurnsFit(y)
  BY DEF Fit, TurnsFit
<1>5. Shown(y)
  BY <1>0 DEF Shown, Fit, PendingFits
<1>6. Backed(y)
  BY DEF Backed
<1>7. Ready(x) => Ready(y)
  BY DEF Ready
<1> QED BY <1>1, <1>2, <1>3, <1>4, <1>5, <1>6, <1>7 DEF Fit

\* The queue may be flushed after a call has ended.
LEMMA EndsThenSame ==
  ASSUME NEW x, NEW y, NEW z, NEW o, Same(y, z)
  PROVE  /\ CallEnds(x, y, o) => CallEnds(x, z, o)
         /\ CallFails(x, y, o) => CallFails(x, z, o)
BY DEF CallEnds, CallFails, Quits, Blames, Same, CallsKept, FlushKept

\* The queue may be touched before a call ends.
LEMMA SameThenEnds ==
  ASSUME NEW x, NEW y, NEW z, NEW o, Same(x, y)
  PROVE  /\ CallEnds(y, z, o) => CallEnds(x, z, o)
         /\ CallFails(y, z, o) => CallFails(x, z, o)
BY DEF CallEnds, CallFails, Quits, Blames, Same, CallsKept, FlushKept

\* The call's record is dropped, and its caller's stage with it.
LEMMA EndRunEnds ==
  ASSUME NEW x \in Managed, NEW o \in Owners
  PROVE  LET y == [x EXCEPT !.run[o] = NoRun]
         IN /\ y \in Managed /\ CallEnds(x, y, o)
            /\ o = "brief" => \A ph : CallEnds(x, [y EXCEPT !.phase = ph], o)
            /\ o = "edit" => \A e : CallEnds(x, [y EXCEPT !.edit = e], o)
<1> DEFINE y == [x EXCEPT !.run[o] = NoRun]
<1>1. y \in Managed
  BY EndRunSheds, ShedsTyped
<1>2. CallEnds(x, y, o)
  BY DEF CallEnds, Quits, FlushKept, Managed
<1> HIDE DEF y
<1>3. ASSUME o = "brief", NEW ph PROVE CallEnds(x, [y EXCEPT !.phase = ph], o)
  BY <1>1, <1>2, <1>3 DEF CallEnds, Quits, FlushKept, Managed
<1>4. ASSUME o = "edit", NEW e PROVE CallEnds(x, [y EXCEPT !.edit = e], o)
  BY <1>1, <1>2, <1>4 DEF CallEnds, Quits, FlushKept, Managed
<1> QED BY <1>1, <1>2, <1>3, <1>4 DEF y

\* The flush ends, and its call with it; a rerun begins before "ready".
LEMMA FlushEndsEnds ==
  ASSUME NEW x \in Managed
  PROVE  CallEnds(x, FlushEnds(x), "flush") /\ FlushEnds(x).flush.at # "ready"
<1> DEFINE y == [x EXCEPT !.flush = NoFlush, !.run["flush"] = NoRun]
<1>1. y \in Managed
  BY DEF Managed
<1>2. y.flush.at = "none"
  BY DEF NoFlush, Managed
<1>3. /\ y.alive = x.alive /\ y.slot = x.slot /\ y.phase = x.phase
      /\ y.pending = x.pending /\ y.clock = x.clock /\ y.swap = x.swap
      /\ y.edit = x.edit /\ y.flow = x.flow /\ y.abort = x.abort
      /\ y.state = x.state /\ y.gap = x.gap
      /\ \A p \in Owners : y.run[p] = IF p = "flush" THEN NoRun ELSE x.run[p]
  BY DEF Managed
<1>4. FlushEnds(x) \in {y, RequestFlush(y)}
  BY DEF FlushEnds
<1> HIDE DEF y
<1>5. CallEnds(x, y, "flush")
  BY <1>2, <1>3 DEF CallEnds, Quits, FlushKept
<1>6. Same(y, RequestFlush(y))
  BY <1>1, RequestFlushSame
<1>7. RequestFlush(y).flush.at # "ready"
  BY <1>2, <1>6 DEF Same, FlushKept
<1> QED BY <1>2, <1>4, <1>5, <1>6, <1>7, EndsThenSame

\* A turn that completed ends its call and leaves the state.
LEMMA TurnDoneEnds ==
  ASSUME NEW x \in Managed, NEW o \in Owners
  PROVE  CallEnds(x, TurnDone(x, o), o)
<1> DEFINE y == [x EXCEPT !.run[o] = NoRun]
           z == [y EXCEPT !.edit = "none"]
<1>1. /\ y \in Managed /\ CallEnds(x, y, o)
      /\ o = "brief" => CallEnds(x, [y EXCEPT !.phase = "reset"], o)
      /\ o = "edit" => CallEnds(x, z, o)
  BY EndRunEnds
<1>2. /\ o = "flush" => TurnDone(x, o) = FlushEnds(x)
      /\ o = "member" => TurnDone(x, o) = y
      /\ o = "brief" => TurnDone(x, o) \in {[y EXCEPT !.phase = "reset"], y}
      /\ o = "edit" => TurnDone(x, o) = ReleaseHold(z, "edit")
  BY DEF TurnDone
<1> HIDE DEF y
<1>3. z \in Managed
  BY <1>1, SetEditSheds, ShedsTyped
<1> HIDE DEF z
<1> QED BY <1>1, <1>2, <1>3, FlushEndsEnds, ReleaseHoldSame, EndsThenSame

\* A turn that a swap cut ends its call and leaves the state.
LEMMA TurnSwappedEnds ==
  ASSUME NEW x \in Managed, NEW o \in Owners, NEW kept \in BOOLEAN
  PROVE  CallEnds(x, TurnSwapped(x, o, kept), o)
<1> DEFINE y == [x EXCEPT !.run[o] = NoRun]
           i == CHOOSE i \in x.run[o].items : TRUE
           c == kept /\ x.alive /\ x.run[o].items # {}
           z == IF c THEN Enqueue(y, i) ELSE y
           r == [x EXCEPT !.flush.rerun = TRUE]
           p == [y EXCEPT !.phase = "none"]
           e == [z EXCEPT !.edit = "none"]
<1>1. /\ y \in Managed /\ CallEnds(x, y, o)
      /\ o = "brief" => CallEnds(x, p, o)
      /\ o = "edit" => CallEnds(x, [y EXCEPT !.edit = "none"], o)
  BY EndRunEnds
<1>2. /\ o = "flush" => TurnSwapped(x, o, kept) = FlushEnds(IF x.alive THEN r ELSE x)
      /\ o = "member" => TurnSwapped(x, o, kept) = z
      /\ o = "brief" => TurnSwapped(x, o, kept) \in {RequestFlush(p), y}
      /\ o = "edit" => TurnSwapped(x, o, kept) = ReleaseHold(e, "edit")
  BY DEF TurnSwapped, BriefEnds, FailAutoHandoff
<1>3. c => i \in Items
  BY DEF Managed, TurnRun
<1>4. r \in Managed /\ Same(x, r)
  BY RerunSheds, ShedsTyped, SetRerunSame
<1> HIDE DEF y, i, r, c
<1>5. z \in Managed /\ Same(y, z)
  BY <1>1, <1>3, EnqueueSheds, EnqueueSame, SameSelf, ShedsTyped
<1>6. p \in Managed
  BY <1>1, SetPhaseSheds, ShedsTyped
<1> HIDE DEF z, p
<1>7. e \in Managed
  BY <1>5, SetEditSheds, ShedsTyped
<1>8. o = "edit" => CallEnds(x, e, o)
  <2>1. CallEnds(x, z, o)
    BY <1>1, <1>5, EndsThenSame
  <2> QED BY <1>5, <2>1 DEF CallEnds, Quits, FlushKept, Managed
<1> HIDE DEF e
<1>9. CallEnds(x, FlushEnds(IF x.alive THEN r ELSE x), "flush")
  BY <1>4, FlushEndsEnds, SameThenEnds
<1> QED BY <1>1, <1>2, <1>5, <1>6, <1>7, <1>8, <1>9, RequestFlushSame, ReleaseHoldSame,
           EndsThenSame

\* The record of an overlap leaves everything else alone.
Recorded(x, y, others) ==
  /\ y \in Managed
  /\ y.alive = x.alive /\ y.slot = x.slot /\ y.phase = x.phase
  /\ y.run = x.run /\ y.pending = x.pending /\ y.clock = x.clock
  /\ y.swap = x.swap /\ y.edit = x.edit /\ y.flow = x.flow
  /\ y.abort = x.abort /\ y.flush = x.flush /\ y.state = x.state
  /\ "busy" \in y.gap <=> "busy" \in x.gap
  /\ Single(y) <=> Single(x) /\ \A o \in others : x.run[o].at = "none"

\* The history records the calls that run beside another.
LEMMA OverlapsRecorded ==
  ASSUME NEW x \in Managed, NEW others \in SUBSET Owners
  PROVE  Recorded(x, Overlaps(x, others), others)
<1>1. Overlaps(x, others) \in Managed
  BY OverlapsSheds, ShedsTyped
<1> QED BY <1>1 DEF Overlaps, Managed, Recorded

\* A failure touches the state and the history alone.
Failed(x, y, others) ==
  /\ y.alive = x.alive /\ y.slot = x.slot /\ y.phase = x.phase
  /\ y.run = x.run /\ y.pending = x.pending /\ y.clock = x.clock
  /\ y.swap = x.swap /\ y.edit = x.edit /\ y.flow = x.flow
  /\ y.abort = x.abort /\ FlushKept(x, y)
  /\ Blames(x, y, others)

\* A failure records the overlap, then sets the state.
LEMMA RecordedThenSets ==
  ASSUME NEW x, NEW others, NEW y, NEW z, NEW s \in {"waiting", "error"},
         Recorded(x, y, others), Sets(y, z, s)
  PROVE  Failed(x, z, others)
BY DEF Recorded, Sets, CallsKept, FlushKept, Failed, Blames

\* Holding the queue for a failed backend shows as waiting.
LEMMA HoldForBackendSets ==
  ASSUME NEW x \in Managed
  PROVE  Sets(x, HoldForBackend(x), "waiting")
<1> DEFINE h == IF x.queue # {} THEN [x EXCEPT !.holds = @ \cup {"backend"}] ELSE x
<1>1. h \in Managed /\ Same(x, h)
  BY SMTT(30), SetHoldsSame, SameSelf DEF Managed
<1>2. HoldForBackend(x) = UpdateState(h, "waiting")
  BY DEF HoldForBackend
<1> HIDE DEF h
<1>3. Sets(h, UpdateState(h, "waiting"), "waiting")
  BY <1>1, UpdateStateSets DEF States
<1> QED BY <1>1, <1>2, <1>3 DEF Sets, Same, CallsKept, FlushKept

\* The failure of a turn blames its caller alone.
LEMMA OwnedTurnFailureFailed ==
  ASSUME NEW x \in Managed, NEW o \in Owners, NEW kind \in Failures
  PROVE  Failed(x, OwnedTurnFailure(x, o, kind), Owners \ {o})
<1> DEFINE y == Overlaps(x, Owners \ {o})
<1>1. y \in Managed
  BY OverlapsSheds, ShedsTyped
<1>2. OwnedTurnFailure(x, o, kind) \in
        {HoldForBackend(y), UpdateState(y, "waiting"), UpdateState(y, "error")}
  BY DEF OwnedTurnFailure, Failures
<1>3. \A z : Sets(y, z, "waiting") \/ Sets(y, z, "error") => Failed(x, z, Owners \ {o})
  BY OverlapsRecorded, RecordedThenSets
<1> HIDE DEF y
<1> QED BY <1>1, <1>2, <1>3, HoldForBackendSets, UpdateStateSets DEF States

\* A failure without a caller blames the agent.
LEMMA StampErrorFailed ==
  ASSUME NEW x \in Managed
  PROVE  Failed(x, StampError(x), Owners)
<1>1. Overlaps(x, Owners) \in Managed
  BY OverlapsSheds, ShedsTyped
<1>2. Sets(Overlaps(x, Owners), StampError(x), "error")
  BY <1>1, UpdateStateSets DEF StampError, States
<1> QED BY <1>2, OverlapsRecorded, RecordedThenSets

\* A failure next to every call keeps every part.
LEMMA FailedFit ==
  ASSUME NEW x \in Managed, NEW y, Failed(x, y, Owners), Fit(x)
  PROVE  Fit(y) /\ Shown(y) /\ Backed(y) /\ (Ready(x) => Ready(y))
<1> USE DEF Failed, FlushKept, Blames
<1>1. PendingFits(y)
  BY DEF Fit, PendingFits
<1>2. CallersFit(y)
  BY DEF Fit, CallersFit
<1>3. SwapFits(y)
  BY DEF Fit, SwapFits
<1>4. TurnsFit(y)
  BY DEF Fit, TurnsFit
<1>5. Shown(y)
  <2>1. x.pending \in Owners \cup {"none"}
    BY DEF Managed
  <2> QED BY <2>1 DEF Shown, Fit, PendingFits
<1>6. Backed(y)
  BY DEF Backed
<1>7. Ready(x) => Ready(y)
  BY DEF Ready
<1> QED BY <1>1, <1>2, <1>3, <1>4, <1>5, <1>6, <1>7 DEF Fit

\* The call of a turn that failed ends; an edit goes on to its rollback.
LEMMA TurnFailedEnds ==
  ASSUME NEW x \in Managed, NEW o \in Owners, NEW kind \in Failures
  PROVE  LET z == TurnFailed(x, o, kind)
         IN /\ o # "edit" => CallFails(x, z, o)
            /\ o = "edit" => CallEnds(x, z, o) /\ z.edit \in {"back", "unset"}
<1> DEFINE y == [x EXCEPT !.run[o] = NoRun]
           f == OwnedTurnFailure(x, o, kind)
           g == OwnedTurnFailure(y, o, kind)
           e == [y EXCEPT !.edit = IF kind = "config" THEN "unset" ELSE "back"]
           p == [g EXCEPT !.phase = "none"]
<1>1. y \in Managed /\ CallEnds(x, y, o) /\ (o = "edit" => CallEnds(x, e, o))
  BY EndRunEnds
<1>2. /\ o = "flush" => TurnFailed(x, o, kind) = FlushEnds(IF x.alive THEN f ELSE x)
      /\ o = "member" => TurnFailed(x, o, kind) = g
      /\ o = "brief" => TurnFailed(x, o, kind) \in {g, RequestFlush(p)}
      /\ o = "edit" => TurnFailed(x, o, kind) = e
  BY DEF TurnFailed, BriefEnds, FailAutoHandoff
<1>3. f \in Managed /\ g \in Managed
  BY <1>1, OwnedTurnFailureSheds, ShedsTyped
<1>4. Failed(x, f, Owners \ {o}) /\ Failed(y, g, Owners \ {o})
  <2> HIDE DEF y
  <2> QED BY <1>1, OwnedTurnFailureFailed
<1>5. e.edit \in {"back", "unset"}
  <2> HIDE DEF y
  <2> QED BY <1>1 DEF Managed
<1> HIDE DEF y, f, g, e
<1>6. p \in Managed
  BY <1>3, SetPhaseSheds, ShedsTyped
<1>7. CallFails(x, g, o)
  BY <1>1, <1>4 DEF CallEnds, CallFails, Quits, Failed, Blames, FlushKept
<1>8. o = "brief" => CallFails(x, p, o)
  BY <1>3, <1>7 DEF CallFails, Quits, Blames, FlushKept, Managed
<1> HIDE DEF p
<1>9. o = "brief" => CallFails(x, RequestFlush(p), o)
  BY <1>6, <1>8, RequestFlushSame, EndsThenSame
<1>10. ASSUME o = "flush" PROVE CallFails(x, FlushEnds(IF x.alive THEN f ELSE x), o)
  <2>1. CASE x.alive
    <3>1. CallEnds(f, FlushEnds(f), o)
      BY <1>3, <1>10, FlushEndsEnds
    <3>2. Quits(x, FlushEnds(f), o)
      BY <1>4, <1>10, <3>1 DEF CallEnds, Quits, Failed, FlushKept
    <3>3. Blames(x, FlushEnds(f), Owners \ {o})
      BY <1>4, <2>1, <3>1 DEF CallEnds, Quits, Failed, Blames
    <3> QED BY <2>1, <3>2, <3>3 DEF CallFails
  <2>2. CASE ~x.alive
    <3>1. CallEnds(x, FlushEnds(x), o)
      BY <1>10, FlushEndsEnds
    <3> QED BY <2>2, <3>1 DEF CallEnds, CallFails, Quits, Failed, Blames, FlushKept
  <2> QED BY <2>1, <2>2
<1> QED BY <1>1, <1>2, <1>5, <1>7, <1>9, <1>10

\* A session is torn down: no turn is pending and no call can be sent.
Torn(x, y) ==
  /\ y.pending = "none" /\ ~y.clock /\ (y.alive => x.alive)
  /\ y.alive => y.edit = x.edit
  /\ Single(y) => Single(x)
  /\ FlushKept(x, y) /\ (y.flush.at = "cap" => y.flush.cut)
  /\ \A o \in Owners :
       /\ y.run[o].at = x.run[o].at /\ ~Open(y, o)
       /\ y.run[o].at = "wait" => y.run[o].end = x.run[o].end

\* A tear-down keeps the calls in place, whatever becomes of the slot.
LEMMA TornFit ==
  ASSUME NEW x, NEW y, Torn(x, y), Fit(x),
         y.slot = "swap" /\ y.alive => /\ y.swap = "fork" => y.edit = "fork"
                                       /\ y.swap = "back" => y.edit \in {"back", "unset"}
  PROVE  Fit(y) /\ Shown(y)
<1> USE DEF Torn, FlushKept
<1>1. PendingFits(y) /\ Shown(y)
  BY DEF PendingFits, Shown
<1>2. CallersFit(y)
  BY DEF Fit, CallersFit
<1>3. SwapFits(y)
  BY DEF SwapFits
<1>4. TurnsFit(y)
  BY DEF Fit, TurnsFit
<1> QED BY <1>1, <1>2, <1>3, <1>4 DEF Fit

\* What moving the token does to the calls.
Bumped(x, y) ==
  /\ y \in Managed
  /\ y.alive = x.alive /\ y.slot = x.slot /\ y.phase = x.phase
  /\ y.pending = x.pending /\ y.clock = x.clock /\ y.swap = x.swap
  /\ y.edit = x.edit /\ y.flow = x.flow /\ y.abort = x.abort
  /\ y.state = x.state /\ y.gap = x.gap /\ FlushKept(x, y)
  /\ y.flush.at = "cap" => y.flush.cut
  /\ \A o \in Owners :
       /\ y.run[o].at = x.run[o].at /\ ~Open(y, o)
       /\ y.run[o].at # "presend" => y.run[o] = x.run[o]

\* Moving the token cuts every call that is about to be sent.
LEMMA BumpTokenBumped ==
  ASSUME NEW x \in Managed, NEW why \in {"stop", "cut", "gone"}
  PROVE  Bumped(x, BumpToken(x, why))
<1> DEFINE run == [o \in Owners |->
                     IF x.run[o].at = "presend" /\ x.run[o].end = "open"
                       THEN [x.run[o] EXCEPT !.end = why] ELSE x.run[o]]
           cut == x.flush.cut \/ x.flush.at = "cap"
           y == BumpToken(x, why)
<1>1. x.run \in [Owners -> TurnRun] /\ x.flush \in FlushRun
  BY DEF Managed
<1>2. \A o \in Owners : /\ run[o].at = x.run[o].at
                        /\ ~(run[o].at = "presend" /\ run[o].end = "open")
                        /\ run[o].at # "presend" => run[o] = x.run[o]
  BY <1>1 DEF TurnRun
<1>3. y = [x EXCEPT !.run = run, !.flush.cut = cut]
  BY DEF BumpToken
<1>4. y \in Managed
  BY BumpTokenSheds, ShedsTyped
<1> HIDE DEF run, cut, y
<1>5. y.run = run /\ y.flush.cut = cut /\ y.flush.at = x.flush.at
  BY <1>1, <1>3 DEF Managed, FlushRun
<1>6. /\ y.alive = x.alive /\ y.slot = x.slot /\ y.phase = x.phase
      /\ y.pending = x.pending /\ y.clock = x.clock /\ y.swap = x.swap
      /\ y.edit = x.edit /\ y.flow = x.flow /\ y.abort = x.abort
      /\ y.state = x.state /\ y.gap = x.gap
  BY <1>3 DEF Managed
<1>7. (x.flush.cut => cut) /\ (x.flush.at = "cap" => cut)
  BY DEF cut
<1> QED BY <1>2, <1>4, <1>5, <1>6, <1>7 DEF Bumped, FlushKept, y

\* What the tear-down leaves alone.
TornKeeps(x, y) ==
  /\ y \in Managed /\ Torn(x, y)
  /\ y.alive = x.alive /\ y.slot = x.slot /\ y.phase = x.phase
  /\ y.swap = x.swap /\ y.edit = x.edit /\ y.flow = x.flow
  /\ y.abort = x.abort /\ y.state = x.state /\ y.gap = x.gap

\* Settling the pending turn touches the turn and the flush alone.
LEMMA SettledFrame ==
  ASSUME NEW x \in Managed
  PROVE  LET y == Settled(x)
         IN /\ y \in Managed /\ y.pending = "none" /\ FlushKept(x, y)
            /\ y.flush.cut = x.flush.cut
            /\ y.alive = x.alive /\ y.slot = x.slot /\ y.phase = x.phase
            /\ y.run = x.run /\ y.clock = x.clock /\ y.swap = x.swap
            /\ y.edit = x.edit /\ y.flow = x.flow /\ y.abort = x.abort
            /\ y.state = x.state /\ y.gap = x.gap
<1>1. Settled(x) \in Managed
  BY SettledSheds, ShedsTyped
<1> QED BY <1>1 DEF Settled, Managed, FlushRun, FlushKept

\* teardown leaves no pending turn and no call that can be sent.
LEMMA TeardownTorn ==
  ASSUME NEW x \in Managed, x.pending # "none" => x.run[x.pending].at # "wait"
  PROVE  TornKeeps(x, Teardown(x))
<1> DEFINE b == BumpToken(x, "cut")
           y == [b EXCEPT !.clock = FALSE, !.stamped = FALSE]
           o == x.pending
           z == [y EXCEPT !.run[o].end = "cut"]
           w == IF y.run[o].at = "sent" THEN y ELSE z
<1>1. Bumped(x, b)
  BY BumpTokenBumped
<1>2. Teardown(x) = IF o = "none" THEN y ELSE Settled(w)
  BY DEF Teardown
<1>3. o \in Owners \cup {"none"}
  BY DEF Managed
<1> HIDE DEF b
<1>4. b \in Managed
  BY <1>1 DEF Bumped
<1>5. y \in Managed
  BY <1>4 DEF Managed
<1>6. /\ ~y.clock /\ y.alive = b.alive /\ y.slot = b.slot /\ y.phase = b.phase
      /\ y.pending = b.pending /\ y.swap = b.swap /\ y.edit = b.edit
      /\ y.flow = b.flow /\ y.abort = b.abort /\ y.state = b.state
      /\ y.gap = b.gap /\ y.flush = b.flush /\ y.run = b.run
  BY <1>4 DEF Managed
<1>7. o = "none" => TornKeeps(x, y)
  BY <1>1, <1>5, <1>6 DEF TornKeeps, Torn, Bumped, FlushKept
<1> HIDE DEF y
<1>8. ASSUME o # "none" PROVE TornKeeps(x, Settled(w))
  <2>1. o \in Owners
    BY <1>3, <1>8
  <2>2. z \in Managed
    BY <1>5, <2>1, RunEndSheds, ShedsTyped
  <2>3. /\ z.clock = y.clock /\ z.alive = y.alive /\ z.slot = y.slot
        /\ z.phase = y.phase /\ z.swap = y.swap /\ z.edit = y.edit
        /\ z.flow = y.flow /\ z.abort = y.abort /\ z.state = y.state
        /\ z.gap = y.gap /\ z.flush = y.flush
    BY <1>5 DEF Managed
  <2>4. \A p \in Owners : /\ z.run[p].at = y.run[p].at
                          /\ p # o => z.run[p] = y.run[p]
    BY <1>5, <2>1 DEF Managed, TurnRun
  <2>5. z.run[o].end = "cut"
    BY <1>5, <2>1 DEF Managed, TurnRun
  <2> HIDE DEF z
  <2>6. /\ w \in Managed /\ ~w.clock /\ w.alive = x.alive /\ w.slot = x.slot
        /\ w.phase = x.phase /\ w.swap = x.swap /\ w.edit = x.edit
        /\ w.flow = x.flow /\ w.abort = x.abort /\ w.state = x.state
        /\ w.gap = x.gap /\ FlushKept(x, w) /\ (w.flush.at = "cap" => w.flush.cut)
    BY <1>1, <1>5, <1>6, <2>2, <2>3 DEF Bumped, FlushKept
  <2>7. \A p \in Owners :
          /\ w.run[p].at = x.run[p].at /\ ~Open(w, p)
          /\ w.run[p].at = "wait" => w.run[p].end = x.run[p].end
    BY <1>1, <1>6, <1>8, <2>1, <2>4, <2>5 DEF Bumped
  <2> HIDE DEF w
  <2> DEFINE v == Settled(w)
  <2>8. /\ v \in Managed /\ v.pending = "none" /\ FlushKept(w, v)
        /\ v.flush.cut = w.flush.cut
        /\ v.alive = w.alive /\ v.slot = w.slot /\ v.phase = w.phase
        /\ v.run = w.run /\ v.clock = w.clock /\ v.swap = w.swap
        /\ v.edit = w.edit /\ v.flow = w.flow /\ v.abort = w.abort
        /\ v.state = w.state /\ v.gap = w.gap
    BY <2>6, SettledFrame
  <2> HIDE DEF v
  <2>9. TornKeeps(x, v)
    BY <2>6, <2>7, <2>8 DEF TornKeeps, Torn, FlushKept
  <2> QED BY <2>9 DEF v
<1> QED BY <1>2, <1>7, <1>8

\* The pending turn has reached the backend.
LEMMA PendingCalled ==
  ASSUME NEW x \in Managed, Fit(x)
  PROVE  /\ x.pending \in Owners \cup {"none"}
         /\ x.pending # "none" => x.run[x.pending].at \in {"sending", "sent"}
BY DEF Fit, PendingFits, Managed

\* The caller of a turn that was cut.
LEMMA SwappedFit ==
  ASSUME NEW x \in Managed, NEW o \in Owners \cup {"none"}, Fit(x), x.pending = "none"
  PROVE  LET y == Swapped(x, o)
         IN /\ Fit(y) /\ Shown(y) /\ (Ready(x) => Ready(y)) /\ FlushKept(x, y)
            /\ x.state # "busy" \/ ~x.alive \/ x.slot = "swap" => Backed(y)
            /\ y.slot = x.slot /\ y.alive = x.alive
<1>1. CASE o # "none" /\ x.run[o].at = "sent"
  <2> DEFINE y == TurnSwapped(x, o, FALSE)
  <2>1. Swapped(x, o) = y /\ o \in Owners
    BY <1>1 DEF Swapped
  <2>2. CallEnds(x, y, o) /\ Called(x, o)
    BY <1>1, <2>1, TurnSwappedEnds DEF Called
  <2> HIDE DEF y
  <2>3. Fit(y) /\ (Ready(x) => Ready(y))
        /\ (x.state # "busy" \/ ~x.alive \/ x.slot = "swap" => Backed(y))
    BY <2>1, <2>2, CallEndsFit, CallEndsRest
  <2>4. Shown(y) /\ y.slot = x.slot /\ y.alive = x.alive /\ FlushKept(x, y)
    BY <2>2 DEF Shown, CallEnds, Quits
  <2> QED BY <2>1, <2>3, <2>4
<1>2. CASE ~(o # "none" /\ x.run[o].at = "sent")
  <2>1. Swapped(x, o) = x
    BY <1>2 DEF Swapped
  <2>2. Shown(x) /\ (x.state # "busy" \/ ~x.alive \/ x.slot = "swap" => Backed(x))
        /\ FlushKept(x, x)
    BY DEF Shown, Backed, FlushKept
  <2> QED BY <2>1, <2>2
<1> QED BY <1>1, <1>2

\* A swap takes the slot.
LEMMA SwapStartsFit ==
  ASSUME NEW x \in Managed, Fit(x), 
         NEW kind \in {"settings", "stop", "fork", "back", "resume"},
         kind = "fork" => x.edit = "fork",
         kind = "back" => x.edit \in {"back", "unset"}
  PROVE  LET y == SwapStarts(x, kind)
         IN Fit(y) /\ Shown(y) /\ Backed(y) /\ (Ready(x) => Ready(y))
<1> DEFINE f == [x EXCEPT !.flow = IF @ = "permission" THEN "none" ELSE @]
           t == Teardown(f)
           z == [t EXCEPT !.slot = "swap", !.swap = kind]
<1>1. f \in Managed
  BY DEF Managed
<1>2. /\ f.alive = x.alive /\ f.slot = x.slot /\ f.phase = x.phase
      /\ f.run = x.run /\ f.pending = x.pending /\ f.edit = x.edit
      /\ f.flush = x.flush /\ f.gap = x.gap /\ f.state = x.state
  BY DEF Managed
<1>3. SwapStarts(x, kind) = Swapped(z, x.pending)
  BY DEF SwapStarts
<1> HIDE DEF f
<1>4. TornKeeps(f, t)
  BY <1>1, <1>2, PendingCalled, TeardownTorn
<1> HIDE DEF t
<1>5. t \in Managed
  BY <1>4 DEF TornKeeps
<1>6. z \in Managed
  BY <1>5, SetSlotSheds, ShedsTyped
<1>7. /\ z.slot = "swap" /\ z.swap = kind /\ z.pending = t.pending
      /\ z.clock = t.clock /\ z.alive = t.alive /\ z.edit = t.edit
      /\ z.gap = t.gap /\ z.flush = t.flush /\ z.run = t.run
      /\ z.state = t.state
  BY <1>5 DEF Managed
<1> HIDE DEF z
<1>8. Torn(x, z)
  BY <1>2, <1>4, <1>7 DEF TornKeeps, Torn, FlushKept
<1>9. Fit(z)
  BY <1>2, <1>4, <1>7, <1>8, TornFit DEF TornKeeps
<1>10. Ready(x) => Ready(z)
  BY <1>2, <1>4, <1>7 DEF TornKeeps, Torn, FlushKept, Ready
<1>11. z.pending = "none" /\ x.pending \in Owners \cup {"none"}
  BY <1>8, PendingCalled DEF Torn
<1> QED BY <1>3, <1>6, <1>7, <1>9, <1>10, <1>11, SwappedFit

\* The inductive invariant of StateFitsTurn.
Whole(x) == Fit(x) /\ Ready(x) /\ Shown(x) /\ Backed(x)

\* A piece that concerns the queue alone keeps the invariant.
LEMMA SameWhole ==
  ASSUME NEW x, NEW y, Same(x, y), Whole(x)
  PROVE  Whole(y)
BY SameFit DEF Whole

\* The busy claim of a turn.
LEMMA BeginTurnFrame ==
  ASSUME NEW x \in Managed
  PROVE  LET y == BeginTurn(x)
         IN /\ y \in Managed
            /\ y.alive = x.alive /\ y.slot = x.slot /\ y.phase = x.phase
            /\ y.run = x.run /\ y.pending = x.pending /\ y.swap = x.swap
            /\ y.edit = x.edit /\ y.flush = x.flush
            /\ Single(y) <=> Single(x)
            /\ y.alive => y.state = "busy"
<1>1. BeginTurn(x) \in Managed
  BY BeginTurnSheds, ShedsTyped
<1> QED BY <1>1 DEF BeginTurn, UpdateState, IsQueueIdle, Managed

\* A turn starts.
Starts(x, y, o) ==
  /\ Fit(y) /\ Shown(y) /\ Backed(y) /\ Open(y, o)
  /\ y \in Managed /\ y.flush = x.flush /\ y.phase = x.phase
  /\ y.pending = x.pending

\* A turn that starts is the only one that is about to be sent.
LEMMA StartsTurnStarts ==
  ASSUME NEW x \in Managed, NEW o \in Owners, NEW items \in SUBSET Items, Fit(x),
         x.slot # "swap", x.pending # o, x.alive /\ o = "edit" => x.edit = "turn",
         o = "brief" => x.phase = "brief"
  PROVE  Starts(x, StartsTurn(x, o, items), o)
<1> DEFINE w == Overlaps(x, Owners \ {o})
           z == BeginTurn(w)
           y == [z EXCEPT !.run[o] = Call(items)]
<1>1. StartsTurn(x, o, items) = y
  BY DEF StartsTurn, Call
<1>2. y \in Managed
  BY <1>1, StartsTurnSheds, ShedsTyped
<1>3. Recorded(x, w, Owners \ {o})
  BY OverlapsRecorded
<1>4. /\ z \in Managed
      /\ z.alive = w.alive /\ z.slot = w.slot /\ z.phase = w.phase
      /\ z.run = w.run /\ z.pending = w.pending /\ z.swap = w.swap
      /\ z.edit = w.edit /\ z.flush = w.flush
      /\ Single(z) <=> Single(w)
      /\ z.alive => z.state = "busy"
  <2> HIDE DEF w
  <2> QED BY <1>3, BeginTurnFrame DEF Recorded
<1> HIDE DEF z, w
<1>5. /\ y.alive = z.alive /\ y.slot = z.slot /\ y.phase = z.phase
      /\ y.pending = z.pending /\ y.swap = z.swap /\ y.edit = z.edit
      /\ y.flush = z.flush /\ y.gap = z.gap /\ y.state = z.state
      /\ \A p \in Owners : y.run[p] = IF p = o THEN Call(items) ELSE z.run[p]
  BY <1>4 DEF Managed
<1>6. Call(items).at = "presend" /\ Call(items).end = "open"
  BY DEF Call
<1> HIDE DEF y
<1>7. /\ y.alive = x.alive /\ y.slot = x.slot /\ y.phase = x.phase
      /\ y.pending = x.pending /\ y.swap = x.swap /\ y.edit = x.edit
      /\ y.flush = x.flush /\ (x.alive => y.state = "busy")
      /\ Single(y) => Single(x) /\ \A p \in Owners \ {o} : x.run[p].at = "none"
      /\ Open(y, o)
      /\ \A p \in Owners : p # o => y.run[p] = x.run[p]
  BY <1>3, <1>4, <1>5, <1>6 DEF Recorded
<1>8. x.pending \in Owners \cup {"none"}
  BY DEF Managed
<1>9. PendingFits(y)
  BY <1>7, <1>8 DEF Fit, PendingFits
<1>10. SwapFits(y)
  BY <1>7 DEF SwapFits
<1>11. CallersFit(y)
  BY <1>7 DEF Fit, CallersFit
<1>12. TurnsFit(y)
  BY <1>7 DEF TurnsFit
<1>13. Shown(y) /\ Backed(y)
  BY <1>7 DEF Shown, Backed, IsQueueIdle
<1> QED BY <1>1, <1>2, <1>7, <1>9, <1>10, <1>11, <1>12, <1>13 DEF Fit, Starts

\* A session is woken in an empty slot.
LEMMA WakesFit ==
  ASSUME NEW x \in Managed, Fit(x), x.slot # "swap"
  PROVE  LET y == [x EXCEPT !.slot = "live"]
         IN /\ y \in Managed /\ Fit(y) /\ y.slot = "live"
            /\ y.alive = x.alive /\ y.run = x.run /\ y.flush = x.flush
            /\ y.phase = x.phase /\ y.pending = x.pending /\ y.state = x.state
            /\ y.queue = x.queue /\ (Backed(x) => Backed(y)) /\ (Shown(x) => Shown(y))
<1> DEFINE y == [x EXCEPT !.slot = "live"]
<1>1. y \in Managed
  BY CloseSheds, ShedsTyped
<1>2. /\ y.slot = "live" /\ y.alive = x.alive /\ y.run = x.run /\ y.flush = x.flush
      /\ y.phase = x.phase /\ y.pending = x.pending /\ y.state = x.state
      /\ y.edit = x.edit /\ y.gap = x.gap /\ y.clock = x.clock /\ y.queue = x.queue
      /\ y.flow = x.flow /\ y.abort = x.abort
  BY DEF Managed
<1> HIDE DEF y
<1>3. Fit(y)
  BY <1>2 DEF Fit, PendingFits, SwapFits, CallersFit, TurnsFit
<1>4. (Backed(x) => Backed(y)) /\ (Shown(x) => Shown(y))
  BY <1>2 DEF Backed, Shown
<1> QED BY <1>1, <1>2, <1>3, <1>4 DEF y

\* A flush that has no call of its own ends.
LEMMA FlushEndsFit ==
  ASSUME NEW x \in Managed, Fit(x), x.run["flush"].at = "none"
  PROVE  /\ Fit(FlushEnds(x)) /\ Ready(FlushEnds(x))
         /\ Shown(x) => Shown(FlushEnds(x))
         /\ Backed(x) => Backed(FlushEnds(x))
<1> DEFINE y == FlushEnds(x)
<1>1. CallEnds(x, y, "flush") /\ y.flush.at # "ready"
  BY FlushEndsEnds
<1>2. x.pending # "flush"
  BY DEF Fit, PendingFits
<1>3. Called(x, "flush") /\ Idles(x, "flush")
  BY DEF Called, Idles
<1> HIDE DEF y
<1>4. Fit(y) /\ (Shown(x) => Shown(y)) /\ (Backed(x) => Backed(y))
  BY <1>1, <1>2, <1>3, CallEndsFit, CallEndsRest
<1>5. Ready(y)
  BY <1>1 DEF Ready
<1> QED BY <1>4, <1>5 DEF y

\* The flush hands its batch to a turn.
LEMMA FlushSendsWhole ==
  ASSUME NEW x \in Managed, NEW batch \in SUBSET Items, Fit(x),
         x.slot # "swap", x.run["flush"].at = "none"
  PROVE  Whole(FlushSends(x, batch))
<1> DEFINE y == [x EXCEPT !.flush.at = "run", !.flush.batch = batch]
<1>1. y \in Managed
  BY DEF Managed, FlushRun, FlushAt
<1>2. Same(x, y) /\ y.flush.at = "run"
  BY DEF Same, CallsKept, FlushKept, Managed, FlushRun
<1>3. x.pending # "flush"
  BY DEF Fit, PendingFits
<1>4. FlushSends(x, batch) = StartsTurn(y, "flush", batch)
  BY DEF FlushSends
<1> HIDE DEF y
<1>5. Fit(y) /\ y.slot # "swap" /\ y.pending # "flush"
  BY <1>2, <1>3, SameFit DEF Same, CallsKept
<1>6. Starts(y, StartsTurn(y, "flush", batch), "flush")
  BY <1>1, <1>5, StartsTurnStarts
<1> QED BY <1>2, <1>4, <1>6 DEF Starts, Whole, Ready

\* A flush that is ready, or whose cap was read, keeps the invariant.
LEMMA FlushProceedsWhole ==
  ASSUME NEW x \in Managed, Whole(x), x.slot # "swap", x.run["flush"].at = "none",
         FlushProceeds(x)
  PROVE  Whole(m')
<1>1. CASE x.phase # "none" /\ Becomes(FlushEnds(StartAutoHandoffBrief(x)))
  <2> DEFINE p == [x EXCEPT !.phase = "brief"]
             b == StartAutoHandoffBrief(x)
  <2>1. CASE x.phase \in {"auto", "asked"}
    <3>1. p \in Managed
      BY SetPhaseSheds, ShedsTyped
    <3>2. /\ p.alive = x.alive /\ p.slot = x.slot /\ p.phase = "brief"
          /\ p.pending = x.pending /\ p.swap = x.swap /\ p.edit = x.edit
          /\ p.flush = x.flush /\ p.gap = x.gap /\ p.state = x.state
          /\ p.run = x.run /\ p.clock = x.clock
      BY DEF Managed
    <3>3. b = StartsTurn(p, "brief", {})
      BY <2>1 DEF StartAutoHandoffBrief
    <3> HIDE DEF p
    <3>4. Fit(p)
      BY <3>2 DEF Whole, Fit, PendingFits, SwapFits, CallersFit, TurnsFit
    <3>5. p.pending # "brief"
      BY <2>1, <3>2 DEF Whole, Fit, CallersFit
    <3>6. Starts(p, b, "brief")
      BY <3>1, <3>2, <3>3, <3>4, <3>5, StartsTurnStarts
    <3>7. b.run["flush"] = p.run["flush"]
      <4> DEFINE w == Overlaps(p, Owners \ {"brief"})
      <4>1. w \in Managed /\ w.run = p.run
        BY <3>1, OverlapsRecorded DEF Recorded
      <4>2. b = [BeginTurn(w) EXCEPT !.run["brief"] = Call({})]
        BY <3>3 DEF StartsTurn, Call
      <4> HIDE DEF w
      <4>3. BeginTurn(w) \in Managed /\ BeginTurn(w).run = w.run
        BY <4>1, BeginTurnFrame
      <4> QED BY <4>1, <4>2, <4>3 DEF Managed
    <3> HIDE DEF b
    <3>8. b \in Managed /\ Fit(b) /\ b.run["flush"].at = "none" /\ Shown(b) /\ Backed(b)
      BY <3>2, <3>6, <3>7 DEF Starts
    <3>9. Whole(FlushEnds(b))
      BY <3>8, FlushEndsFit DEF Whole
    <3> QED BY <1>1, <3>9 DEF Becomes, b
  <2>2. CASE x.phase \notin {"auto", "asked"}
    <3>1. b = x
      BY <2>2 DEF StartAutoHandoffBrief
    <3> QED BY <1>1, <3>1, FlushEndsFit DEF Becomes, Whole
  <2> QED BY <2>1, <2>2
<1>2. CASE Becomes(FlushEnds(x))
  BY <1>2, FlushEndsFit DEF Becomes, Whole
<1>3. CASE Becomes(FlushSends(x, x.queue))
  <2>1. x.queue \in SUBSET Items
    BY DEF Managed
  <2> QED BY <1>3, <2>1, FlushSendsWhole DEF Becomes, Whole
<1>4. CASE Becomes([x EXCEPT !.flush.at = "cap", !.flush.batch = x.queue,
                             !.flush.cut = FALSE])
  <2> DEFINE y == [x EXCEPT !.flush.at = "cap", !.flush.batch = x.queue,
                             !.flush.cut = FALSE]
  <2>1. CallsKept(x, y) /\ y.state = x.state /\ y.flow = x.flow
        /\ y.abort = x.abort /\ y.gap = x.gap /\ y.flush.at = "cap"
    BY DEF CallsKept, Managed, FlushRun
  <2>2. m' = y
    BY <1>4 DEF Becomes
  <2> HIDE DEF y
  <2>3. Fit(y)
    BY <2>1 DEF CallsKept, Whole, Fit, PendingFits, SwapFits, CallersFit, TurnsFit
  <2>4. Ready(y) /\ Shown(y) /\ Backed(y)
    BY <2>1 DEF CallsKept, Whole, Ready, Shown, Backed
  <2> QED BY <2>2, <2>3, <2>4 DEF Whole
<1> QED BY <1>1, <1>2, <1>3, <1>4 DEF FlushProceeds

\* The steps of the flush keep the invariant.
LEMMA FlushingWhole ==
  ASSUME Sound, Whole(m), Flushing
  PROVE  Whole(m')
<1>0. m \in Managed /\ (m.flush.at # "run" => m.run["flush"].at = "none")
  BY DEF Sound, Apart
<1>1. m.flush.at # "run" => Whole(FlushEnds(m))
  BY <1>0, FlushEndsFit DEF Whole
<1>2. ASSUME NEW at \in {"check", "sample", "abort", "recheck", "account"}
      PROVE  Whole([m EXCEPT !.flush.at = at])
  BY <1>0, SetAtSame, SameWhole
<1>3. FlushStillWanted(m) => Whole([m EXCEPT !.flush.at = "ready"])
  <2> DEFINE y == [m EXCEPT !.flush.at = "ready"]
  <2>1. CallsKept(m, y) /\ y.state = m.state /\ y.flow = m.flow
        /\ y.abort = m.abort /\ y.gap = m.gap /\ y.flush.at = "ready"
    BY <1>0 DEF CallsKept, Managed, FlushRun
  <2> HIDE DEF y
  <2>2. Fit(y)
    BY <2>1 DEF CallsKept, Whole, Fit, PendingFits, SwapFits, CallersFit, TurnsFit
  <2>3. FlushStillWanted(m) => Ready(y) /\ Shown(y) /\ Backed(y)
    BY <2>1 DEF CallsKept, Whole, Ready, Shown, Backed, FlushStillWanted, IsQueueIdle
  <2> QED BY <2>2, <2>3 DEF Whole, y
<1>4. CASE FlushBegins
  BY <1>2, <1>4 DEF FlushBegins, Becomes
<1>5. CASE SampleArrives
  <2> DEFINE y == [m EXCEPT !.flush.at = "check", !.phase = "auto"]
             c == [m EXCEPT !.flush.at = "check"]
  <2>1. m' = c \/ (m' = y /\ m.phase = "none")
    BY <1>5 DEF SampleArrives, Becomes
  <2>2. Whole(c)
    BY <1>2
  <2>3. /\ y.alive = m.alive /\ y.slot = m.slot /\ y.phase = "auto"
        /\ y.pending = m.pending /\ y.swap = m.swap /\ y.edit = m.edit
        /\ y.flush.at = "check" /\ y.gap = m.gap /\ y.state = m.state
        /\ y.run = m.run /\ y.clock = m.clock /\ y.flow = m.flow
        /\ y.abort = m.abort
    BY <1>0 DEF Managed, FlushRun
  <2> HIDE DEF y, c
  <2>4. m.phase = "none" => Fit(y)
    BY <2>3 DEF Whole, Fit, PendingFits, SwapFits, CallersFit, TurnsFit
  <2>5. Ready(y) /\ Shown(y) /\ Backed(y)
    BY <2>3 DEF Whole, Ready, Shown, Backed
  <2> QED BY <2>1, <2>2, <2>4, <2>5 DEF Whole
<1>6. CASE FlushChecks
  BY <1>1, <1>2, <1>6 DEF FlushChecks, Becomes
<1>7. CASE FlushRechecks \/ AccountChecked
  BY <1>1, <1>2, <1>3, <1>7 DEF FlushRechecks, AccountChecked, Becomes
<1>8. CASE FlushReady
  <2>0. m.flush.at = "ready" /\ m.run["flush"].at = "none"
    BY <1>0, <1>8 DEF FlushReady
  <2>1. CASE m.slot = "live" /\ FlushProceeds(m)
    BY <1>0, <2>0, <2>1, FlushProceedsWhole
  <2>2. CASE m.slot = "swap" /\ Becomes(FlushEnds(m))
    BY <1>1, <2>0, <2>2 DEF Becomes
  <2>3. CASE m.slot = "none" /\ FlushProceeds([m EXCEPT !.slot = "live"])
    <3> DEFINE y == [m EXCEPT !.slot = "live"]
    <3>1. /\ y \in Managed /\ Fit(y) /\ y.slot = "live"
          /\ y.run = m.run /\ y.flush = m.flush /\ y.state = m.state
          /\ Shown(y) /\ Backed(y)
      BY <1>0, <2>3, WakesFit DEF Whole
    <3> HIDE DEF y
    <3>2. Whole(y)
      BY <3>1 DEF Whole, Ready
    <3> QED BY <2>0, <2>3, <3>1, <3>2, FlushProceedsWhole DEF y
  <2>4. CASE Becomes(FlushEnds(UpdateState(m, "error")))
    <3> DEFINE u == UpdateState(m, "error")
    <3>1. u \in Managed /\ Sets(m, u, "error")
      BY <1>0, UpdateStateSets, UpdateStateSheds, ShedsTyped DEF States
    <3> HIDE DEF u
    <3>2. Fit(u)
      <4>1. CASE m.alive
        <5>1. ~Single(m) \/ \A o \in Owners : ~Open(m, o)
          BY <2>0, <4>1 DEF Whole, Ready, Fit, TurnsFit
        <5> QED BY <3>1, <5>1, SetsFit DEF Whole
      <4>2. CASE ~m.alive
        <5>1. Same(m, u)
          BY <3>1, <4>2 DEF Sets, Same
        <5> QED BY <5>1, SameFit DEF Whole
      <4> QED BY <4>1, <4>2
    <3>3. u.run["flush"].at = "none"
      BY <2>0, <3>1 DEF Sets, CallsKept
    <3>4. Shown(u) /\ Backed(u)
      BY <3>1, SetsRest DEF IsQueueIdle
    <3>5. Whole(FlushEnds(u))
      BY <3>1, <3>2, <3>3, <3>4, FlushEndsFit DEF Whole
    <3> QED BY <2>4, <3>5 DEF Becomes, u
  <2> QED BY <1>8, <2>1, <2>2, <2>3, <2>4 DEF FlushReady
<1>9. CASE CapRead
  <2>0. m.flush.at = "cap" /\ m.run["flush"].at = "none"
    BY <1>0, <1>9 DEF CapRead
  <2>1. CASE Becomes(FlushEnds([m EXCEPT !.flush.rerun = TRUE]))
    <3> DEFINE y == [m EXCEPT !.flush.rerun = TRUE]
    <3>1. y \in Managed /\ Same(m, y)
      BY <1>0, RerunSheds, ShedsTyped, SetRerunSame
    <3> HIDE DEF y
    <3>2. Whole(y) /\ y.run["flush"].at = "none"
      BY <2>0, <3>1, SameWhole DEF Same, CallsKept
    <3>3. Whole(FlushEnds(y))
      BY <3>1, <3>2, FlushEndsFit DEF Whole
    <3> QED BY <2>1, <3>3 DEF Becomes, y
  <2>2. CASE Becomes(FlushEnds(m))
    BY <1>1, <2>0, <2>2 DEF Becomes
  <2>3. ASSUME ~m.flush.cut, NEW refused,
               Becomes(LET x == [m EXCEPT !.queue = @ \ refused]
                           batch == (m.flush.batch \ refused) \cap x.queue
                       IN IF batch = {} THEN FlushEnds(x)
                          ELSE FlushSends(x, batch))
        PROVE  Whole(m')
    <3> DEFINE x == [m EXCEPT !.queue = @ \ refused]
               batch == (m.flush.batch \ refused) \cap x.queue
    <3>1. x \in Managed
      BY <1>0 DEF Managed
    <3>2. Same(m, x)
      BY <1>0, SetQueueSame
    <3>3. batch \in SUBSET Items
      BY <3>1 DEF Managed
    <3>4. Becomes(IF batch = {} THEN FlushEnds(x) ELSE FlushSends(x, batch))
      BY <2>3
    <3> HIDE DEF x, batch
    <3>5. Whole(x) /\ x.run["flush"].at = "none" /\ x.slot = m.slot
      BY <2>0, <3>2, SameWhole DEF Same, CallsKept
    <3>6. m.slot # "swap"
      BY <2>0, <2>3 DEF Whole, Fit, SwapFits
    <3>7. Whole(FlushEnds(x)) /\ Whole(FlushSends(x, batch))
      BY <3>1, <3>3, <3>5, <3>6, FlushEndsFit, FlushSendsWhole DEF Whole
    <3> QED BY <3>4, <3>7 DEF Becomes
  <2> QED BY <1>9, <2>1, <2>2, <2>3 DEF CapRead
<1> QED BY <1>4, <1>5, <1>6, <1>7, <1>8, <1>9 DEF Flushing

\* A call that fails, of a turn that is not pending, leaves everything in place.
LEMMA TurnFailedWhole ==
  ASSUME NEW x \in Managed, NEW o \in Owners, NEW kind \in Failures, Fit(x),
         Shown(x), Ready(x), x.pending # o, Called(x, o)
  PROVE  LET z == TurnFailed(x, o, kind) IN Whole(z) /\ Quits(x, z, o)
<1> DEFINE z == TurnFailed(x, o, kind)
<1>1. /\ o # "edit" => CallFails(x, z, o)
      /\ o = "edit" => CallEnds(x, z, o) /\ z.edit \in {"back", "unset"}
  BY TurnFailedEnds
<1> HIDE DEF z
<1>2. o # "edit" => Whole(z) /\ Quits(x, z, o)
  BY <1>1, CallFailsFit DEF Whole, CallFails
<1>3. o = "edit" => Whole(z) /\ Quits(x, z, o)
  BY <1>1, CallEndsFit, CallEndsRest DEF Whole, CallEnds
<1> QED BY <1>2, <1>3 DEF z

\* So does one whose turn is over, if it is no reason to be busy.
LEMMA CallEndsWhole ==
  ASSUME NEW x \in Managed, NEW o \in Owners, NEW z, CallEnds(x, z, o), Fit(x),
         Shown(x), Ready(x), x.pending # o, Called(x, o),
         \/ x.state # "busy" \/ ~x.alive
         \/ Backed(x) /\ Idles(x, o)
  PROVE  Whole(z)
BY CallEndsFit, CallEndsRest DEF Whole

\* A settled turn is no longer pending.
LEMMA SettledFit ==
  ASSUME NEW x \in Managed, Fit(x)
  PROVE  LET y == Settled(x)
         IN Fit(y) /\ Shown(y) /\ (Ready(x) => Ready(y))
<1> DEFINE y == Settled(x)
<1>1. /\ y \in Managed /\ y.pending = "none" /\ FlushKept(x, y)
      /\ y.flush.cut = x.flush.cut
      /\ y.alive = x.alive /\ y.slot = x.slot /\ y.phase = x.phase
      /\ y.run = x.run /\ y.clock = x.clock /\ y.swap = x.swap
      /\ y.edit = x.edit /\ y.flow = x.flow /\ y.abort = x.abort
      /\ y.state = x.state /\ y.gap = x.gap
  BY SettledFrame
<1> HIDE DEF y
<1>2. PendingFits(y) /\ CallersFit(y) /\ TurnsFit(y)
  BY <1>1 DEF Fit, PendingFits, CallersFit, TurnsFit
<1>3. SwapFits(y)
  BY <1>1 DEF Fit, SwapFits, FlushKept
<1>4. Shown(y) /\ (Ready(x) => Ready(y))
  BY <1>1 DEF Shown, Ready, FlushKept
<1> QED BY <1>2, <1>3, <1>4 DEF Fit, y

\* A call that waits for its send is told how its turn ended.
LEMMA RunEndFit ==
  ASSUME NEW x \in Managed, NEW o \in Owners, NEW e \in {"done", "fail"}, Fit(x),
         x.pending # o, x.run[o].at = "sending"
  PROVE  LET y == [x EXCEPT !.run[o].end = e]
         IN /\ y \in Managed /\ Fit(y) /\ (Ready(x) => Ready(y))
            /\ Shown(x) => Shown(y)
            /\ x.state # "busy" \/ ~x.alive \/ e = "fail" => Backed(y)
            /\ y.alive = x.alive /\ y.slot = x.slot /\ y.pending = x.pending
            /\ FlushKept(x, y)
            /\ \A p \in Owners : p # o => y.run[p] = x.run[p]
<1> DEFINE y == [x EXCEPT !.run[o].end = e]
<1>1. y \in Managed
  BY RunEndSheds, ShedsTyped
<1>2. /\ y.alive = x.alive /\ y.slot = x.slot /\ y.phase = x.phase
      /\ y.pending = x.pending /\ y.clock = x.clock /\ y.swap = x.swap
      /\ y.edit = x.edit /\ y.flow = x.flow /\ y.abort = x.abort
      /\ y.state = x.state /\ y.gap = x.gap /\ y.flush = x.flush
  BY DEF Managed
<1>3. /\ \A p \in Owners : p # o => y.run[p] = x.run[p]
      /\ y.run[o].at = "sending" /\ y.run[o].end = e
  BY DEF Managed, TurnRun
<1>4. x.pending \in Owners \cup {"none"}
  BY DEF Managed
<1> HIDE DEF y
<1>5. PendingFits(y)
  BY <1>2, <1>3, <1>4 DEF Fit, PendingFits
<1>6. CallersFit(y)
  BY <1>2, <1>3 DEF Fit, CallersFit
<1>7. SwapFits(y)
  BY <1>2, <1>3 DEF Fit, SwapFits
<1>8. TurnsFit(y)
  BY <1>2, <1>3 DEF Fit, TurnsFit
<1>9. (Ready(x) => Ready(y)) /\ (Shown(x) => Shown(y)) /\ FlushKept(x, y)
  BY <1>2 DEF Ready, Shown, FlushKept
<1>10. x.state # "busy" \/ ~x.alive \/ e = "fail" => Backed(y)
  BY <1>2, <1>3 DEF Backed
<1> QED BY <1>1, <1>2, <1>3, <1>5, <1>6, <1>7, <1>8, <1>9, <1>10 DEF Fit, y

\* The turn that is pending makes way for a call that is about to be sent.
LEMMA SupersedeFit ==
  ASSUME NEW x \in Managed, NEW o \in Owners, Fit(x), Ready(x), Open(x, o)
  PROVE  LET y == Supersede(x)
         IN /\ y \in Managed /\ Fit(y) /\ Shown(y) /\ Ready(y)
            /\ y.pending = "none" /\ y.slot = x.slot /\ y.run[o] = x.run[o]
<1> DEFINE p == x.pending
           s == Settled(x)
           e == [s EXCEPT !.run[p].end = "fail"]
           y == Supersede(x)
           Goal == /\ y \in Managed /\ Fit(y) /\ Shown(y) /\ Ready(y)
                   /\ y.pending = "none" /\ y.slot = x.slot /\ y.run[o] = x.run[o]
<1>0. SUFFICES Goal
  OBVIOUS
<1>1. /\ p \in Owners \cup {"none"} /\ p # o
      /\ p # "none" => x.run[p].at \in {"sending", "sent"}
  BY PendingCalled
<1>2. /\ s \in Managed /\ s.pending = "none" /\ s.slot = x.slot
      /\ s.run = x.run /\ Fit(s) /\ Shown(s) /\ Ready(s)
  BY SettledFrame, SettledFit
<1>3. y = IF p = "none" THEN x
          ELSE IF x.run[p].at # "sent" THEN e
          ELSE IF p = "flush" THEN FlushEnds(s)
          ELSE TurnFailed(s, p, "error")
  BY DEF Supersede
<1>4. y \in Managed
  BY SupersedeSheds, ShedsTyped
<1> HIDE DEF s, p, y
<1>5. CASE p = "none"
  BY <1>3, <1>5 DEF Shown, p
<1>6. CASE p # "none" /\ x.run[p].at # "sent"
  <2>1. p \in Owners /\ s.run[p].at = "sending" /\ s.pending # p
    BY <1>1, <1>2, <1>6
  <2>2. /\ e \in Managed /\ Fit(e) /\ (Ready(s) => Ready(e))
        /\ Shown(s) => Shown(e)
        /\ e.slot = s.slot /\ e.pending = s.pending
    BY ZenonT(40), <1>2, <2>1, RunEndFit
  <2>3. \A q \in Owners : q # p => e.run[q] = s.run[q]
    BY <1>2 DEF Managed
  <2> HIDE DEF e
  <2> QED BY <1>1, <1>2, <1>3, <1>4, <1>6, <2>2, <2>3
<1>7. CASE p # "none" /\ x.run[p].at = "sent"
  <2>1. p \in Owners /\ Called(s, p) /\ s.pending # p
    BY <1>1, <1>2, <1>7 DEF Called
  <2>2. CASE p = "flush"
    <3>1. CallEnds(s, y, p)
      BY <1>2, <1>3, <1>7, <2>2, FlushEndsEnds
    <3>2. Fit(y) /\ Shown(y) /\ Ready(y)
      BY <1>2, <2>1, <3>1, CallEndsFit, CallEndsRest
    <3> QED BY <1>1, <1>2, <1>4, <3>1, <3>2 DEF CallEnds, Quits
  <2>3. CASE p # "flush"
    <3>1. Whole(y) /\ Quits(s, y, p)
      BY <1>2, <1>3, <1>7, <2>1, <2>3, TurnFailedWhole DEF Failures
    <3> QED BY <1>1, <1>2, <1>4, <3>1 DEF Quits, Whole
  <2> QED BY <2>2, <2>3
<1> QED BY <1>5, <1>6, <1>7 DEF y

\* The end of the pre-send window: the turn becomes the pending one.
LEMMA PresendEndsWhole ==
  ASSUME Sound, Whole(m), NEW o \in Owners, PresendEnds(o)
  PROVE  Whole(m')
<1> DEFINE x == Supersede(m)
           v == [x EXCEPT !.pending = o, !.run[o].at = "sending"]
<1>1. m \in Managed /\ m.run[o].at = "presend" /\ Fit(m) /\ Ready(m) /\ Shown(m)
      /\ Backed(m)
  BY DEF Sound, PresendEnds, Whole
<1>2. m.pending # o /\ Called(m, o)
  BY <1>1, PendingCalled DEF Called
<1>3. CASE m.run[o].end # "open"
  <2>1. m' = TurnSwapped(m, o, FALSE) /\ Idles(m, o)
    BY <1>1, <1>3 DEF PresendEnds, Becomes, Idles
  <2> QED BY <1>1, <1>2, <2>1, TurnSwappedEnds, CallEndsWhole
<1>4. CASE m.run[o].end = "open"
  <2>1. /\ x \in Managed /\ Fit(x) /\ Shown(x) /\ Ready(x)
        /\ x.pending = "none" /\ x.slot = m.slot /\ x.run[o] = m.run[o]
    BY <1>1, <1>4, SupersedeFit
  <2>2. m' = IF m.slot = "none" THEN TurnFailed(x, o, "error") ELSE v
    BY <1>4 DEF PresendEnds, Becomes
  <2> HIDE DEF x
  <2>3. CASE m.slot = "none"
    <3>1. Called(x, o) /\ x.pending # o
      BY <1>1, <2>1 DEF Called
    <3> QED BY <2>1, <2>2, <2>3, <3>1, TurnFailedWhole DEF Failures
  <2>4. CASE m.slot # "none"
    <3>1. x.slot = "live"
      BY <1>1, <1>4, <2>1, <2>4 DEF Fit, SwapFits, Managed
    <3>2. /\ v.pending = o /\ v.slot = x.slot /\ v.phase = x.phase
          /\ v.alive = x.alive /\ v.edit = x.edit /\ v.flush = x.flush
          /\ v.gap = x.gap /\ v.state = x.state
      BY <2>1 DEF Managed
    <3>3. /\ \A p \in Owners : p # o => v.run[p] = x.run[p]
          /\ v.run[o].at = "sending" /\ v.run[o].end = "open"
      BY <1>4, <2>1 DEF Managed, TurnRun
    <3>a. Open(x, o)
      BY <1>1, <1>4, <2>1
    <3> HIDE DEF v
    <3>4. PendingFits(v) /\ SwapFits(v)
      BY <3>1, <3>2, <3>3 DEF PendingFits, SwapFits
    <3>5. CallersFit(v)
      BY <2>1, <3>2, <3>3, <3>a DEF Fit, CallersFit
    <3>6. TurnsFit(v)
      BY <2>1, <3>2, <3>3, <3>a DEF Fit, TurnsFit
    <3>7. Shown(v)
      BY <2>1, <3>2, <3>a DEF Fit, TurnsFit, Shown, IsQueueIdle
    <3>8. Ready(v) /\ Backed(v)
      BY <2>1, <3>2 DEF Ready, Backed
    <3> QED BY <2>2, <2>4, <3>4, <3>5, <3>6, <3>7, <3>8 DEF Whole, Fit
  <2> QED BY <2>3, <2>4
<1> QED BY <1>3, <1>4

\* The backend's answer to send() keeps the invariant.
LEMMA SendAcceptedWhole ==
  ASSUME Sound, Whole(m), NEW o \in Owners, SendAccepted(o)
  PROVE  Whole(m')
<1> DEFINE r == m.run[o]
           x == [m EXCEPT !.run[o].at = "sent", !.run[o].items = {},
                          !.queue = IF o = "flush" THEN @ \ r.items ELSE @]
<1>1. m \in Managed /\ r \in TurnRun /\ r.at = "sending" /\ r.end \in SentEnds
      /\ Fit(m) /\ Ready(m) /\ Shown(m) /\ Backed(m)
  BY DEF Sound, Apart, Managed, SendAccepted, EndFits, Whole
<1>2. /\ x.alive = m.alive /\ x.slot = m.slot /\ x.phase = m.phase
      /\ x.pending = m.pending /\ x.clock = m.clock /\ x.swap = m.swap
      /\ x.edit = m.edit /\ x.flow = m.flow /\ x.abort = m.abort
      /\ x.state = m.state /\ x.gap = m.gap /\ x.flush = m.flush
  BY <1>1 DEF Managed
<1>3. /\ x.run[o].at = "sent" /\ x.run[o].end = r.end
      /\ \A p \in Owners : p # o => x.run[p] = m.run[p]
  BY <1>1 DEF Managed, TurnRun
<1>4. x \in Managed
  <2> DEFINE q == IF o = "flush" THEN m.queue \ r.items ELSE m.queue
             run == [m.run EXCEPT ![o].at = "sent", ![o].items = {}]
             w == [m EXCEPT !.queue = q]
  <2>1. run \in [Owners -> TurnRun]
    BY <1>1 DEF Managed, TurnRun
  <2>2. w \in Managed
    BY <1>1 DEF Managed
  <2>3. x = [w EXCEPT !.run = run]
    BY <1>1 DEF Managed
  <2> HIDE DEF run, w, x
  <2> QED BY <2>1, <2>2, <2>3 DEF Managed
<1>5. /\ r.end = "open" => m' = x
      /\ r.end = "cut" => m' = TurnSwapped(x, o, FALSE)
      /\ r.end = "done" => m' = TurnDone(x, o)
      /\ r.end = "fail" => m' = TurnFailed(x, o, "error")
  BY <1>1 DEF SendAccepted, SentEnds
<1> HIDE DEF x
<1>6. m.pending \in Owners \cup {"none"}
  BY <1>1 DEF Managed
<1>7. Fit(x)
  <2>1. PendingFits(x)
    BY <1>1, <1>2, <1>3, <1>6 DEF Fit, PendingFits
  <2>2. CallersFit(x)
    BY <1>1, <1>2, <1>3 DEF Fit, CallersFit
  <2>3. SwapFits(x)
    BY <1>1, <1>2, <1>3 DEF Fit, SwapFits
  <2>4. TurnsFit(x)
    BY <1>1, <1>2, <1>3 DEF Fit, TurnsFit
  <2> QED BY <2>1, <2>2, <2>3, <2>4 DEF Fit
<1>8. Ready(x) /\ Shown(x) /\ (r.end # "fail" => Backed(x))
  BY <1>1, <1>2, <1>3 DEF Ready, Shown, Backed
<1>9. Called(x, o) /\ Idles(x, o)
  BY <1>3 DEF Called, Idles
<1>10. r.end # "open" => x.pending # o
  BY <1>1, <1>2 DEF Fit, PendingFits
<1>11. CASE r.end = "open"
  BY <1>5, <1>7, <1>8, <1>11 DEF Whole
<1>12. CASE r.end \in {"cut", "done"}
  BY <1>4, <1>5, <1>7, <1>8, <1>9, <1>10, <1>12, TurnSwappedEnds, TurnDoneEnds,
     CallEndsWhole
<1>13. CASE r.end = "fail"
  BY <1>4, <1>5, <1>7, <1>8, <1>9, <1>10, <1>13, TurnFailedWhole DEF Failures
<1> QED BY <1>1, <1>11, <1>12, <1>13 DEF SentEnds

\* The steps of a call keep the invariant.
LEMMA CallStepsWhole ==
  ASSUME Sound, Whole(m), NEW o \in Owners, NEW kind \in {"config", "error"},
         SendCut(o) \/ SendFails(o, kind)
  PROVE  Whole(m')
<1>1. m \in Managed /\ m.run[o].at = "sending" /\ Fit(m) /\ Ready(m) /\ Shown(m)
      /\ Backed(m)
  BY DEF Sound, SendCut, SendFails, Whole
<1>2. CASE SendCut(o)
  <2>1. /\ m.run[o].end = "cut"
        /\ m' = TurnSwapped(m, o, m.abort = "none" /\ ~m.stamped)
    BY <1>2 DEF SendCut, Becomes
  <2>2. m.pending # o /\ Called(m, o) /\ Idles(m, o)
    BY <1>1, <2>1 DEF Fit, PendingFits, Called, Idles
  <2> QED BY <1>1, <2>1, <2>2, TurnSwappedEnds, CallEndsWhole
<1>3. CASE SendFails(o, kind)
  <2> DEFINE x == IF m.pending = o THEN Settled(m) ELSE m
  <2>1. x \in Managed /\ Fit(x) /\ Shown(x) /\ Ready(x) /\ x.pending # o /\ x.run = m.run
    BY <1>1, SettledFrame, SettledFit
  <2>2. m' = TurnFailed(x, o, kind)
    BY <1>3 DEF SendFails, Becomes
  <2> HIDE DEF x
  <2>3. Called(x, o)
    BY <1>1, <2>1 DEF Called
  <2> QED BY <2>1, <2>2, <2>3, TurnFailedWhole DEF Failures
<1> QED BY <1>2, <1>3

\* The caller of a turn that ended goes on, or will once its send is through.
LEMMA CallerToldWhole ==
  ASSUME NEW y \in Managed, NEW o \in Owners, NEW kind \in Failures, Fit(y), Ready(y),
         y.pending = "none", y.run[o].at \in {"sending", "sent"}
  PROVE  /\ y.state # "busy" \/ ~y.alive => Whole(Resolves(y, o))
         /\ Whole(Rejects(y, o, kind))
<1>1. Shown(y) /\ y.pending # o /\ Called(y, o)
  BY DEF Shown, Called
<1>2. CASE y.run[o].at = "sent"
  <2>1. Resolves(y, o) = TurnDone(y, o) /\ Rejects(y, o, kind) = TurnFailed(y, o, kind)
    BY <1>2 DEF Resolves, Rejects
  <2> QED BY <1>1, <2>1, TurnDoneEnds, CallEndsWhole, TurnFailedWhole
<1>3. CASE y.run[o].at = "sending"
  <2>1. /\ Resolves(y, o) = [y EXCEPT !.run[o].end = "done"]
        /\ Rejects(y, o, kind) = [y EXCEPT !.run[o].end = "fail"]
    BY <1>3 DEF Resolves, Rejects
  <2>2. y.state # "busy" \/ ~y.alive => Whole([y EXCEPT !.run[o].end = "done"])
    BY <1>1, <1>3, RunEndFit DEF Whole
  <2>3. Whole([y EXCEPT !.run[o].end = "fail"])
    BY <1>1, <1>3, RunEndFit DEF Whole
  <2> QED BY <2>1, <2>2, <2>3
<1> QED BY <1>2, <1>3

\* The end of the pending turn, by whatever cause, keeps the invariant.
LEMMA TurnEndsWhole ==
  ASSUME Sound, Whole(m), NEW kind \in {"completed", "failed", "capacity"},
         TurnEnds(kind)
  PROVE  Whole(m')
<1> DEFINE o == m.pending
           st == IF kind = "failed" THEN "error" ELSE "waiting"
           x == UpdateState(m, st)
           c == [x EXCEPT !.clock = FALSE]
           y == Settled(c)
<1>1. m \in Managed /\ o # "none" /\ Fit(m) /\ Ready(m)
  BY DEF Sound, TurnEnds, Whole
<1>2. o \in Owners /\ m.run[o].at \in {"sending", "sent"}
  BY <1>1, PendingCalled
<1>3. x \in Managed /\ Sets(m, x, st)
  BY <1>1, UpdateStateSets, UpdateStateSheds, ShedsTyped DEF States
<1>4. m' = IF kind = "capacity" THEN Rejects(y, o, "capacity") ELSE Resolves(y, o)
  BY DEF TurnEnds, Becomes
<1>5. ~Single(m) \/ \A p \in Owners : ~Open(m, p)
  BY <1>1, <1>2 DEF Fit, TurnsFit
<1> HIDE DEF x
<1>6. Fit(x) /\ Ready(x)
  BY <1>1, <1>3, <1>5, SetsFit, SetsRest
<1>7. (x.state # "busy" \/ ~x.alive) /\ x.run = m.run
  BY <1>3 DEF Sets, CallsKept
<1>8. c \in Managed
  BY <1>3, CloseSheds, ShedsTyped
<1>9. /\ c.alive = x.alive /\ c.slot = x.slot /\ c.phase = x.phase
      /\ c.pending = x.pending /\ ~c.clock /\ c.swap = x.swap
      /\ c.edit = x.edit /\ c.run = x.run
      /\ c.state = x.state /\ c.gap = x.gap /\ c.flush = x.flush
  BY <1>3 DEF Managed
<1> HIDE DEF c
<1>10. Fit(c) /\ Ready(c)
  BY <1>6, <1>9 DEF Fit, PendingFits, SwapFits, CallersFit, TurnsFit, Ready
<1>11. /\ y \in Managed /\ y.pending = "none" /\ Fit(y) /\ Ready(y)
       /\ y.run = c.run /\ y.state = c.state /\ y.alive = c.alive
  BY <1>8, <1>10, SettledFrame, SettledFit
<1> HIDE DEF y, o
<1>12. y.run[o].at \in {"sending", "sent"} /\ (y.state # "busy" \/ ~y.alive)
  BY <1>2, <1>7, <1>9, <1>11
<1> QED BY <1>2, <1>4, <1>11, <1>12, CallerToldWhole DEF Failures

\* Activity of a turn shows the agent as busy, and keeps the invariant.
LEMMA TurnActivityWhole ==
  ASSUME Sound, Whole(m), TurnActivity
  PROVE  Whole(m')
<1> DEFINE x == UpdateState(m, "busy")
<1>1. m \in Managed /\ m.pending # "none" /\ m' = x /\ m.flush.at # "ready"
  BY DEF Sound, TurnActivity, Becomes, Task, Quiet, Microtasks, Parked
<1>2. Sets(m, x, "busy")
  BY <1>1, UpdateStateSets DEF States
<1> HIDE DEF x
<1> QED BY <1>1, <1>2, SetsFit, SetsRest DEF Whole, IsQueueIdle

\* The end of the session's stream keeps the invariant.
LEMMA StreamEndsWhole ==
  ASSUME Sound, Whole(m), StreamEnds
  PROVE  Whole(m')
<1> DEFINE o == m.pending
           b == BumpToken(m, "gone")
           x == [b EXCEPT !.clock = FALSE, !.slot = "none", !.stamped = FALSE]
           s == Settled(x)
<1>1. m \in Managed /\ m.alive /\ Fit(m) /\ Ready(m)
  BY DEF Sound, StreamEnds, Disturb, Whole
<1>2. /\ o \in Owners \cup {"none"}
      /\ o # "none" => m.run[o].at \in {"sending", "sent"}
  BY <1>1, PendingCalled
<1>3. Bumped(m, b)
  BY <1>1, BumpTokenBumped
<1>4. m' = IF o # "none" THEN Rejects(s, o, "error")
           ELSE IF x.state = "busy" THEN UpdateState(x, "waiting") ELSE x
  BY DEF StreamEnds, Becomes
<1> HIDE DEF b, o
<1>5. b \in Managed
  BY <1>3 DEF Bumped
<1>6. x \in Managed
  <2> DEFINE c == [b EXCEPT !.clock = FALSE]
             d == [c EXCEPT !.slot = "none"]
  <2>1. c \in Managed
    BY <1>5, CloseSheds, ShedsTyped
  <2>2. x = [d EXCEPT !.stamped = FALSE]
    BY <1>5 DEF Managed
  <2> HIDE DEF c, x
  <2>3. d \in Managed
    BY <2>1, CloseSheds, ShedsTyped
  <2> HIDE DEF d
  <2> QED BY <2>2, <2>3, CloseSheds, ShedsTyped
<1>7. /\ ~x.clock /\ x.slot = "none" /\ x.alive = b.alive /\ x.phase = b.phase
      /\ x.pending = b.pending /\ x.edit = b.edit /\ x.state = b.state
      /\ x.gap = b.gap /\ x.flush = b.flush /\ x.run = b.run
  BY <1>5 DEF Managed
<1> HIDE DEF x
<1>8. CASE o = "none"
  <2>1. Torn(m, x)
    BY <1>3, <1>7, <1>8 DEF Torn, Bumped, FlushKept, o
  <2>2. Fit(x) /\ Shown(x) /\ Ready(x) /\ (x.state # "busy" => Backed(x))
    BY <1>1, <1>3, <1>7, <2>1, TornFit DEF Ready, Bumped, FlushKept, Backed
  <2>3. CASE x.state = "busy"
    <3> DEFINE u == UpdateState(x, "waiting")
    <3>1. Sets(x, u, "waiting")
      BY <1>6, UpdateStateSets DEF States
    <3> HIDE DEF u
    <3>2. \A p \in Owners : ~Open(x, p)
      BY <2>1 DEF Torn
    <3>3. x.pending = "none" /\ x.alive
      BY <1>1, <1>3, <1>7, <2>1 DEF Torn, Bumped
    <3>4. Whole(u)
      BY <2>2, <3>1, <3>2, <3>3, SetsFit, SetsRest DEF Whole
    <3> QED BY <1>4, <1>8, <2>3, <3>4 DEF u
  <2>4. CASE x.state # "busy"
    BY <1>4, <1>8, <2>2, <2>4 DEF Whole
  <2> QED BY <2>3, <2>4
<1>9. CASE o # "none"
  <2>1. /\ s \in Managed /\ s.pending = "none" /\ FlushKept(x, s)
        /\ s.flush.cut = x.flush.cut
        /\ s.alive = x.alive /\ s.slot = x.slot /\ s.phase = x.phase
        /\ s.run = x.run /\ s.clock = x.clock
        /\ s.edit = x.edit /\ s.state = x.state /\ s.gap = x.gap
    BY <1>6, SettledFrame
  <2> HIDE DEF s
  <2>2. Torn(m, s)
    BY <1>3, <1>7, <2>1 DEF Torn, Bumped, FlushKept
  <2>3. Fit(s) /\ Ready(s)
    BY <1>1, <1>3, <1>7, <2>1, <2>2, TornFit DEF Ready, Bumped, FlushKept
  <2>4. s.run[o].at \in {"sending", "sent"}
    BY <1>2, <1>9, <2>2 DEF Torn
  <2> QED BY <1>2, <1>4, <1>9, <2>1, <2>3, <2>4, CallerToldWhole DEF Failures
<1> QED BY <1>8, <1>9

\* A piece that leaves the turn and the state alone.
LEMMA KeptFit ==
  ASSUME NEW x, NEW y, CallsKept(x, y), FlushKept(x, y), y.state = x.state
  PROVE  /\ Fit(x) => Fit(y)
         /\ Ready(x) => Ready(y)
         /\ Backed(x) /\ ("busy" \in x.gap => "busy" \in y.gap) => Backed(y)
         /\ x.state # "busy" => Backed(y)
         /\ x.pending = "none" \/ ~x.alive => Shown(y)
         /\ Shown(x) /\ (x.flow = "permission" => y.flow = "permission")
            /\ (x.abort # "none" => y.abort # "none") => Shown(y)
<1> USE DEF CallsKept, FlushKept
<1>1. Fit(x) => PendingFits(y) /\ CallersFit(y)
  BY DEF Fit, PendingFits, CallersFit
<1>2. Fit(x) => SwapFits(y)
  BY DEF Fit, SwapFits
<1>3. Fit(x) => TurnsFit(y)
  BY DEF Fit, TurnsFit
<1>4. /\ Ready(x) => Ready(y)
      /\ Backed(x) /\ ("busy" \in x.gap => "busy" \in y.gap) => Backed(y)
      /\ x.state # "busy" => Backed(y)
  BY DEF Ready, Backed
<1>5. /\ x.pending = "none" \/ ~x.alive => Shown(y)
      /\ Shown(x) /\ (x.flow = "permission" => y.flow = "permission")
         /\ (x.abort # "none" => y.abort # "none") => Shown(y)
  BY DEF Shown
<1> QED BY <1>1, <1>2, <1>3, <1>4, <1>5 DEF Fit

\* The prompt, the Stop and the history are no part of the turn.
LEMMA SetFlowKept ==
  ASSUME NEW x \in Managed, NEW f
  PROVE  LET y == [x EXCEPT !.flow = f]
         IN /\ CallsKept(x, y) /\ FlushKept(x, y) /\ y.state = x.state
            /\ y.flow = f /\ y.gap = x.gap /\ y.abort = x.abort
BY DEF CallsKept, FlushKept, Managed

\* The stage of a Stop is no part of the turn.
LEMMA SetAbortKept ==
  ASSUME NEW x \in Managed, NEW a
  PROVE  LET y == [x EXCEPT !.abort = a]
         IN /\ CallsKept(x, y) /\ FlushKept(x, y) /\ y.state = x.state
            /\ y.abort = a /\ y.gap = x.gap /\ y.flow = x.flow
BY DEF CallsKept, FlushKept, Managed

\* The end of a Stop leaves the turn alone.
LEMMA AbortDoneKept ==
  ASSUME NEW x \in Managed
  PROVE  LET y == AbortDone(x)
         IN /\ CallsKept(x, y) /\ FlushKept(x, y) /\ y.state = x.state
            /\ y.gap = x.gap /\ y.flow = x.flow
BY DEF AbortDone, CallsKept, FlushKept, Managed, FlushRun

\* A history of a missed request is no part of the turn.
LEMMA GapFlushSame ==
  ASSUME NEW x \in Managed
  PROVE  LET y == [x EXCEPT !.gap = @ \cup {"flush"}]
         IN y \in Managed /\ Same(x, y)
BY DEF Same, CallsKept, FlushKept, Managed

\* A Stop that is done, of an agent without a pending turn.
LEMMA AbortDoneWhole ==
  ASSUME NEW x \in Managed, Whole(x), x.pending = "none" \/ ~x.alive \/ ~Single(x)
  PROVE  Whole(AbortDone(x))
<1> DEFINE y == AbortDone(x)
<1>1. /\ CallsKept(x, y) /\ FlushKept(x, y) /\ y.state = x.state
      /\ y.gap = x.gap /\ y.flow = x.flow
  BY AbortDoneKept
<1> HIDE DEF y
<1>2. Fit(y) /\ Ready(y) /\ Backed(y)
  BY <1>1, KeptFit DEF Whole
<1>3. Shown(y)
  BY <1>1 DEF Shown, CallsKept
<1> QED BY <1>2, <1>3 DEF Whole, y

\* The handoff's phase may change while no brief runs.
LEMMA SetPhaseWhole ==
  ASSUME NEW x \in Managed, NEW ph, x.phase # "brief" \/ x.pending = "none",
         x.phase # "brief" \/ ~Open(x, "brief"), Fit(x)
  PROVE  LET y == [x EXCEPT !.phase = ph]
         IN /\ Fit(y) /\ (Whole(x) => Whole(y)) /\ (Ready(x) => Ready(y))
            /\ y.alive = x.alive /\ y.slot = x.slot /\ y.pending = x.pending
            /\ y.run = x.run /\ y.clock = x.clock /\ y.swap = x.swap
            /\ y.edit = x.edit /\ y.flush = x.flush /\ y.gap = x.gap
            /\ y.state = x.state
<1> DEFINE y == [x EXCEPT !.phase = ph]
<1>1. /\ y.alive = x.alive /\ y.slot = x.slot /\ y.pending = x.pending
      /\ y.run = x.run /\ y.clock = x.clock /\ y.swap = x.swap
      /\ y.edit = x.edit /\ y.flow = x.flow /\ y.abort = x.abort
      /\ y.state = x.state /\ y.gap = x.gap /\ y.flush = x.flush
  BY DEF Managed
<1> HIDE DEF y
<1>2. PendingFits(y) /\ SwapFits(y) /\ TurnsFit(y)
  BY <1>1 DEF Fit, PendingFits, SwapFits, TurnsFit
<1>3. CallersFit(y)
  BY <1>1 DEF Fit, CallersFit
<1>4. (Ready(x) => Ready(y)) /\ (Whole(x) => Ready(y) /\ Shown(y) /\ Backed(y))
  BY <1>1 DEF Whole, Ready, Shown, Backed
<1> QED BY <1>1, <1>2, <1>3, <1>4 DEF Fit, Whole, y

\* The edit's stage may change while the edit has no call and does not swap.
LEMMA SetEditFit ==
  ASSUME NEW x \in Managed, NEW e, Fit(x), x.slot # "swap",
         x.alive => x.run["edit"].at = "none" \/ e = "turn"
  PROVE  LET y == [x EXCEPT !.edit = e]
         IN /\ Fit(y) /\ (Ready(x) => Ready(y)) /\ (Shown(x) => Shown(y))
            /\ y.alive = x.alive /\ y.slot = x.slot /\ y.pending = x.pending
            /\ y.run = x.run /\ y.phase = x.phase /\ y.flush = x.flush
            /\ y.state = x.state /\ y.edit = e
<1> DEFINE y == [x EXCEPT !.edit = e]
<1>1. /\ y.alive = x.alive /\ y.slot = x.slot /\ y.pending = x.pending
      /\ y.run = x.run /\ y.clock = x.clock /\ y.swap = x.swap
      /\ y.phase = x.phase /\ y.flow = x.flow /\ y.abort = x.abort
      /\ y.state = x.state /\ y.gap = x.gap /\ y.flush = x.flush /\ y.edit = e
  BY DEF Managed
<1> HIDE DEF y
<1>2. PendingFits(y) /\ SwapFits(y) /\ TurnsFit(y)
  BY <1>1 DEF Fit, PendingFits, SwapFits, TurnsFit
<1>3. CallersFit(y)
  BY <1>1 DEF Fit, CallersFit
<1>4. (Ready(x) => Ready(y)) /\ (Shown(x) => Shown(y))
  BY <1>1 DEF Ready, Shown
<1> QED BY <1>1, <1>2, <1>3, <1>4 DEF Fit, y

\* Swaps that take the slot.
LEMMA SwapsBeginWhole ==
  ASSUME Sound, Whole(m),
         \/ SettingsSwap \/ ResumeSwaps \/ EditForks \/ EditRollsBack \/ AbortReplaces
  PROVE  Whole(m')
<1>1. m \in Managed /\ Fit(m) /\ Ready(m)
  BY DEF Sound, Whole
<1>2. CASE SettingsSwap
  BY <1>1, <1>2, SwapStartsFit DEF SettingsSwap, Becomes, Whole
<1>3. CASE EditRollsBack
  BY <1>1, <1>3, SwapStartsFit DEF EditRollsBack, Becomes, Whole
<1>4. CASE ResumeSwaps
  <2> DEFINE h == m.holds \ {"backend"}
             x == [m EXCEPT !.resume = "swap"]
             z == [m EXCEPT !.resume = "swap", !.holds = @ \ {"backend"}]
  <2>1. m' = SwapStarts(z, "resume")
    BY <1>4 DEF ResumeSwaps, Becomes
  <2>2. z = [x EXCEPT !.holds = h] /\ h \in SUBSET {"backend", "edit", "resume"}
    BY <1>1 DEF Managed
  <2> HIDE DEF h, z
  <2>3. Same(m, x) /\ x \in Managed
    BY <1>1, SetResumeSame, SetResumeSheds, ShedsTyped
  <2> HIDE DEF x
  <2>4. Same(m, z) /\ z \in Managed
    BY <2>2, <2>3, SetHoldsSame, SetHoldsSheds, SameTrans, ShedsTyped
  <2>5. Fit(z) /\ Ready(z)
    BY <1>1, <2>4, SameFit
  <2> QED BY <2>1, <2>4, <2>5, SwapStartsFit DEF Whole
<1>5. CASE EditForks
  <2> DEFINE x == [m EXCEPT !.edit = "fork"]
  <2>1. x \in Managed
    BY <1>1, SetEditSheds, ShedsTyped
  <2>2. m' = SwapStarts(x, "fork") /\ m.edit = "read" /\ m.slot # "swap"
    BY <1>5 DEF EditForks, Becomes, SlotFree
  <2>3. m.alive => m.run["edit"].at = "none"
    BY <1>1, <2>2 DEF Fit, CallersFit
  <2>4. Fit(x) /\ Ready(x) /\ x.edit = "fork"
    BY <1>1, <2>2, <2>3, SetEditFit
  <2> HIDE DEF x
  <2> QED BY <2>1, <2>2, <2>4, SwapStartsFit DEF Whole
<1>6. CASE AbortReplaces
  <2> DEFINE x == [m EXCEPT !.abort = "swap"]
  <2>1. x \in Managed
    BY <1>1, SetAbortSheds, ShedsTyped
  <2>2. m' = SwapStarts(x, "stop")
    BY <1>6 DEF AbortReplaces, Becomes
  <2>3. CallsKept(m, x) /\ FlushKept(m, x) /\ x.state = m.state
    BY <1>1, SetAbortKept
  <2> HIDE DEF x
  <2>4. Fit(x) /\ Ready(x)
    BY <1>1, <2>3, KeptFit
  <2> QED BY <2>1, <2>2, <2>4, SwapStartsFit DEF Whole
<1> QED BY <1>2, <1>3, <1>4, <1>5, <1>6

\* After a swap the agent has no turn, and the edit that swapped has no call.
Rested(x) ==
  /\ x \in Managed /\ Fit(x) /\ x.pending = "none" /\ x.slot # "swap"
  /\ \A o \in Owners : ~Open(x, o)
  /\ x.flush.at # "ready"

\* An agent at rest is whole when its busy state has a reason.
LEMMA RestedWhole ==
  ASSUME NEW x, Rested(x), Backed(x)
  PROVE  Whole(x)
BY DEF Rested, Whole, Ready, Shown

\* A piece that concerns the queue alone leaves the agent at rest.
LEMMA RestedSame ==
  ASSUME NEW x, NEW y \in Managed, Rested(x), Same(x, y)
  PROVE  Rested(y)
<1>1. Fit(y)
  BY SameFit DEF Rested
<1> QED BY <1>1 DEF Rested, Same, CallsKept, FlushKept

\* Setting the state leaves the agent at rest.
LEMMA RestedSets ==
  ASSUME NEW x, NEW y \in Managed, NEW s, Rested(x), Sets(x, y, s)
  PROVE  Rested(y) /\ (s # "busy" => Backed(y))
<1>1. Fit(y)
  BY SetsFit DEF Rested
<1>2. s # "busy" => Backed(y)
  BY SetsRest
<1> QED BY <1>1, <1>2 DEF Rested, Sets, CallsKept, FlushKept

\* The swap's caller goes on.
LEMMA SwapCallerWhole ==
  ASSUME NEW x, Rested(x), Backed(x),
         NEW kind \in {"settings", "stop", "fork", "back", "resume"},
         x.alive /\ kind = "back" => x.run["edit"].at = "none"
  PROVE  Whole(SwapCaller(x, kind))
<1>0. x \in Managed
  BY DEF Rested
<1>1. CASE kind = "settings"
  BY <1>1, RestedWhole DEF SwapCaller
<1>2. CASE kind = "stop"
  <2> DEFINE u == UpdateState(x, "waiting")
             w == IF x.state = "error" THEN u ELSE x
  <2>1. u \in Managed /\ Sets(x, u, "waiting")
    BY <1>0, UpdateStateSets, UpdateStateSheds, ShedsTyped DEF States
  <2>2. SwapCaller(x, kind) = AbortDone(w)
    BY <1>2 DEF SwapCaller
  <2> HIDE DEF u
  <2>3. Rested(w) /\ Backed(w)
    BY <2>1, RestedSets
  <2> HIDE DEF w
  <2>4. w \in Managed /\ Whole(w) /\ w.pending = "none"
    BY <2>3, RestedWhole DEF Rested
  <2> QED BY <2>2, <2>4, AbortDoneWhole
<1>3. CASE kind = "resume"
  <2> DEFINE y == [x EXCEPT !.resume = "none"]
  <2>1. SwapCaller(x, kind) \in {ReleaseHold(y, "resume"), y}
    BY <1>3 DEF SwapCaller
  <2>2. y \in Managed /\ Same(x, y)
    BY <1>0, SetResumeSame, SetResumeSheds, ShedsTyped
  <2> HIDE DEF y
  <2>3. Whole(y) /\ Same(y, ReleaseHold(y, "resume"))
    BY <2>2, RestedWhole, SameWhole, ReleaseHoldSame
  <2> QED BY <2>1, <2>3, SameWhole
<1>4. CASE kind = "fork"
  <2> DEFINE e == [x EXCEPT !.edit = "turn"]
             y == StartsTurn(e, "edit", x.run["edit"].items)
  <2>1. SwapCaller(x, kind) = ReleaseHold(y, "edit")
    BY <1>4 DEF SwapCaller
  <2>2. e \in Managed
    BY <1>0, SetEditSheds, ShedsTyped
  <2>3. /\ Fit(e) /\ e.slot = x.slot /\ e.pending = x.pending
        /\ e.flush = x.flush /\ e.edit = "turn"
    BY <1>0, SetEditFit DEF Rested
  <2>4. x.run["edit"].items \in SUBSET Items
    BY <1>0 DEF Managed, TurnRun
  <2> HIDE DEF e
  <2>5. Starts(e, y, "edit")
    BY <2>2, <2>3, <2>4, StartsTurnStarts DEF Rested
  <2> HIDE DEF y
  <2>6. y \in Managed /\ Whole(y)
    BY <2>3, <2>5 DEF Starts, Whole, Ready, Rested
  <2> QED BY <2>1, <2>6, ReleaseHoldSame, SameWhole
<1>5. CASE kind = "back"
  <2> DEFINE y == [x EXCEPT !.edit = "none"]
             z == IF x.edit = "unset" THEN HoldForBackend(y) ELSE UpdateState(y, "error")
  <2>1. SwapCaller(x, kind) = ReleaseHold(z, "edit")
    BY <1>5 DEF SwapCaller
  <2>2. y \in Managed
    BY <1>0, SetEditSheds, ShedsTyped
  <2>3. /\ Fit(y) /\ y.slot = x.slot /\ y.pending = x.pending /\ y.run = x.run
        /\ y.flush = x.flush
    BY <1>0, <1>5, SetEditFit DEF Rested
  <2> HIDE DEF y
  <2>4. Rested(y)
    BY <2>2, <2>3 DEF Rested
  <2>5. z \in Managed /\ (Sets(y, z, "waiting") \/ Sets(y, z, "error"))
    BY <2>2, HoldForBackendSets, HoldForBackendSheds, UpdateStateSets,
       UpdateStateSheds, ShedsTyped DEF States
  <2> HIDE DEF z
  <2>6. Whole(z)
    BY <2>4, <2>5, RestedSets, RestedWhole
  <2> QED BY <2>1, <2>5, <2>6, ReleaseHoldSame, SameWhole
<1> QED BY <1>1, <1>2, <1>3, <1>4, <1>5

\* The end of a swap, with what its caller does next, keeps the invariant.
LEMMA SwapEndsWhole ==
  ASSUME Sound, Whole(m), NEW built \in BOOLEAN, SwapEnds(built)
  PROVE  Whole(m')
<1> DEFINE sl == IF built THEN "live" ELSE "none"
           a == [m EXCEPT !.slot = sl, !.swap = "none"]
           p == [a EXCEPT !.phase = "none"]
           b == CASE m.swap = "resume" /\ "resume" \in m.holds ->
                       UpdateState([a EXCEPT !.phase = "none"], "waiting")
                  [] m.swap = "resume" /\ "resume" \notin m.holds ->
                       UpdateState(a, "waiting")
                  [] m.swap = "fork" -> [a EXCEPT !.phase = "none"]
                  [] OTHER -> a
           g == [b EXCEPT !.gap = IF built THEN @ ELSE @ \cup {"busy"}]
           dead == built /\ b.pending = "none" /\ b.state = "busy" /\ ~b.clock
           c == IF dead THEN UpdateState(b, "waiting") ELSE g
           Base(x) == /\ Rested(x) /\ x.alive = m.alive /\ x.clock = m.clock
                      /\ x.run = m.run
<1>1. /\ m \in Managed /\ m.slot = "swap" /\ Fit(m) /\ m.flush.at # "ready"
      /\ m.swap \in {"settings", "stop", "fork", "back", "resume"}
  BY DEF Sound, SwapEnds, Apart, Managed, Whole, Task, Disturb, Quiet, Microtasks,
         Parked
<1>2. m' = SwapCaller(RequestFlush(c), m.swap)
  BY DEF SwapEnds, Becomes
<1>3. /\ m.pending = "none" /\ (\A o \in Owners : ~Open(m, o))
      /\ m.clock => m.run["member"].at = "wait"
      /\ m.alive /\ m.swap = "back" => m.edit \in {"back", "unset"}
  BY <1>1 DEF Fit, PendingFits, SwapFits
<1>4. m.alive /\ m.swap = "back" => m.run["edit"].at = "none"
  BY <1>1, <1>3 DEF Fit, CallersFit
<1>5. a \in Managed
  BY <1>1, SetSlotSheds, ShedsTyped
<1>6. /\ a.alive = m.alive /\ a.slot = sl /\ a.pending = m.pending
      /\ a.run = m.run /\ a.clock = m.clock /\ a.phase = m.phase
      /\ a.edit = m.edit /\ a.state = m.state /\ a.gap = m.gap
      /\ a.flush = m.flush
  BY <1>1 DEF Managed
<1>7. b \in {UpdateState(p, "waiting"), UpdateState(a, "waiting"), p, a}
  OBVIOUS
<1> HIDE DEF a, b
<1>8. Base(a)
  <2>1. Fit(a)
    BY <1>1, <1>3, <1>6 DEF Fit, PendingFits, SwapFits, CallersFit, TurnsFit
  <2> QED BY <1>1, <1>3, <1>5, <1>6, <2>1 DEF Rested
<1>9. Base(p)
  <2>1. p \in Managed
    BY <1>5, SetPhaseSheds, ShedsTyped
  <2>2. /\ Fit(p) /\ p.alive = a.alive /\ p.slot = a.slot /\ p.pending = a.pending
        /\ p.run = a.run /\ p.clock = a.clock /\ p.flush = a.flush
    BY <1>5, <1>8, SetPhaseWhole DEF Rested
  <2> HIDE DEF p
  <2> QED BY <1>8, <2>1, <2>2 DEF Rested
<1> HIDE DEF p
<1>10. ASSUME NEW x, Base(x)
       PROVE  LET u == UpdateState(x, "waiting") IN Base(u) /\ Backed(u)
  <2> DEFINE u == UpdateState(x, "waiting")
  <2>1. x \in Managed
    BY <1>10 DEF Rested
  <2>2. u \in Managed /\ Sets(x, u, "waiting")
    BY <2>1, UpdateStateSets, UpdateStateSheds, ShedsTyped DEF States
  <2> HIDE DEF u
  <2>3. Rested(u) /\ Backed(u)
    BY <1>10, <2>2, RestedSets
  <2>4. Base(u)
    BY <1>10, <2>2, <2>3 DEF Sets, CallsKept
  <2> QED BY <2>3, <2>4 DEF u
<1>11. Base(b)
  <2> HIDE DEF Base
  <2> QED BY <1>7, <1>8, <1>9, <1>10
<1>12. Base(c) /\ Backed(c)
  <2>1. CASE dead
    <3> HIDE DEF Base
    <3> QED BY <1>10, <1>11, <2>1
  <2>2. CASE ~dead
    <3>1. b \in Managed
      BY <1>11 DEF Rested
    <3>2. g \in Managed
      BY <3>1 DEF Managed
    <3>3. CallsKept(b, g) /\ FlushKept(b, g) /\ g.state = b.state
          /\ (~built => "busy" \in g.gap) /\ g.alive = b.alive /\ g.clock = b.clock
          /\ g.run = b.run /\ g.flush = b.flush
      BY <3>1 DEF CallsKept, FlushKept, Managed
    <3>4. c = g
      BY <2>2
    <3>5. b.state = "busy" /\ built => b.clock
      BY <1>11, <2>2 DEF Rested
    <3> HIDE DEF g, c, dead
    <3>6. Fit(g)
      BY <1>11, <3>3, KeptFit DEF Rested
    <3>7. Base(g)
      BY <1>11, <3>2, <3>3, <3>6 DEF Rested, CallsKept
    <3>8. Backed(g)
      BY <1>3, <1>11, <3>3, <3>5 DEF Backed
    <3> QED BY <3>4, <3>7, <3>8
  <2> QED BY <2>1, <2>2
<1> HIDE DEF c
<1> DEFINE d == RequestFlush(c)
<1>13. c \in Managed
  BY <1>12 DEF Rested
<1>14. d \in Managed /\ Same(c, d)
  BY <1>13, RequestFlushSame, RequestFlushSheds, ShedsTyped
<1> HIDE DEF d
<1>15. Rested(d) /\ Backed(d)
  BY <1>12, <1>14, RestedSame, SameFit
<1>16. d.alive /\ m.swap = "back" => d.run["edit"].at = "none"
  BY <1>4, <1>12, <1>14 DEF Same, CallsKept
<1> QED BY <1>1, <1>2, <1>15, <1>16, SwapCallerWhole DEF d

\* Stop, in each of its branches, keeps the invariant.
LEMMA StopWhole ==
  ASSUME Sound, Whole(m), Stop
  PROVE  Whole(m')
<1> DEFINE b == BumpToken(m, "stop")
           ph == IF b.phase = "asked" THEN "none" ELSE b.phase
           x == [b EXCEPT !.stamped = TRUE,
                          !.phase = IF @ = "asked" THEN "none" ELSE @]
           denied == [x EXCEPT !.flow = "none", !.gap = @ \cup {"flush"}]
           up == UpdateState(x, "waiting")
           fl == IF up.flow = "permission" THEN "none" ELSE up.flow
           ga == IF m.flow = "permission" THEN up.gap \cup {"flush"} ELSE up.gap
           end(ab) == [up EXCEPT !.flow = fl, !.gap = ga, !.abort = ab]
<1>1. m \in Managed /\ m.alive /\ Fit(m) /\ Ready(m) /\ Shown(m)
  BY DEF Sound, Stop, Disturb, Whole
<1>2. \/ m.pending = "none" /\ m' = UpdateState(denied, "waiting")
      \/ m.pending = "none" /\ m' = IF m.state = "busy" THEN up ELSE x
      \/ m.pending # "none" /\ m' = x
      \/ m.pending # "none" /\ m' \in {end("hot"), end("replace")}
  BY DEF Stop, Becomes
<1>3. Bumped(m, b)
  BY <1>1, BumpTokenBumped
<1> HIDE DEF b
<1>4. b \in Managed
  BY <1>3 DEF Bumped
<1>5. x \in Managed
  <2> DEFINE s == [b EXCEPT !.stamped = TRUE]
  <2>1. s \in Managed
    BY <1>4 DEF Managed
  <2>2. x = [s EXCEPT !.phase = ph]
    BY <1>4 DEF Managed
  <2>3. ph \in {"none", "brief", "reset", "asked", "auto"}
    BY <1>4 DEF Managed
  <2> HIDE DEF s, x, ph
  <2> QED BY <2>1, <2>2, <2>3, SetPhaseSheds, ShedsTyped
<1>6. /\ x.alive = b.alive /\ x.slot = b.slot /\ x.pending = b.pending
      /\ x.run = b.run /\ x.clock = b.clock /\ x.swap = b.swap
      /\ x.edit = b.edit /\ x.flow = b.flow /\ x.abort = b.abort
      /\ x.state = b.state /\ x.gap = b.gap /\ x.flush = b.flush
      /\ x.phase = ph
  BY <1>4 DEF Managed
<1> HIDE DEF x
<1>7. \A o \in Owners : ~Open(x, o)
  BY <1>3, <1>6 DEF Bumped
<1>8. Fit(x)
  <2>1. PendingFits(x)
    BY <1>1, <1>3, <1>6, PendingCalled DEF Fit, PendingFits, Bumped
  <2>2. CallersFit(x)
    BY <1>1, <1>3, <1>6 DEF Fit, CallersFit, Bumped
  <2>3. SwapFits(x)
    BY <1>1, <1>3, <1>6 DEF Fit, SwapFits, Bumped
  <2>4. TurnsFit(x)
    BY <1>1, <1>3, <1>6 DEF Fit, TurnsFit, Bumped
  <2> QED BY <2>1, <2>2, <2>3, <2>4 DEF Fit
<1>9. Ready(x) /\ Shown(x)
  BY <1>1, <1>3, <1>6 DEF Bumped, FlushKept, Ready, Shown
<1>10. x.alive /\ x.pending = m.pending /\ x.state = m.state
  BY <1>1, <1>3, <1>6 DEF Bumped
<1>11. x.state # "busy" \/ x.pending # "none" => Whole(x)
  BY <1>8, <1>9 DEF Whole, Backed
<1>12. up \in Managed /\ Sets(x, up, "waiting")
  BY <1>5, UpdateStateSets, UpdateStateSheds, ShedsTyped DEF States
<1>13. Whole(UpdateState(denied, "waiting")) \/ m.pending # "none"
  <2> DEFINE f == [x EXCEPT !.flow = "none"]
             u == UpdateState(denied, "waiting")
  <2>1. f \in Managed
    BY <1>5, SetFlowSheds, ShedsTyped
  <2>2. CallsKept(x, f) /\ FlushKept(x, f) /\ f.state = x.state
    BY <1>5, SetFlowKept
  <2>3. denied = [f EXCEPT !.gap = @ \cup {"flush"}]
    BY <1>5 DEF Managed
  <2> HIDE DEF f, denied
  <2>4. denied \in Managed /\ Same(f, denied)
    BY <2>1, <2>3, GapFlushSame
  <2>5. Fit(denied) /\ Ready(denied) /\ denied.alive /\ denied.pending = m.pending
        /\ denied.run = x.run
    BY <1>8, <1>9, <1>10, <2>2, <2>4, KeptFit, SameFit DEF Same, CallsKept
  <2>6. Sets(denied, u, "waiting")
    BY <2>4, UpdateStateSets DEF States
  <2> HIDE DEF u
  <2>7. m.pending = "none" => Whole(u)
    BY <1>7, <2>5, <2>6, SetsFit, SetsRest DEF Whole
  <2> QED BY <2>7 DEF u
<1> HIDE DEF up
<1>14. Fit(up) /\ Ready(up) /\ Backed(up) /\ (m.pending = "none" => Shown(up))
  BY <1>7, <1>8, <1>9, <1>10, <1>12, SetsFit, SetsRest
<1>15. ASSUME NEW ab \in {"hot", "replace"}, m.pending # "none"
       PROVE  Whole(end(ab))
  <2> DEFINE e == end(ab)
  <2>1. e.abort = ab /\ e.state = up.state /\ CallsKept(up, e) /\ FlushKept(up, e)
        /\ e.pending = up.pending
    BY <1>12 DEF CallsKept, FlushKept, Managed
  <2> HIDE DEF e
  <2>2. up.pending # "none"
    BY <1>10, <1>12, <1>15 DEF Sets, CallsKept
  <2>3. Fit(e) /\ Ready(e)
    BY <1>14, <2>1, KeptFit
  <2>4. Shown(e) /\ Backed(e)
    BY <2>1, <2>2 DEF Shown, Backed
  <2> QED BY <2>3, <2>4 DEF Whole, e
<1> HIDE DEF end
<1> QED BY <1>2, <1>10, <1>11, <1>13, <1>14, <1>15 DEF Whole

\* A failure that blames an agent with a turn is an overlap.
LEMMA FailedIdle ==
  ASSUME NEW x \in Managed, NEW y, Failed(x, y, Owners), Fit(x)
  PROVE  y.pending = "none" \/ ~y.alive \/ ~Single(y)
<1>1. x.pending \in Owners \cup {"none"}
  BY DEF Managed
<1> QED BY <1>1 DEF Failed, Blames, Fit, PendingFits

\* The ends of a Stop keep the invariant.
LEMMA AbortStepsWhole ==
  ASSUME Sound, Whole(m), HotAbortEnds \/ HotAbortTimesOut \/ AbortFails
  PROVE  Whole(m')
<1>1. m \in Managed
  BY DEF Sound
<1> DEFINE r == [m EXCEPT !.abort = "replace"]
<1>2. Whole(r)
  <2>1. CallsKept(m, r) /\ FlushKept(m, r) /\ r.state = m.state /\ r.flow = m.flow
        /\ r.gap = m.gap /\ r.abort = "replace"
    BY <1>1, SetAbortKept
  <2> HIDE DEF r
  <2> QED BY <2>1, KeptFit DEF Whole
<1>3. CASE HotAbortEnds
  <2>1. m' = r \/ (m' = AbortDone(m) /\ m.pending = "none")
    BY <1>3 DEF HotAbortEnds, Becomes
  <2> QED BY <1>1, <1>2, <2>1, AbortDoneWhole
<1>4. CASE HotAbortTimesOut
  BY <1>2, <1>4 DEF HotAbortTimesOut, Becomes
<1>5. CASE AbortFails
  <2> DEFINE x == StampError(m)
  <2>1. x \in Managed /\ Failed(m, x, Owners)
    BY <1>1, StampErrorFailed, StampErrorSheds, ShedsTyped
  <2>2. m' = AbortDone(x)
    BY <1>5 DEF AbortFails, Becomes
  <2> HIDE DEF x
  <2>3. Whole(x) /\ (x.pending = "none" \/ ~x.alive \/ ~Single(x))
    BY <1>1, <2>1, FailedFit, FailedIdle DEF Whole
  <2> QED BY <2>1, <2>2, <2>3, AbortDoneWhole
<1> QED BY <1>3, <1>4, <1>5

\* A message of an agent or a member keeps the invariant.
LEMMA SendsWhole ==
  ASSUME Sound, Whole(m), NEW i \in Items, AgentSends(i) \/ MemberSends(i)
  PROVE  Whole(m')
<1>1. m \in Managed
  BY DEF Sound
<1>2. CASE AgentSends(i)
  BY <1>1, <1>2, EnqueueSame, SameWhole DEF AgentSends
<1>3. CASE MemberSends(i)
  <2> DEFINE y == ReleaseBackendHold(m)
  <2>1. y \in Managed /\ Same(m, y)
    BY <1>1, ReleaseBackendHoldSame, ReleaseBackendHoldSheds, ShedsTyped
  <2>2. m' = [y EXCEPT !.typed = {i}]
    BY <1>3 DEF MemberSends
  <2> HIDE DEF y
  <2> QED BY <2>1, <2>2, SetTypedSame, SameWhole
<1> QED BY <1>2, <1>3

\* A member's message that is routed or starts its turn keeps the invariant.
LEMMA RoutingWhole ==
  ASSUME Sound, Whole(m), Routing \/ Watchdog
  PROVE  Whole(m')
<1>1. m \in Managed /\ Fit(m)
  BY DEF Sound, Whole
<1>2. CASE Watchdog
  BY <1>1, <1>2, RequestFlushSame, SameWhole DEF Watchdog, Becomes
<1>3. CASE MemberRoutes
  <2> DEFINE x == [m EXCEPT !.typed = {}]
             i == CHOOSE i \in m.typed : TRUE
             z == BeginTurn(x)
             call == [at |-> "wait", end |-> "open", items |-> m.typed]
             y == [z EXCEPT !.run["member"] = call]
  <2>1. x \in Managed /\ Same(m, x)
    BY <1>1, SetTypedSame DEF Managed
  <2>2. i \in Items /\ m.flush.at # "ready"
    BY <1>1, <1>3 DEF MemberRoutes, Managed, Parked
  <2>3. m' = Enqueue(x, i) \/ (m' = y /\ m.pending = "none")
    BY <1>3 DEF MemberRoutes, Becomes
  <2>4. call.at = "wait" /\ call.end = "open"
    OBVIOUS
  <2> HIDE DEF x, i, call
  <2>5. Whole(x)
    BY <2>1, SameWhole
  <2>6. Whole(Enqueue(x, i))
    BY <2>1, <2>2, <2>5, EnqueueSame, SameWhole
  <2>7. /\ z \in Managed
        /\ z.alive = x.alive /\ z.slot = x.slot /\ z.phase = x.phase
        /\ z.run = x.run /\ z.pending = x.pending /\ z.swap = x.swap
        /\ z.edit = x.edit /\ z.flush = x.flush
        /\ Single(z) <=> Single(x)
        /\ z.alive => z.state = "busy"
    BY <2>1, BeginTurnFrame
  <2> HIDE DEF z
  <2>8. /\ y.alive = z.alive /\ y.slot = z.slot /\ y.phase = z.phase
        /\ y.pending = z.pending /\ y.swap = z.swap /\ y.edit = z.edit
        /\ y.flush = z.flush /\ y.gap = z.gap /\ y.state = z.state
        /\ \A o \in Owners : y.run[o] = IF o = "member" THEN call ELSE z.run[o]
    BY <2>7 DEF Managed
  <2> HIDE DEF y
  <2>9. ASSUME m.pending = "none" PROVE Whole(y)
    <3>1. x.pending = "none" /\ Fit(x) /\ x.flush.at # "ready"
      BY <2>1, <2>2, <2>5, <2>9 DEF Same, CallsKept, FlushKept, Whole
    <3>2. PendingFits(y) /\ Shown(y) /\ Ready(y)
      BY <2>7, <2>8, <3>1 DEF PendingFits, Shown, Ready
    <3>3. SwapFits(y)
      BY <2>4, <2>7, <2>8, <3>1 DEF Fit, SwapFits
    <3>4. CallersFit(y)
      BY <2>4, <2>7, <2>8, <3>1 DEF Fit, CallersFit
    <3>5. TurnsFit(y)
      BY <2>4, <2>7, <2>8, <3>1 DEF Fit, TurnsFit
    <3>6. Backed(y)
      BY <2>4, <2>8 DEF Backed
    <3> QED BY <3>2, <3>3, <3>4, <3>5, <3>6 DEF Fit, Whole
  <2> QED BY <2>3, <2>6, <2>9
<1>4. CASE MemberStarts
  <2> DEFINE x == [m EXCEPT !.slot = "live"]
             y == StartsTurn(x, "member", m.run["member"].items)
             e == [m EXCEPT !.run["member"] = NoRun]
  <2>1. /\ m.run["member"].at = "wait" /\ m.slot # "swap" /\ m.flush.at # "ready"
        /\ m' = IF m.alive THEN y ELSE e
    BY <1>4 DEF MemberStarts, Becomes, Parked
  <2>2. m.pending # "member" /\ Called(m, "member")
    BY <1>1, <2>1, PendingCalled DEF Called
  <2>3. CASE m.alive
    <3>1. /\ x \in Managed /\ Fit(x) /\ x.slot = "live" /\ x.flush = m.flush
          /\ x.pending = m.pending
      BY <1>1, <2>1, WakesFit
    <3>2. m.run["member"].items \in SUBSET Items
      BY <1>1 DEF Managed, TurnRun
    <3> HIDE DEF x
    <3>3. Starts(x, y, "member")
      BY <2>2, <3>1, <3>2, StartsTurnStarts
    <3> HIDE DEF y
    <3> QED BY <2>1, <2>3, <3>1, <3>3 DEF Starts, Whole, Ready
  <2>4. CASE ~m.alive
    <3>1. CallEnds(m, e, "member")
      BY <1>1, EndRunEnds
    <3> QED BY <1>1, <2>1, <2>2, <2>4, <3>1, CallEndsWhole DEF Whole
  <2> QED BY <2>3, <2>4
<1> QED BY <1>2, <1>3, <1>4 DEF Routing

\* Prompts and picks that open, are answered or fail keep the invariant.
LEMMA PromptsWhole ==
  ASSUME Sound, Whole(m),
         \/ PromptOpens \/ PromptAnswered \/ PromptWithdrawn \/ PromptReplyFails
         \/ PickOpens \/ PickAnswered
  PROVE  Whole(m')
<1>1. m \in Managed /\ Fit(m) /\ Ready(m) /\ Shown(m) /\ Backed(m)
      /\ m.flush.at # "ready"
  BY DEF Sound, Whole, PromptOpens, PromptAnswered, PromptWithdrawn, PromptReplyFails,
         PickOpens, PickAnswered, Task, Disturb, Quiet, Microtasks, Parked
<1>2. ASSUME NEW f \in {"none", "permission", "pick"}
      PROVE  LET x == [m EXCEPT !.flow = f]
             IN /\ x \in Managed /\ Fit(x) /\ Ready(x) /\ Backed(x)
                /\ CallsKept(m, x) /\ x.flush.at # "ready" /\ x.flow = f
                /\ x.state = m.state
                /\ m.flow # "permission" \/ m.pending = "none" => Shown(x)
  <2> DEFINE x == [m EXCEPT !.flow = f]
  <2>1. x \in Managed
    BY <1>1, SetFlowSheds, ShedsTyped
  <2>2. /\ CallsKept(m, x) /\ FlushKept(m, x) /\ x.state = m.state
        /\ x.flow = f /\ x.gap = m.gap /\ x.abort = m.abort
    BY <1>1, SetFlowKept
  <2> HIDE DEF x
  <2>3. Fit(x) /\ Ready(x) /\ Backed(x) /\ x.flush.at # "ready"
    BY <1>1, <2>2, KeptFit DEF FlushKept
  <2>4. m.flow # "permission" \/ m.pending = "none" => Shown(x)
    BY <1>1, <2>2, KeptFit
  <2> QED BY <2>1, <2>2, <2>3, <2>4 DEF x
<1>3. CASE PromptOpens
  <2> DEFINE x == [m EXCEPT !.flow = "permission"]
             y == UpdateState(x, "waiting")
  <2>1. m' = y /\ m.alive /\ m.pending # "none"
    BY <1>3 DEF PromptOpens, Disturb, Becomes
  <2>2. /\ x \in Managed /\ Fit(x) /\ Ready(x) /\ CallsKept(m, x)
        /\ x.flow = "permission"
    BY <1>2
  <2> HIDE DEF x
  <2>3. Sets(x, y, "waiting")
    BY <2>2, UpdateStateSets DEF States
  <2> HIDE DEF y
  <2>4. ~Single(x) \/ \A o \in Owners : ~Open(x, o)
    <3>1. m.pending \in Owners /\ m.run[m.pending].at \in {"sending", "sent"}
      BY <1>1, <2>1, PendingCalled
    <3>2. x.run[m.pending].at \in {"sending", "sent"}
      BY <2>2, <3>1 DEF CallsKept
    <3> QED BY <2>2, <3>1, <3>2 DEF Fit, TurnsFit
  <2>5. x.alive
    BY <2>1, <2>2 DEF CallsKept
  <2> QED BY <2>1, <2>2, <2>3, <2>4, <2>5, SetsFit, SetsRest DEF Whole
<1> DEFINE x == [m EXCEPT !.flow = "none"]
           u == UpdateState(x, "busy")
<1>4. /\ x \in Managed /\ Fit(x) /\ Ready(x) /\ Backed(x)
      /\ CallsKept(m, x) /\ x.flush.at # "ready" /\ x.flow = "none"
      /\ x.state = m.state
      /\ m.flow # "permission" \/ m.pending = "none" => Shown(x)
  BY <1>2
<1> HIDE DEF x
<1>5. u \in Managed /\ Sets(x, u, "busy")
  BY <1>4, UpdateStateSets, UpdateStateSheds, ShedsTyped DEF States
<1> HIDE DEF u
<1>6. Fit(u) /\ Shown(u) /\ Ready(u) /\ (m.pending # "none" => Backed(u))
  BY <1>4, <1>5, SetsFit, SetsRest DEF CallsKept, IsQueueIdle
<1>7. CASE PromptAnswered
  <2> DEFINE y == [u EXCEPT !.gap = IF m.pending = "none" THEN @ \cup {"busy"} ELSE @]
  <2>1. m' = RequestFlush(IF m.slot = "none" THEN x ELSE y)
    BY <1>7 DEF PromptAnswered, Becomes, x, u
  <2>2. y \in Managed
    BY <1>5 DEF Managed
  <2>3. /\ CallsKept(u, y) /\ FlushKept(u, y) /\ y.state = u.state
        /\ y.flow = u.flow /\ y.abort = u.abort
        /\ "busy" \in u.gap => "busy" \in y.gap
        /\ m.pending = "none" => "busy" \in y.gap
    BY <1>5 DEF CallsKept, FlushKept, Managed
  <2> HIDE DEF y
  <2>4. Whole(y)
    <3>1. Fit(y) /\ Ready(y) /\ Shown(y)
      BY <1>6, <2>3, KeptFit
    <3>2. Backed(y)
      BY ZenonT(40), <1>6, <2>3, KeptFit DEF Backed
    <3> QED BY <3>1, <3>2 DEF Whole
  <2>5. m.slot = "none" => Whole(x)
    BY <1>1, <1>4 DEF Fit, PendingFits, Whole
  <2> QED BY <1>4, <2>1, <2>2, <2>4, <2>5, RequestFlushSame, SameWhole
<1>8. CASE PromptWithdrawn
  <2>1. \/ m' = u /\ m.pending # "none"
        \/ m' = [x EXCEPT !.gap = @ \cup {"flush"}] /\ m.pending = "none"
    BY <1>8 DEF PromptWithdrawn, Becomes, x, u
  <2>2. m.pending = "none" => Whole([x EXCEPT !.gap = @ \cup {"flush"}])
    BY <1>4, GapFlushSame, SameWhole DEF Whole
  <2> QED BY <1>6, <2>1, <2>2 DEF Whole
<1>9. CASE PromptReplyFails
  <2> DEFINE y == StampError(x)
  <2>1. m' = RequestFlush(y)
    BY <1>9 DEF PromptReplyFails, Becomes, x
  <2>2. y \in Managed /\ Failed(x, y, Owners)
    BY <1>4, StampErrorFailed, StampErrorSheds, ShedsTyped
  <2> HIDE DEF y
  <2>3. Whole(y)
    BY <1>4, <2>2, FailedFit DEF Whole
  <2> QED BY <2>1, <2>2, <2>3, RequestFlushSame, SameWhole
<1>10. CASE PickOpens
  <2> DEFINE p == [m EXCEPT !.flow = "pick"]
             y == UpdateState(p, "waiting")
  <2>1. m' = y /\ m.alive /\ m.pending = "none" /\ m.state # "busy"
    BY <1>10 DEF PickOpens, Disturb, Becomes, IsQueueIdle
  <2>2. p \in Managed /\ Fit(p) /\ Ready(p) /\ CallsKept(m, p) /\ p.state = m.state
    BY <1>2
  <2> HIDE DEF p
  <2>3. Sets(p, y, "waiting")
    BY <2>2, UpdateStateSets DEF States
  <2> HIDE DEF y
  <2>4. p.alive /\ p.pending = "none"
    BY <2>1, <2>2 DEF CallsKept
  <2>5. ~Single(p) \/ \A o \in Owners : ~Open(p, o)
    BY <2>1, <2>2, <2>4 DEF Fit, TurnsFit
  <2> QED BY <2>1, <2>2, <2>3, <2>4, <2>5, SetsFit, SetsRest DEF Whole
<1>11. CASE PickAnswered
  <2>1. \/ m' = RequestFlush(x) \/ m' = SwapStarts(x, "settings")
        \/ m' = [x EXCEPT !.gap = @ \cup {"flush"}]
    BY <1>11 DEF PickAnswered, Becomes, x
  <2>2. Whole(x)
    BY <1>4, <1>11 DEF PickAnswered, Whole
  <2>3. Whole(RequestFlush(x)) /\ Whole([x EXCEPT !.gap = @ \cup {"flush"}])
    BY <1>4, <2>2, RequestFlushSame, GapFlushSame, SameWhole
  <2>4. Whole(SwapStarts(x, "settings"))
    BY <1>4, SwapStartsFit DEF Whole
  <2> QED BY <2>1, <2>3, <2>4
<1> QED BY <1>3, <1>7, <1>8, <1>9, <1>10, <1>11

\* newConversation tears the session down and shows an idle agent.
LEMMA NewConversationWhole ==
  ASSUME NEW x \in Managed, Fit(x), Ready(x)
  PROVE  Whole(NewConversation(x))
<1> DEFINE fl == IF x.flow = "pick" THEN "none" ELSE x.flow
           h == x.holds \ {"backend"}
           a == [x EXCEPT !.flow = IF @ = "pick" THEN "none" ELSE @,
                          !.holds = @ \ {"backend"}, !.queue = {},
                          !.phase = "none"]
           u == UpdateState(a, "idle")
           t == Teardown(u)
           b == [t EXCEPT !.slot = "none", !.queue = x.queue]
           c == IF x.queue # {} THEN RequestFlush(b) ELSE b
<1>1. a \in Managed
  <2> DEFINE p == [x EXCEPT !.flow = fl]
             q == [p EXCEPT !.holds = h]
             r == [q EXCEPT !.queue = {}]
  <2>1. a = [r EXCEPT !.phase = "none"]
    BY DEF Managed
  <2>2. p \in Managed
    BY DEF Managed
  <2>3. h \in SUBSET {"backend", "edit", "resume"}
    BY DEF Managed
  <2> HIDE DEF p, h, a
  <2>4. q \in Managed
    BY <2>2, <2>3 DEF Managed
  <2> HIDE DEF q
  <2>5. r \in Managed
    BY <2>4 DEF Managed
  <2> HIDE DEF r
  <2> QED BY <2>1, <2>5, SetPhaseSheds, ShedsTyped
<1>2. /\ a.alive = x.alive /\ a.run = x.run /\ a.flush = x.flush
      /\ a.pending = x.pending /\ a.edit = x.edit /\ a.gap = x.gap
      /\ a.state = x.state
  BY DEF Managed
<1>3. NewConversation(x) = Swapped(c, x.pending)
  BY DEF NewConversation
<1> HIDE DEF a
<1>4. u \in Managed /\ Sets(a, u, "idle")
  BY <1>1, UpdateStateSets, UpdateStateSheds, ShedsTyped DEF States
<1> HIDE DEF u
<1>5. /\ x.pending \in Owners \cup {"none"}
      /\ u.pending # "none" => u.run[u.pending].at # "wait"
  BY <1>2, <1>4, PendingCalled DEF Sets, CallsKept
<1>6. TornKeeps(u, t)
  BY <1>4, <1>5, TeardownTorn
<1> HIDE DEF t
<1>7. t \in Managed
  BY <1>6 DEF TornKeeps
<1>8. b \in Managed
  <2> DEFINE w == [t EXCEPT !.slot = "none"]
  <2>1. w \in Managed
    BY <1>7, CloseSheds, ShedsTyped
  <2>2. b = [w EXCEPT !.queue = x.queue]
    BY <1>7 DEF Managed
  <2>3. x.queue \in SUBSET Items
    BY DEF Managed
  <2> HIDE DEF w, b
  <2> QED BY <2>1, <2>2, <2>3 DEF Managed
<1>9. /\ b.alive = t.alive /\ b.slot = "none" /\ b.pending = t.pending
      /\ b.clock = t.clock /\ b.edit = t.edit /\ b.gap = t.gap
      /\ b.flush = t.flush /\ b.run = t.run /\ b.state = t.state
  BY <1>7 DEF Managed
<1> HIDE DEF b
<1>10. Torn(x, b)
  BY <1>2, <1>4, <1>6, <1>9 DEF TornKeeps, Torn, Sets, CallsKept, FlushKept
<1>11. Fit(b)
  BY <1>9, <1>10, TornFit
<1>12. Ready(b) /\ (b.alive => b.state = "idle")
  BY <1>2, <1>4, <1>6, <1>9 DEF TornKeeps, Torn, Sets, CallsKept, FlushKept, Ready
<1>13. c \in Managed /\ Same(b, c)
  BY <1>8, RequestFlushSame, RequestFlushSheds, ShedsTyped, SameSelf
<1> HIDE DEF c
<1>14. Fit(c) /\ Ready(c)
  BY <1>11, <1>12, <1>13, SameFit
<1>15. c.pending = "none" /\ (c.state # "busy" \/ ~c.alive)
  BY <1>10, <1>12, <1>13 DEF Same, CallsKept, Torn
<1> QED BY <1>3, <1>5, <1>13, <1>14, <1>15, SwappedFit DEF Whole

\* Clear, handoffs and resumed conversations keep the invariant.
LEMMA ConversationsWhole ==
  ASSUME Sound, Whole(m),
         Clear \/ AskHandoff \/ HandoffResets \/ MemberResumes \/ ResumeFails
  PROVE  Whole(m')
<1>1. m \in Managed /\ Fit(m) /\ Ready(m) /\ fresh \subseteq Items
  BY DEF Sound, Whole
<1>2. CASE Clear
  BY <1>1, <1>2, NewConversationWhole DEF Clear, Becomes
<1>3. CASE AskHandoff
  <2> DEFINE x == [m EXCEPT !.phase = "asked"]
             r == IF x.resume = "none" THEN "claimed" ELSE x.resume
  <2>1. m.phase # "brief"
    BY <1>3 DEF AskHandoff
  <2>2. x \in Managed /\ Whole(x)
    BY <1>1, <2>1, SetPhaseWhole, SetPhaseSheds, ShedsTyped
  <2>3. m' \in {x, [x EXCEPT !.resume = r], RequestFlush(ReleaseBackendHold(x))}
    BY <1>3 DEF AskHandoff, Becomes
  <2> HIDE DEF x, r
  <2>4. ReleaseBackendHold(x) \in Managed /\ Same(x, ReleaseBackendHold(x))
    BY <2>2, ReleaseBackendHoldSame, ReleaseBackendHoldSheds, ShedsTyped
  <2> QED BY <2>2, <2>3, <2>4, SetResumeSame, RequestFlushSame, SameWhole
<1>4. CASE HandoffResets
  <2>1. CASE m' = FailAutoHandoff(m)
    <3> DEFINE x == [m EXCEPT !.phase = "none"]
    <3>1. m.phase # "brief" /\ m' = RequestFlush(x)
      BY <1>4, <2>1 DEF HandoffResets, FailAutoHandoff
    <3>2. x \in Managed /\ Whole(x)
      BY <1>1, <3>1, SetPhaseWhole, SetPhaseSheds, ShedsTyped
    <3> HIDE DEF x
    <3> QED BY <3>1, <3>2, RequestFlushSame, SameWhole
  <2>2. ASSUME NEW i \in fresh, m' = NewConversation([m EXCEPT !.queue = @ \cup {i}])
        PROVE  Whole(m')
    <3> DEFINE q == [m EXCEPT !.queue = @ \cup {i}]
    <3>1. q \in Managed /\ Same(m, q)
      BY SMTT(30), <1>1, SetQueueSame DEF Managed
    <3> HIDE DEF q
    <3>2. Fit(q) /\ Ready(q)
      BY <1>1, <3>1, SameFit
    <3> QED BY <2>2, <3>1, <3>2, NewConversationWhole DEF q
  <2> QED BY <1>4, <2>1, <2>2 DEF HandoffResets, Becomes
<1>5. CASE MemberResumes
  <2> DEFINE x == [m EXCEPT !.flow = IF @ = "pick" THEN "none" ELSE @,
                            !.holds = (@ \ {"backend"}) \cup {"resume"},
                            !.resume = "claimed"]
  <2>1. m' = x
    BY <1>5 DEF MemberResumes, Becomes
  <2>2. /\ CallsKept(m, x) /\ FlushKept(m, x) /\ x.state = m.state
        /\ x.gap = m.gap /\ x.abort = m.abort
        /\ m.flow = "permission" => x.flow = "permission"
    BY <1>1 DEF CallsKept, FlushKept, Managed
  <2> HIDE DEF x
  <2> QED BY <2>1, <2>2, KeptFit DEF Whole
<1>6. CASE ResumeFails
  <2> DEFINE y == [m EXCEPT !.resume = "none"]
             x == StampError(y)
  <2>1. m' \in {ReleaseHold(x, "resume"), x}
    BY <1>6 DEF ResumeFails, Becomes
  <2>2. y \in Managed /\ Same(m, y)
    BY <1>1, SetResumeSame, SetResumeSheds, ShedsTyped
  <2> HIDE DEF y
  <2>3. x \in Managed /\ Failed(y, x, Owners) /\ Fit(y) /\ Ready(y)
    BY <1>1, <2>2, SameFit, StampErrorFailed, StampErrorSheds, ShedsTyped
  <2> HIDE DEF x
  <2>4. Whole(x)
    BY <2>2, <2>3, FailedFit DEF Whole
  <2> QED BY <2>1, <2>3, <2>4, ReleaseHoldSame, SameWhole
<1> QED BY <1>2, <1>3, <1>4, <1>5, <1>6

\* An edit that begins keeps the invariant.
LEMMA EditWhole ==
  ASSUME Sound, Whole(m), NEW i \in Items, Edit(i)
  PROVE  Whole(m')
<1> DEFINE r == [NoRun EXCEPT !.items = {i}]
           x == [m EXCEPT !.holds = (@ \ {"backend"}) \cup {"edit"},
                          !.edit = "read", !.run["edit"] = r]
<1>1. /\ m \in Managed /\ Fit(m) /\ Ready(m) /\ Shown(m) /\ m' = x
      /\ m.run["edit"].at = "none" /\ m.state # "busy" /\ m.slot # "swap"
  BY DEF Sound, Whole, Edit, SlotFree
<1>2. r.at = "none"
  BY DEF NoRun
<1>3. /\ x.alive = m.alive /\ x.slot = m.slot /\ x.phase = m.phase
      /\ x.pending = m.pending /\ x.clock = m.clock /\ x.swap = m.swap
      /\ x.flow = m.flow /\ x.abort = m.abort /\ x.state = m.state
      /\ x.gap = m.gap /\ x.flush = m.flush
      /\ \A o \in Owners : x.run[o] = IF o = "edit" THEN r ELSE m.run[o]
  BY <1>1 DEF Managed
<1> HIDE DEF x, r
<1>4. m.pending \in Owners \cup {"none"}
  BY <1>1 DEF Managed
<1>5. PendingFits(x)
  BY <1>1, <1>3, <1>4 DEF Fit, PendingFits
<1>6. SwapFits(x) /\ CallersFit(x)
  BY <1>1, <1>2, <1>3 DEF Fit, SwapFits, CallersFit
<1>7. TurnsFit(x)
  BY <1>1, <1>2, <1>3 DEF Fit, TurnsFit
<1>8. Ready(x) /\ Shown(x) /\ Backed(x)
  BY <1>1, <1>3 DEF Ready, Shown, Backed
<1> QED BY <1>1, <1>5, <1>6, <1>7, <1>8 DEF Whole, Fit

\* An edit that fails before its fork keeps the invariant.
LEMMA EditFailsWhole ==
  ASSUME Sound, Whole(m), EditFails
  PROVE  Whole(m')
<1> DEFINE e == [m EXCEPT !.edit = "none"]
           x == [m EXCEPT !.edit = "none", !.run["edit"] = NoRun]
<1>1. m \in Managed /\ Fit(m) /\ Ready(m) /\ Shown(m) /\ Backed(m)
      /\ m.edit = "read" /\ m.alive
  BY DEF Sound, Whole, EditFails, Disturb
<1>2. m' \in {ReleaseHold(x, "edit"), ReleaseHold(StampError(x), "edit")}
  BY DEF EditFails, Becomes
<1>3. x \in Managed
  <2>1. e \in Managed
    BY <1>1, SetEditSheds, ShedsTyped
  <2>2. x = [e EXCEPT !.run["edit"] = NoRun]
    BY <1>1 DEF Managed
  <2> HIDE DEF e, x
  <2> QED BY <2>1, <2>2, EndRunSheds, ShedsTyped
<1>4. /\ x.alive = m.alive /\ x.slot = m.slot /\ x.phase = m.phase
      /\ x.pending = m.pending /\ x.clock = m.clock /\ x.swap = m.swap
      /\ x.flow = m.flow /\ x.abort = m.abort /\ x.state = m.state
      /\ x.gap = m.gap /\ x.flush = m.flush
      /\ \A o \in Owners : x.run[o] = IF o = "edit" THEN NoRun ELSE m.run[o]
  BY <1>1 DEF Managed
<1> HIDE DEF x
<1>5. m.run["edit"].at = "none" /\ m.pending \in Owners \cup {"none"}
  BY <1>1 DEF Fit, CallersFit, Managed
<1>6. PendingFits(x)
  BY <1>1, <1>4, <1>5 DEF Fit, PendingFits
<1>7. SwapFits(x) /\ CallersFit(x)
  BY <1>1, <1>4, <1>5 DEF Fit, SwapFits, CallersFit
<1>8. TurnsFit(x)
  BY <1>1, <1>4, <1>5 DEF Fit, TurnsFit
<1>9. Ready(x) /\ Shown(x) /\ Backed(x)
  BY <1>1, <1>4, <1>5 DEF Ready, Shown, Backed
<1>10. Fit(x)
  BY <1>6, <1>7, <1>8 DEF Fit
<1>11. StampError(x) \in Managed /\ Whole(StampError(x))
  BY <1>3, <1>9, <1>10, StampErrorFailed, StampErrorSheds, ShedsTyped, FailedFit DEF Whole
<1> QED BY <1>2, <1>3, <1>9, <1>10, <1>11, ReleaseHoldSame, SameWhole DEF Whole

\* Demotion and kill keep the invariant.
LEMMA ClosesWhole ==
  ASSUME Sound, Whole(m), Demote \/ Kill
  PROVE  Whole(m')
<1>1. m \in Managed /\ Fit(m) /\ Ready(m)
  BY DEF Sound, Whole
<1>2. CASE Demote
  <2> DEFINE t == Teardown(m)
             x == [t EXCEPT !.slot = "none"]
  <2>1. m' = x /\ m.state # "busy"
    BY <1>2 DEF Demote, Becomes, IsQueueIdle
  <2>2. TornKeeps(m, t)
    BY <1>1, PendingCalled, TeardownTorn
  <2> HIDE DEF t
  <2>3. t \in Managed
    BY <2>2 DEF TornKeeps
  <2>4. /\ x.alive = t.alive /\ x.slot = "none" /\ x.pending = t.pending
        /\ x.clock = t.clock /\ x.edit = t.edit /\ x.gap = t.gap
        /\ x.flush = t.flush /\ x.run = t.run /\ x.state = t.state
    BY <2>3 DEF Managed
  <2> HIDE DEF x
  <2>5. Torn(m, x)
    BY <2>2, <2>4 DEF TornKeeps, Torn, FlushKept
  <2>6. Fit(x) /\ Shown(x)
    BY <1>1, <2>4, <2>5, TornFit
  <2>7. Ready(x) /\ Backed(x)
    BY <1>1, <2>1, <2>2, <2>4 DEF TornKeeps, Torn, FlushKept, Ready, Backed
  <2> QED BY <2>1, <2>6, <2>7 DEF Whole
<1>3. CASE Kill
  <2> DEFINE f == [m EXCEPT !.flow = "none"]
             t == Teardown(f)
             x == [t EXCEPT !.alive = FALSE, !.slot = "none", !.swap = "none",
                            !.edit = "none", !.resume = "none"]
             z == Swapped(x, m.pending)
  <2>1. m' = AbortDone(z)
    BY <1>3 DEF Kill, Becomes
  <2>2. f \in Managed
    BY <1>1, SetFlowSheds, ShedsTyped
  <2>3. CallsKept(m, f) /\ FlushKept(m, f) /\ f.state = m.state
    BY <1>1, SetFlowKept
  <2> HIDE DEF f
  <2>4. TornKeeps(f, t)
    BY <1>1, <2>2, <2>3, PendingCalled, TeardownTorn DEF CallsKept
  <2> HIDE DEF t
  <2>5. t \in Managed
    BY <2>4 DEF TornKeeps
  <2>6. x \in Managed
    <3> DEFINE a == [t EXCEPT !.alive = FALSE]
               b == [a EXCEPT !.slot = "none", !.swap = "none"]
               c == [b EXCEPT !.edit = "none"]
    <3>1. x = [c EXCEPT !.resume = "none"]
      BY <2>5 DEF Managed
    <3> HIDE DEF x
    <3>2. a \in Managed
      BY <2>5 DEF Managed
    <3> HIDE DEF a
    <3>3. b \in Managed
      BY <3>2, SetSlotSheds, ShedsTyped
    <3> HIDE DEF b
    <3>4. c \in Managed
      BY <3>3, SetEditSheds, ShedsTyped
    <3> HIDE DEF c
    <3> QED BY <3>1, <3>4, SetResumeSheds, ShedsTyped
  <2>7. /\ ~x.alive /\ x.slot = "none" /\ x.pending = t.pending
        /\ x.clock = t.clock /\ x.gap = t.gap
        /\ x.flush = t.flush /\ x.run = t.run /\ x.state = t.state
    BY <2>5 DEF Managed
  <2> HIDE DEF x
  <2>8. Torn(m, x)
    BY <2>3, <2>4, <2>7 DEF TornKeeps, Torn, FlushKept, CallsKept
  <2>9. Fit(x) /\ x.pending = "none"
    BY <1>1, <2>7, <2>8, TornFit DEF Torn
  <2>10. Ready(x)
    BY <1>1, <2>3, <2>4, <2>7 DEF TornKeeps, Torn, FlushKept, Ready
  <2>11. m.pending \in Owners \cup {"none"}
    BY <1>1, PendingCalled
  <2>12. z \in Managed
    BY <2>6, <2>11, SwappedSheds, ShedsTyped
  <2>13. Whole(z) /\ ~z.alive
    BY <2>6, <2>7, <2>9, <2>10, <2>11, SwappedFit DEF Whole
  <2> QED BY <2>1, <2>12, <2>13, AbortDoneWhole
<1> QED BY <1>2, <1>3

\* A new agent has no turn and shows none.
LEMMA InitWhole == Init => Whole(m)
<1> SUFFICES ASSUME Init PROVE Whole(m)
  OBVIOUS
<1>1. /\ m.pending = "none" /\ m.slot = "live" /\ m.state = "idle"
      /\ m.flush.at = "none" /\ \A o \in Owners : m.run[o] = NoRun
  BY DEF Init, InitAgent, NoFlush
<1> QED BY <1>1 DEF Whole, Fit, PendingFits, SwapFits, CallersFit, TurnsFit, Ready,
                    Shown, Backed

\* Every step keeps the invariant, in the states of Sound.
LEMMA NextWhole == Sound /\ Whole(m) /\ [Next]_vars => Whole(m)'
<1> SUFFICES ASSUME Sound, Whole(m), [Next]_vars PROVE Whole(m')
  OBVIOUS
<1>1. CASE Turning
  BY <1>1, PresendEndsWhole, SendAcceptedWhole, CallStepsWhole, TurnEndsWhole
     DEF Turning
<1>2. CASE Swapping
  BY <1>2, SwapEndsWhole, AbortStepsWhole, SwapsBeginWhole, ConversationsWhole
     DEF Swapping
<1>3. CASE Environment
  BY <1>3, SendsWhole, EditWhole, CallStepsWhole, TurnEndsWhole, TurnActivityWhole,
     StreamEndsWhole, SwapsBeginWhole, StopWhole, AbortStepsWhole, RoutingWhole,
     PromptsWhole, ConversationsWhole, EditFailsWhole, ClosesWhole
     DEF Environment
<1>4. CASE UNCHANGED vars
  BY <1>4 DEF vars
<1> QED BY <1>1, <1>2, <1>3, <1>4, FlushingWhole, RoutingWhole DEF Next, Progress

\* At rest, what the office shows of an agent and the turn it runs agree, for
\* every set of messages and every number of disturbances: a busy agent has a
\* turn, a call or a swap that will put its state right, and an agent with a
\* pending turn is not shown as idle, whatever Stop, swap, edit, handoff,
\* prompt or failure came in between.
THEOREM StateFits == Spec => []StateFitsTurn
<1>1. Whole(m) => StateFitsTurn
  <2> SUFFICES ASSUME Whole(m) PROVE StateFitsTurn
    OBVIOUS
  <2>1. \A o \in Owners : m.run[o].at = "wait" => m.run[o].end = "open"
    BY DEF Whole, Fit, CallersFit
  <2> QED BY <2>1 DEF Whole, Backed, Shown, StateFitsTurn
<1> QED BY <1>1, InitSound, NextSound, InitWhole, NextWhole, PTL DEF Spec

-----------------------------------------------------------------------------
(* No wakeup is lost.                                                      *)

\* A flush is owed: the queue could be flushed, and no path that ends a wait
\* without a request is in the history.
Owed(x) == FlushStillWanted(x) /\ x.gap \cap {"flush", "overlap"} = {}

\* A swap requests a flush at its end, and so does a handoff.
Carried(x) == x.slot = "swap" \/ x.phase \in {"brief", "reset"}

\* The flush under way will look at the queue again: it has not taken its
\* batch, or a request came meanwhile, or its batch is still all there is.
Attends(x) ==
  /\ x.flush.at # "none"
  /\ \/ x.flush.rerun \/ x.flush.at \notin {"run", "cap"}
     \/ /\ x.flush.at = "cap" /\ x.queue \subseteq x.flush.batch
        /\ x.phase # "asked"

\* No wakeup is lost, also between two microtasks.
Awake(x) == Owed(x) => Carried(x) \/ Attends(x)

USE DEF Owed, Carried, Attends

\* The flush's call needs the flush at its turn.
AtTurn(x, o) == o = "flush" => x.flush.at = "run"

\* A request for a flush is attended to.
LEMMA RequestFlushAwake ==
  ASSUME NEW x \in Managed
  PROVE  Awake(RequestFlush(x))
BY DEF RequestFlush, Awake, FlushStillWanted, Managed, FlushRun

\* A piece that leaves the queue, the flush and the slot alone loses no
\* wakeup.
LEMMA SameAwake ==
  ASSUME NEW x, NEW y, Awake(x),
         y.alive = x.alive, y.queue = x.queue, y.phase = x.phase,
         y.holds = x.holds, y.state = x.state, y.flow = x.flow,
         x.gap \subseteq y.gap \cup {"busy"},
         x.slot = "swap" => y.slot = "swap",
         y.flush.at = x.flush.at,  y.flush.rerun = x.flush.rerun,
         y.flush.batch = x.flush.batch
  PROVE  Awake(y)
BY DEF Awake, FlushStillWanted

\* The end of a flush runs the request that came meanwhile.
LEMMA FlushEndsAwake ==
  ASSUME NEW x \in Managed, Owed(x) => x.flush.rerun \/ Carried(x)
  PROVE  Awake(FlushEnds(x))
<1> DEFINE y == [x EXCEPT !.flush = NoFlush, !.run["flush"] = NoRun]
<1>1. y \in Managed
  BY NoneTyped DEF Managed
<1>2. /\ y.alive = x.alive /\ y.queue = x.queue /\ y.phase = x.phase
      /\ y.holds = x.holds /\ y.state = x.state /\ y.flow = x.flow
      /\ y.gap = x.gap /\ y.slot = x.slot
  BY DEF Managed
<1>3. FlushEnds(x) = IF x.flush.rerun THEN RequestFlush(y) ELSE y
  BY DEF FlushEnds
<1> HIDE DEF y
<1> QED BY <1>1, <1>2, <1>3, RequestFlushAwake DEF Awake, FlushStillWanted

\* The flush's turn ends, and the queue is looked at again if it was asked
\* for.
LEMMA TurnFlushEndsAwake ==
  ASSUME NEW x \in Managed, Awake(x), x.flush.at = "run"
  PROVE  Awake(FlushEnds(x))
BY FlushEndsAwake DEF Awake

\* updateState requests a flush when the agent becomes idle.
LEMMA UpdateStateAwake ==
  ASSUME NEW x \in Managed, NEW s \in States, Awake(x) \/ s # x.state
  PROVE  Awake(UpdateState(x, s))
<1> DEFINE y == [x EXCEPT !.state = s, !.gap = @ \ {"busy"}]
<1>1. y \in Managed
  BY DEF Managed
<1>2. /\ y.alive = x.alive /\ y.queue = x.queue /\ y.phase = x.phase
      /\ y.holds = x.holds /\ y.state = s /\ y.flow = x.flow
      /\ y.gap = x.gap \ {"busy"} /\ y.slot = x.slot /\ y.flush = x.flush
  BY DEF Managed
<1>3. UpdateState(x, s) = IF ~x.alive THEN x
                          ELSE IF s # x.state /\ IsQueueIdle(s) THEN RequestFlush(y)
                          ELSE y
  BY DEF UpdateState
<1> HIDE DEF y
<1>4. CASE ~x.alive
  BY <1>3, <1>4 DEF Awake, FlushStillWanted
<1>5. CASE s # x.state /\ IsQueueIdle(s) /\ x.alive
  BY <1>1, <1>3, <1>5, RequestFlushAwake
<1>6. CASE ~IsQueueIdle(s) /\ x.alive
  BY <1>2, <1>3, <1>6 DEF Awake, FlushStillWanted
<1>7. CASE s = x.state /\ x.alive
  BY <1>2, <1>3, <1>7, SameAwake
<1> QED BY <1>4, <1>5, <1>6, <1>7

\* A busy claim owes no flush.
LEMMA BusyAwake ==
  ASSUME NEW x \in Managed
  PROVE  Awake(BeginTurn(x))
<1> DEFINE y == [x EXCEPT !.clock = TRUE]
<1>1. y \in Managed
  BY DEF Managed
<1>2. BeginTurn(x) = IF x.state = "busy" THEN x ELSE UpdateState(y, "busy")
  BY DEF BeginTurn
<1>3. y.state = x.state
  BY DEF Managed
<1> HIDE DEF y
<1> QED BY <1>1, <1>2, <1>3, UpdateStateAwake
        DEF States, Awake, FlushStillWanted, IsQueueIdle

\* The calls do not matter to a wakeup.
LEMMA SetRunAwake ==
  ASSUME NEW x \in Managed, NEW r, Awake(x)
  PROVE  Awake([x EXCEPT !.run = r])
BY DEF Awake, FlushStillWanted, Managed

\* A single call does not matter to a wakeup.
LEMMA EndRunAwake ==
  ASSUME NEW x \in Managed, NEW o, NEW r, Awake(x)
  PROVE  Awake([x EXCEPT !.run[o] = r])
BY SetRunAwake

\* The history of an overlap excuses a flush, and asks for none.
LEMMA OverlapsAwake ==
  ASSUME NEW x \in Managed, NEW others, Awake(x)
  PROVE  Awake(Overlaps(x, others))
BY DEF Overlaps, Awake, FlushStillWanted, Managed

\* A turn that starts makes the agent busy: no flush is owed.
LEMMA StartsTurnAwake ==
  ASSUME NEW x \in Managed, NEW o \in Owners, NEW items
  PROVE  Awake(StartsTurn(x, o, items))
<1> DEFINE y == Overlaps(x, Owners \ {o})
<1>1. y \in Managed
  BY OverlapsSheds, ShedsTyped
<1> HIDE DEF y
<1>2. BeginTurn(y) \in Managed /\ Awake(BeginTurn(y))
  BY <1>1, BeginTurnSheds, ShedsTyped, BusyAwake
<1> QED BY <1>2, EndRunAwake DEF StartsTurn, y

\* A hold that is released requests a flush.
LEMMA ReleaseHoldAwake ==
  ASSUME NEW x \in Managed, NEW h
  PROVE  Awake(ReleaseHold(x, h))
<1>1. [x EXCEPT !.holds = @ \ {h}] \in Managed
  BY DEF Managed
<1> QED BY <1>1, RequestFlushAwake DEF ReleaseHold

\* The hold of a failed backend that is released requests a flush.
LEMMA ReleaseBackendHoldAwake ==
  ASSUME NEW x \in Managed, Awake(x)
  PROVE  Awake(ReleaseBackendHold(x))
BY ReleaseHoldAwake DEF ReleaseBackendHold

\* A wake of the agent is no matter of the queue.
LEMMA SetResumeAwake ==
  ASSUME NEW x \in Managed, NEW r, Awake(x)
  PROVE  Awake([x EXCEPT !.resume = r])
BY DEF Awake, FlushStillWanted, Managed

\* A message that is enqueued requests a flush, or wakes the agent that will.
LEMMA EnqueueAwake ==
  ASSUME NEW x \in Managed, NEW i \in Items
  PROVE  Awake(Enqueue(x, i))
<1> DEFINE q == [x EXCEPT !.queue = @ \cup {i}]
           y == ReleaseBackendHold(q)
           r == IF y.resume = "none" THEN "claimed" ELSE y.resume
<1>1. q \in Managed /\ q.state = x.state /\ q.flow = x.flow
  BY DEF Managed
<1>2. Enqueue(x, i) = IF x.state = "error" THEN [y EXCEPT !.resume = r]
                      ELSE IF IsQueueIdle(x.state) /\ x.flow = "none"
                        THEN RequestFlush(y)
                      ELSE y
  BY DEF Enqueue
<1> DEFINE h == [q EXCEPT !.holds = @ \ {"backend"}]
<1>a. h \in Managed /\ h.state = q.state /\ h.flow = q.flow
  <2> HIDE DEF q
  <2> QED BY <1>1 DEF Managed
<1>b. y = IF "backend" \in q.holds THEN RequestFlush(h) ELSE q
  BY DEF ReleaseBackendHold, ReleaseHold
<1> HIDE DEF q, h
<1>3. y \in Managed /\ y.state = x.state /\ y.flow = x.flow
  BY <1>1, <1>a, <1>b, RequestFlushSheds, RequestFlushFrame, ShedsTyped DEF OnlyFlow
<1> HIDE DEF y, r
<1>4. CASE x.state = "error" \/ ~(IsQueueIdle(x.state) /\ x.flow = "none")
  <2>1. Awake(y)
    BY <1>3, <1>4 DEF Awake, FlushStillWanted, IsQueueIdle
  <2> QED BY <1>2, <1>3, <1>4, <2>1, SetResumeAwake
<1>5. CASE x.state # "error" /\ IsQueueIdle(x.state) /\ x.flow = "none"
  BY <1>2, <1>3, <1>5, RequestFlushAwake
<1> QED BY <1>4, <1>5

\* A request leaves a flush under way where it is.
LEMMA RequestFlushAt ==
  ASSUME NEW x \in Managed, x.flush.at # "none"
  PROVE  RequestFlush(x).flush.at = x.flush.at
BY DEF RequestFlush, Managed, FlushRun

\* updateState does not end a flush.
LEMMA UpdateStateAt ==
  ASSUME NEW x \in Managed, NEW s \in States, x.flush.at # "none"
  PROVE  UpdateState(x, s).flush.at = x.flush.at
<1> DEFINE y == [x EXCEPT !.state = s, !.gap = @ \ {"busy"}]
<1>1. y \in Managed /\ y.flush = x.flush
  BY DEF Managed
<1>2. UpdateState(x, s) \in {x, y, RequestFlush(y)}
  BY DEF UpdateState
<1> HIDE DEF y
<1> QED BY <1>1, <1>2, RequestFlushAt

\* A queue that is held owes no flush.
LEMMA HoldForBackendAwake ==
  ASSUME NEW x \in Managed, Awake(x)
  PROVE  /\ Awake(HoldForBackend(x))
         /\ x.flush.at # "none" => HoldForBackend(x).flush.at = x.flush.at
<1> DEFINE y == IF x.queue # {} THEN [x EXCEPT !.holds = @ \cup {"backend"}]
                ELSE x
<1>1. y \in Managed /\ y.flush = x.flush /\ Awake(y)
  BY DEF Managed, Awake, FlushStillWanted
<1> HIDE DEF y
<1> QED BY <1>1, UpdateStateAwake, UpdateStateAt DEF HoldForBackend, y, States

\* The failure of a turn shows an error, or waits with a flush to come.
LEMMA OwnedTurnFailureAwake ==
  ASSUME NEW x \in Managed, NEW o \in Owners, NEW kind \in Failures, Awake(x)
  PROVE  LET y == OwnedTurnFailure(x, o, kind)
         IN Awake(y) /\ (x.flush.at # "none" => y.flush.at = x.flush.at)
<1> DEFINE y == Overlaps(x, Owners \ {o})
<1>1. y \in Managed /\ Awake(y)
  BY OverlapsSheds, ShedsTyped, OverlapsAwake
<1>2. y.flush = x.flush
  BY DEF Overlaps, Managed
<1>3. OwnedTurnFailure(x, o, kind) \in
        {HoldForBackend(y), UpdateState(y, "waiting"), UpdateState(y, "error")}
  BY DEF OwnedTurnFailure, Failures
<1> HIDE DEF y
<1> QED BY <1>1, <1>2, <1>3, HoldForBackendAwake, UpdateStateAwake, UpdateStateAt
        DEF States

\* A handoff that ends requests a flush.
LEMMA BriefEndsAwake ==
  ASSUME NEW x \in Managed
  PROVE  /\ Awake(FailAutoHandoff(x))
         /\ Awake(x) => Awake(BriefEnds(x))
<1>1. [x EXCEPT !.phase = "none"] \in Managed
  BY DEF Managed
<1> QED BY <1>1, RequestFlushAwake DEF FailAutoHandoff, BriefEnds

\* What the caller of a completed turn does loses no wakeup.
LEMMA TurnDoneAwake ==
  ASSUME NEW x \in Managed, NEW o \in Owners, Awake(x), AtTurn(x, o)
  PROVE  Awake(TurnDone(x, o))
<1> DEFINE y == [x EXCEPT !.run[o] = NoRun]
           z == [y EXCEPT !.edit = "none"]
           p == [y EXCEPT !.phase = "reset"]
<1>1. y \in Managed /\ Awake(y)
  BY EndRunSheds, ShedsTyped, EndRunAwake
<1>2. TurnDone(x, o) \in {y, p, ReleaseHold(z, "edit")}
        \cup (IF o = "flush" THEN {FlushEnds(x)} ELSE {})
  BY DEF TurnDone
<1> HIDE DEF y
<1>3. p.phase = "reset" /\ z \in Managed
  BY <1>1, SetEditSheds, ShedsTyped DEF Managed
<1>4. Awake(p)
  BY <1>3 DEF Awake
<1> HIDE DEF p, z
<1> QED BY <1>1, <1>2, <1>3, <1>4, ReleaseHoldAwake, TurnFlushEndsAwake DEF AtTurn

\* What the caller of a failed turn does loses no wakeup.
LEMMA TurnFailedAwake ==
  ASSUME NEW x \in Managed, NEW o \in Owners, NEW kind \in Failures,
         Awake(x), AtTurn(x, o)
  PROVE  Awake(TurnFailed(x, o, kind))
<1> DEFINE y == [x EXCEPT !.run[o] = NoRun]
           f == OwnedTurnFailure(x, o, kind)
           g == OwnedTurnFailure(y, o, kind)
           e == [y EXCEPT !.edit = IF kind = "config" THEN "unset" ELSE "back"]
<1>1. y \in Managed /\ Awake(y)
  BY EndRunSheds, ShedsTyped, EndRunAwake
<1>2. TurnFailed(x, o, kind) \in {g, BriefEnds(g), e}
        \cup (IF o = "flush" THEN {FlushEnds(f), FlushEnds(x)} ELSE {})
  BY DEF TurnFailed
<1>3. f \in Managed /\ g \in Managed
  BY <1>1, OwnedTurnFailureSheds, ShedsTyped
<1>4. Awake(f) /\ Awake(g) /\ (x.flush.at # "none" => f.flush.at = x.flush.at)
  <2> HIDE DEF y
  <2> QED BY <1>1, OwnedTurnFailureAwake
<1> HIDE DEF y, f, g
<1>5. Awake(e)
  BY <1>1 DEF Awake, FlushStillWanted, Managed
<1> HIDE DEF e
<1> QED BY <1>1, <1>2, <1>3, <1>4, <1>5, BriefEndsAwake, TurnFlushEndsAwake DEF AtTurn

\* What the caller of a cut turn does loses no wakeup.
LEMMA TurnSwappedAwake ==
  ASSUME NEW x \in Managed, NEW o \in Owners, NEW kept \in BOOLEAN, Awake(x)
  PROVE  Awake(TurnSwapped(x, o, kept))
<1> DEFINE y == [x EXCEPT !.run[o] = NoRun]
           i == CHOOSE i \in x.run[o].items : TRUE
           c == kept /\ x.alive /\ x.run[o].items # {}
           z == IF c THEN Enqueue(y, i) ELSE y
           r == [x EXCEPT !.flush.rerun = TRUE]
           e == [z EXCEPT !.edit = "none"]
<1>1. y \in Managed /\ Awake(y)
  BY EndRunSheds, ShedsTyped, EndRunAwake
<1>2. TurnSwapped(x, o, kept) \in {z, BriefEnds(y), ReleaseHold(e, "edit"),
         FlushEnds(IF x.alive THEN r ELSE x)}
  BY DEF TurnSwapped
<1>3. c => i \in Items
  BY DEF Managed, TurnRun
<1>4. r \in Managed /\ r.flush.rerun
  BY DEF Managed, FlushRun
<1>5. ~x.alive => ~Owed(x)
  BY DEF FlushStillWanted
<1> HIDE DEF y, i, r, c
<1>6. z \in Managed /\ Awake(z)
  BY <1>1, <1>3, EnqueueSheds, EnqueueAwake, ShedsTyped
<1> HIDE DEF z
<1>7. e \in Managed
  BY <1>6, SetEditSheds, ShedsTyped
<1> HIDE DEF e
<1>8. Awake(FlushEnds(IF x.alive THEN r ELSE x))
  BY <1>4, <1>5, FlushEndsAwake
<1> QED BY <1>1, <1>2, <1>6, <1>7, <1>8, BriefEndsAwake, ReleaseHoldAwake

\* The same for the turn that is pending, or none.
LEMMA SwappedAwake ==
  ASSUME NEW x \in Managed, NEW o \in Owners \cup {"none"}, Awake(x)
  PROVE  Awake(Swapped(x, o))
BY TurnSwappedAwake DEF Swapped

\* The pending turn that is settled loses no wakeup.
LEMMA SettledAwake ==
  ASSUME NEW x \in Managed, Awake(x)
  PROVE  Awake(Settled(x))
BY DEF Settled, Awake, FlushStillWanted, Managed, FlushRun

\* The end of a Stop loses no wakeup.
LEMMA AbortDoneAwake ==
  ASSUME NEW x \in Managed, Awake(x)
  PROVE  Awake(AbortDone(x))
BY DEF AbortDone, Awake, FlushStillWanted, Managed, FlushRun

\* Moving the token loses no wakeup.
LEMMA BumpTokenAwake ==
  ASSUME NEW x \in Managed, NEW why, Awake(x)
  PROVE  Awake(BumpToken(x, why))
BY DEF BumpToken, Awake, FlushStillWanted, Managed, FlushRun

\* A tear-down loses no wakeup.
LEMMA TeardownAwake ==
  ASSUME NEW x \in Managed, Awake(x)
  PROVE  Awake(Teardown(x))
<1> DEFINE b == BumpToken(x, "cut")
           y == [b EXCEPT !.clock = FALSE, !.stamped = FALSE]
           o == x.pending
           z == [y EXCEPT !.run[o].end = "cut"]
<1>1. b \in Managed /\ Awake(b)
  BY BumpTokenSheds, ShedsTyped, BumpTokenAwake
<1>2. Teardown(x) = IF o = "none" THEN y
                    ELSE Settled(IF y.run[o].at = "sent" THEN y ELSE z)
  BY DEF Teardown
<1> HIDE DEF b
<1>b. y \in Managed
  BY <1>1 DEF Managed
<1>3. y \in Managed /\ Awake(y)
  <2>1. /\ y.alive = b.alive /\ y.queue = b.queue /\ y.phase = b.phase
        /\ y.holds = b.holds /\ y.state = b.state /\ y.flow = b.flow
        /\ y.gap = b.gap /\ y.slot = b.slot /\ y.flush = b.flush
    BY <1>1 DEF Managed
  <2> QED BY <1>b, <1>1, <2>1, SameAwake
<1>a. o \in Owners \cup {"none"}
  BY DEF Managed
<1> HIDE DEF y, o
<1>4. o # "none" => z \in Managed /\ Awake(z)
  BY <1>3, <1>a, RunEndSheds, ShedsTyped, SetRunAwake
<1> HIDE DEF z
<1> QED BY <1>2, <1>3, <1>4, SettledAwake

\* A swap carries the flush it will request at its end.
LEMMA SwapStartsAwake ==
  ASSUME NEW x \in Managed, NEW kind \in {"settings", "stop", "fork", "back", "resume"}
  PROVE  Awake(SwapStarts(x, kind))
<1> DEFINE y == [x EXCEPT !.flow = IF @ = "permission" THEN "none" ELSE @]
           t == Teardown(y)
           z == [t EXCEPT !.slot = "swap", !.swap = kind]
<1>1. y \in Managed
  BY DEF Managed
<1>2. t \in Managed
  BY <1>1, TeardownSheds, ShedsTyped
<1>3. SwapStarts(x, kind) = Swapped(z, x.pending) /\ x.pending \in Owners \cup {"none"}
  BY DEF SwapStarts, Managed
<1> HIDE DEF t
<1>4. z \in Managed
  BY <1>2, SetSlotSheds, ShedsTyped
<1>5. z.slot = "swap"
  BY <1>2 DEF Managed
<1> HIDE DEF z
<1> QED BY <1>3, <1>4, <1>5, SwappedAwake DEF Awake

\* A pending turn that a newer one supersedes loses no wakeup.
LEMMA SupersedeAwake ==
  ASSUME NEW x \in Managed, Awake(x), CallsFit(x)
  PROVE  Awake(Supersede(x))
<1> DEFINE p == x.pending
           y == Settled(x)
           e == [y EXCEPT !.run[p].end = "fail"]
<1>1. p \in Owners \cup {"none"}
  BY DEF Managed
<1>2. y \in Managed /\ Awake(y)
  BY SettledSheds, ShedsTyped, SettledAwake
<1>3. x.run["flush"].at = "sent" => y.flush.at = "run"
  BY DEF Settled, Managed, FlushRun
<1>4. Supersede(x) = IF p = "none" THEN x
                     ELSE IF x.run[p].at # "sent" THEN e
                     ELSE IF p = "flush" THEN FlushEnds(y)
                     ELSE TurnFailed(y, p, "error")
  BY DEF Supersede
<1> HIDE DEF y, p
<1>5. Awake(e)
  BY <1>2, SetRunAwake
<1> HIDE DEF e
<1> QED BY <1>1, <1>2, <1>3, <1>4, <1>5, TurnFlushEndsAwake, TurnFailedAwake
        DEF AtTurn, Failures

\* An agent that is not queue-idle, or whose history has a missed request, owes
\* no flush.
LEMMA NotOwedAwake ==
  ASSUME NEW x,
         \/ ~x.alive \/ ~IsQueueIdle(x.state) \/ x.flow # "none" \/ x.holds # {}
         \/ "flush" \in x.gap \/ "overlap" \in x.gap
         \/ x.queue = {} /\ x.phase # "asked"
  PROVE  Awake(x)
BY DEF Awake, FlushStillWanted

\* A failure that blames the agent.
LEMMA StampErrorAwake ==
  ASSUME NEW x \in Managed
  PROVE  Awake(StampError(x))
<1>1. Overlaps(x, Owners) \in Managed
  BY OverlapsSheds, ShedsTyped
<1>2. LET y == StampError(x) IN y.state = "error" \/ ~y.alive
  BY <1>1, UpdateStateFrame DEF StampError, OnlyFlow, States
<1> QED BY <1>2, NotOwedAwake DEF IsQueueIdle

\* The gate of the handoff, the snapshot of the queue and the read of the cap.
LEMMA FlushProceedsAwake ==
  ASSUME NEW x \in Managed, FlushProceeds(x)
  PROVE  Awake(m')
<1>1. CASE x.phase # "none" /\ Becomes(FlushEnds(StartAutoHandoffBrief(x)))
  <2> DEFINE b == StartAutoHandoffBrief(x)
             p == [x EXCEPT !.phase = "brief"]
             w == Overlaps(p, Owners \ {"brief"})
             z == BeginTurn(w)
  <2>1. p \in Managed /\ p.phase = "brief"
    BY SetPhaseSheds, ShedsTyped DEF Managed
  <2>2. b = IF x.phase \in {"auto", "asked"}
              THEN [z EXCEPT !.run["brief"] = Call({})] ELSE x
    BY DEF StartAutoHandoffBrief, StartsTurn, Call
  <2> HIDE DEF p
  <2>3. w \in Managed /\ w.phase = "brief"
    BY <2>1, OverlapsRecorded DEF Recorded
  <2> HIDE DEF w
  <2>4. z \in Managed /\ z.phase = "brief"
    BY <2>3, BeginTurnFrame
  <2> HIDE DEF z
  <2>5. Call({}) \in TurnRun
    BY DEF Call, TurnRun
  <2>6. b \in Managed /\ b.phase \in {"brief", "reset"}
    BY <1>1, <2>2, <2>4, <2>5 DEF Managed
  <2> HIDE DEF b
  <2>7. Awake(FlushEnds(b))
    BY <2>6, FlushEndsAwake
  <2> QED BY <1>1, <2>7 DEF Becomes, b
<1>2. CASE x.phase = "none" /\ x.queue = {} /\ Becomes(FlushEnds(x))
  BY <1>2, FlushEndsAwake DEF Becomes, FlushStillWanted
<1>3. CASE Becomes(FlushSends(x, x.queue))
  <2>1. [x EXCEPT !.flush.at = "run", !.flush.batch = x.queue] \in Managed
    BY DEF Managed, FlushRun, FlushAt
  <2> QED BY <1>3, <2>1, StartsTurnAwake DEF Becomes, FlushSends
<1>4. CASE x.phase = "none"
           /\ Becomes([x EXCEPT !.flush.at = "cap", !.flush.batch = x.queue,
                                !.flush.cut = FALSE])
  <2> DEFINE y == [x EXCEPT !.flush.at = "cap", !.flush.batch = x.queue,
                             !.flush.cut = FALSE]
  <2>1. y.flush.at = "cap" /\ y.flush.batch = x.queue /\ y.queue = x.queue
        /\ y.phase = "none"
    BY <1>4 DEF Managed, FlushRun
  <2>2. m' = y
    BY <1>4 DEF Becomes
  <2> HIDE DEF y
  <2> QED BY <2>1, <2>2 DEF Awake
<1> QED BY <1>1, <1>2, <1>3, <1>4 DEF FlushProceeds

\* The steps of the flush lose no wakeup.
LEMMA FlushingAwake ==
  ASSUME Sound, Awake(m), Flushing
  PROVE  Awake(m')
<1>0. m \in Managed
  BY DEF Sound
<1>1. ~FlushStillWanted(m) \/ m.slot = "swap" => Awake(FlushEnds(m))
  BY <1>0, FlushEndsAwake
<1>2. ASSUME NEW at \in {"check", "sample", "abort", "recheck", "account", "ready"}
      PROVE  Awake([m EXCEPT !.flush.at = at])
  BY <1>0 DEF Awake, Managed, FlushRun
<1>3. Awake([m EXCEPT !.flush.at = "check", !.phase = "auto"])
  BY <1>0 DEF Awake, Managed, FlushRun
<1>4. CASE \/ FlushBegins \/ SampleArrives \/ FlushChecks \/ FlushRechecks
           \/ AccountChecked
  BY <1>1, <1>2, <1>3, <1>4 DEF FlushBegins, SampleArrives, FlushChecks,
     FlushRechecks, AccountChecked, Becomes
<1>5. CASE FlushReady
  <2>1. CASE FlushProceeds(m)
    BY <1>0, <2>1, FlushProceedsAwake
  <2>2. CASE m.slot = "swap" /\ Becomes(FlushEnds(m))
    BY <1>1, <2>2 DEF Becomes
  <2>3. CASE FlushProceeds([m EXCEPT !.slot = "live"])
    <3>1. [m EXCEPT !.slot = "live"] \in Managed
      BY <1>0, CloseSheds, ShedsTyped
    <3> QED BY <2>3, <3>1, FlushProceedsAwake
  <2>4. CASE Becomes(FlushEnds(UpdateState(m, "error")))
    <3> DEFINE u == UpdateState(m, "error")
    <3>1. u \in Managed /\ (u.state = "error" \/ ~u.alive)
      BY ZenonT(40), <1>0, UpdateStateFrame, UpdateStateSheds, ShedsTyped DEF OnlyFlow, States
    <3> HIDE DEF u
    <3>2. Awake(FlushEnds(u))
      BY <3>1, FlushEndsAwake DEF FlushStillWanted, IsQueueIdle
    <3> QED BY <2>4, <3>2 DEF Becomes, u
  <2> QED BY <1>5, <2>1, <2>2, <2>3, <2>4 DEF FlushReady
<1>6. CASE CapRead
  <2>1. CASE Becomes(FlushEnds([m EXCEPT !.flush.rerun = TRUE]))
    <3>1. [m EXCEPT !.flush.rerun = TRUE] \in Managed
      BY <1>0, RerunSheds, ShedsTyped
    <3>2. [m EXCEPT !.flush.rerun = TRUE].flush.rerun
      BY <1>0 DEF Managed, FlushRun
    <3> QED BY <2>1, <3>1, <3>2, FlushEndsAwake DEF Becomes
  <2>2. CASE ~FlushStillWanted(m) /\ Becomes(FlushEnds(m))
    BY <1>1, <2>2 DEF Becomes
  <2>3. ASSUME FlushStillWanted(m), NEW refused,
               Becomes(LET x == [m EXCEPT !.queue = @ \ refused]
                           batch == (m.flush.batch \ refused) \cap x.queue
                       IN IF batch = {} THEN FlushEnds(x)
                          ELSE FlushSends(x, batch))
        PROVE  Awake(m')
    <3> DEFINE x == [m EXCEPT !.queue = @ \ refused]
               batch == (m.flush.batch \ refused) \cap x.queue
               f == [x EXCEPT !.flush.at = "run", !.flush.batch = batch]
    <3>1. x \in Managed
      BY <1>0 DEF Managed
    <3>2. /\ x.queue = m.queue \ refused /\ x.phase = m.phase /\ x.slot = m.slot
          /\ x.flush = m.flush /\ x.gap = m.gap
      BY <1>0 DEF Managed
    <3>3. Becomes(IF batch = {} THEN FlushEnds(x) ELSE FlushSends(x, batch))
      BY <2>3
    <3>4. batch \in SUBSET Items
      BY <3>1 DEF Managed
    <3>5. m.flush.at = "cap"
      BY <1>6 DEF CapRead
    <3>6. batch = {} /\ Owed(x) => x.flush.rerun \/ Carried(x)
      BY <2>3, <3>2, <3>5 DEF Awake, FlushStillWanted
    <3> HIDE DEF x, batch
    <3>7. f \in Managed
      BY <3>1, <3>4 DEF Managed, FlushRun, FlushAt
    <3>8. Awake(FlushSends(x, batch))
      BY <3>7, StartsTurnAwake DEF FlushSends
    <3>9. batch = {} => Awake(FlushEnds(x))
      BY <3>1, <3>6, FlushEndsAwake
    <3> QED BY <3>3, <3>8, <3>9 DEF Becomes
  <2> QED BY <1>6, <2>1, <2>2, <2>3 DEF CapRead
<1> QED BY <1>4, <1>5, <1>6 DEF Flushing

\* The flush's call runs at the flush's turn.
LEMMA CallAtTurn ==
  ASSUME NEW x, NEW o \in Owners, CallsFit(x), x.run[o].at # "none"
  PROVE  AtTurn(x, o)
BY DEF AtTurn

\* The caller of a turn that ended.
LEMMA CallerToldAwake ==
  ASSUME NEW y \in Managed, NEW o \in Owners, NEW kind \in Failures, CallsFit(y),
         Awake(y)
  PROVE  Awake(Resolves(y, o)) /\ Awake(Rejects(y, o, kind))
<1>1. CASE y.run[o].at = "sent"
  <2>1. Resolves(y, o) = TurnDone(y, o) /\ Rejects(y, o, kind) = TurnFailed(y, o, kind)
    BY <1>1 DEF Resolves, Rejects
  <2>2. AtTurn(y, o)
    BY <1>1, CallAtTurn
  <2> QED BY <2>1, <2>2, TurnDoneAwake, TurnFailedAwake
<1>2. CASE y.run[o].at # "sent"
  <2>1. /\ Resolves(y, o) = [y EXCEPT !.run = [@ EXCEPT ![o].end = "done"]]
        /\ Rejects(y, o, kind) = [y EXCEPT !.run = [@ EXCEPT ![o].end = "fail"]]
    BY <1>2 DEF Resolves, Rejects
  <2> QED BY <2>1, SetRunAwake
<1> QED BY <1>1, <1>2

\* The steps of a call lose no wakeup.
LEMMA CallsAwake ==
  ASSUME Sound, Awake(m), NEW o \in Owners, NEW kind \in {"config", "error"},
         PresendEnds(o) \/ SendAccepted(o) \/ SendCut(o) \/ SendFails(o, kind)
  PROVE  Awake(m')
<1>1. m \in Managed /\ CallsFit(m)
  BY DEF Sound, Apart
<1>2. CASE PresendEnds(o)
  <2> DEFINE x == Supersede(m)
             v == [x EXCEPT !.pending = o, !.run[o].at = "sending"]
  <2>1. m.run[o].at = "presend"
        /\ m' \in {TurnSwapped(m, o, FALSE), TurnFailed(x, o, "error"), v}
    BY <1>2 DEF PresendEnds, Becomes
  <2>2. Awake(TurnSwapped(m, o, FALSE))
    BY <1>1, TurnSwappedAwake
  <2>3. x \in Managed /\ CallsFit(x) /\ Awake(x) /\ x.run[o].at = "presend"
    BY <1>1, <2>1, SupersedeSheds, SupersedeKeeps, SupersedeAwake DEF Sheds
  <2> HIDE DEF x
  <2>4. Awake(TurnFailed(x, o, "error"))
    BY <2>3, CallAtTurn, TurnFailedAwake DEF Failures
  <2>5. /\ v.alive = x.alive /\ v.queue = x.queue /\ v.phase = x.phase
        /\ v.holds = x.holds /\ v.state = x.state /\ v.flow = x.flow
        /\ v.gap = x.gap /\ v.slot = x.slot /\ v.flush = x.flush
    BY <2>3 DEF Managed
  <2> HIDE DEF v
  <2>6. Awake(v)
    BY <2>3, <2>5, SameAwake
  <2> QED BY <2>1, <2>2, <2>4, <2>6
<1>3. CASE SendAccepted(o)
  <2> DEFINE r == m.run[o]
             q == IF o = "flush" THEN m.queue \ r.items ELSE m.queue
             run == [m.run EXCEPT ![o].at = "sent", ![o].items = {}]
             w == [m EXCEPT !.queue = q]
             x == [m EXCEPT !.run[o].at = "sent", !.run[o].items = {},
                            !.queue = IF o = "flush" THEN @ \ r.items ELSE @]
  <2>1. r \in TurnRun /\ r.at = "sending" /\ r.end \in SentEnds
    BY <1>1, <1>3 DEF Managed, SendAccepted, EndFits
  <2>2. m' \in {x, TurnSwapped(x, o, FALSE), TurnDone(x, o),
                TurnFailed(x, o, "error")}
    BY <1>3, <2>1 DEF SendAccepted, SentEnds
  <2>3. run \in [Owners -> TurnRun]
    BY <1>1 DEF Managed, TurnRun
  <2>4. w \in Managed
    BY <1>1 DEF Managed
  <2>5. x = [w EXCEPT !.run = run]
    BY <1>1 DEF Managed
  <2>6. /\ w.alive = m.alive /\ w.queue = q /\ w.phase = m.phase
        /\ w.holds = m.holds /\ w.state = m.state /\ w.flow = m.flow
        /\ w.gap = m.gap /\ w.slot = m.slot /\ w.flush = m.flush
    BY <1>1 DEF Managed
  <2>7. o = "flush" => m.flush.at = "run"
    BY <1>1, <2>1
  <2>8. q \subseteq m.queue
    OBVIOUS
  <2> HIDE DEF w, run, q, x
  <2>9. Awake(w)
    BY <2>6, <2>7, <2>8 DEF Awake, FlushStillWanted
  <2>10. x \in Managed /\ x.flush = w.flush
    BY <2>3, <2>4, <2>5 DEF Managed
  <2>11. Awake(x) /\ AtTurn(x, o)
    BY <2>4, <2>5, <2>6, <2>7, <2>9, <2>10, SetRunAwake DEF AtTurn
  <2> QED BY <2>2, <2>10, <2>11, TurnSwappedAwake, TurnDoneAwake, TurnFailedAwake
          DEF Failures
<1>4. CASE SendCut(o)
  BY <1>1, <1>4, TurnSwappedAwake DEF SendCut, Becomes
<1>5. CASE SendFails(o, kind)
  <2> DEFINE x == IF m.pending = o THEN Settled(m) ELSE m
  <2>1. m' = TurnFailed(x, o, kind) /\ m.run[o].at # "none"
    BY <1>5 DEF SendFails, Becomes
  <2>2. x \in Managed /\ CallsFit(x) /\ Awake(x) /\ x.run = m.run
    BY <1>1, SettledSheds, SettledAwake, SettledFrame DEF Sheds
  <2> HIDE DEF x
  <2> QED BY <2>1, <2>2, CallAtTurn, TurnFailedAwake DEF Failures
<1> QED BY <1>2, <1>3, <1>4, <1>5

\* The end of the pending turn, by whatever cause, loses no wakeup.
LEMMA TurnEndsAwake ==
  ASSUME Sound, Awake(m), NEW kind \in {"completed", "failed", "capacity"},
         TurnEnds(kind)
  PROVE  Awake(m')
<1> DEFINE o == m.pending
           st == IF kind = "failed" THEN "error" ELSE "waiting"
           x == UpdateState(m, st)
           c == [x EXCEPT !.clock = FALSE]
           y == Settled(c)
<1>1. m \in Managed /\ CallsFit(m)
  BY DEF Sound, Apart
<1>2. o \in Owners
  BY <1>1 DEF Managed, TurnEnds
<1>3. x \in Managed /\ CallsFit(x) /\ Awake(x)
  BY <1>1, UpdateStateAwake, UpdateStateSheds DEF States, Sheds
<1>4. m' \in {Rejects(y, o, "capacity"), Resolves(y, o)}
  BY DEF TurnEnds, Becomes
<1> HIDE DEF x
<1>5. c \in Managed /\ CallsFit(c)
  BY <1>3, CloseSheds DEF Sheds
<1>6. Awake(c)
  <2>1. /\ c.alive = x.alive /\ c.queue = x.queue /\ c.phase = x.phase
        /\ c.holds = x.holds /\ c.state = x.state /\ c.flow = x.flow
        /\ c.gap = x.gap /\ c.slot = x.slot /\ c.flush = x.flush
    BY <1>3 DEF Managed
  <2> HIDE DEF c
  <2> QED BY <1>3, <2>1, SameAwake
<1> HIDE DEF c
<1>7. y \in Managed /\ CallsFit(y) /\ Awake(y)
  BY <1>5, <1>6, SettledSheds, SettledAwake DEF Sheds
<1> HIDE DEF y
<1> QED BY <1>2, <1>4, <1>7, CallerToldAwake DEF Failures

\* Activity of a turn and the end of the session's stream lose no wakeup.
LEMMA StreamAwake ==
  ASSUME Sound, Awake(m), StreamEnds \/ TurnActivity
  PROVE  Awake(m')
<1>1. m \in Managed /\ CallsFit(m)
  BY DEF Sound, Apart
<1>2. CASE TurnActivity
  BY <1>1, <1>2, UpdateStateAwake DEF TurnActivity, Becomes, States
<1>3. CASE StreamEnds
  <2> DEFINE o == m.pending
             b == BumpToken(m, "gone")
             c == [b EXCEPT !.clock = FALSE]
             d == [c EXCEPT !.slot = "none"]
             x == [b EXCEPT !.clock = FALSE, !.slot = "none", !.stamped = FALSE]
             s == Settled(x)
  <2>1. /\ m.slot = "live"
        /\ m' \in (IF o # "none" THEN {Rejects(s, o, "error")}
                   ELSE {UpdateState(x, "waiting"), x})
    BY <1>3 DEF StreamEnds, Becomes
  <2>2. o \in Owners \cup {"none"}
    BY <1>1 DEF Managed
  <2>3. b \in Managed /\ CallsFit(b) /\ Awake(b) /\ b.slot = "live"
    BY <1>1, <2>1, BumpTokenSheds, BumpTokenAwake, BumpTokenBumped DEF Sheds, Bumped
  <2> HIDE DEF b, o
  <2>a. x = [d EXCEPT !.stamped = FALSE]
    BY <2>3 DEF Managed
  <2>4. c \in Managed /\ CallsFit(c)
    BY <2>3, CloseSheds DEF Sheds
  <2>5. /\ x.alive = b.alive /\ x.queue = b.queue /\ x.phase = b.phase
        /\ x.holds = b.holds /\ x.state = b.state /\ x.flow = b.flow
        /\ x.gap = b.gap /\ x.flush = b.flush
    BY <2>3 DEF Managed
  <2> HIDE DEF c, x
  <2>6. d \in Managed /\ CallsFit(d)
    BY <2>4, CloseSheds DEF Sheds
  <2> HIDE DEF d
  <2>b. Awake(x)
    BY <2>3, <2>5, SameAwake
  <2>7. x \in Managed /\ CallsFit(x) /\ Awake(x)
    BY <2>a, <2>b, <2>6, CloseSheds DEF Sheds
  <2>8. s \in Managed /\ CallsFit(s) /\ Awake(s)
    BY <2>7, SettledSheds, SettledAwake DEF Sheds
  <2> HIDE DEF s
  <2>9. Awake(UpdateState(x, "waiting"))
    BY <2>7, UpdateStateAwake DEF States
  <2>10. o # "none" => Awake(Rejects(s, o, "error"))
    BY <2>2, <2>8, CallerToldAwake DEF Failures
  <2> QED BY <2>1, <2>7, <2>9, <2>10
<1> QED BY <1>2, <1>3

\* A swap that starts loses no wakeup.
LEMMA SwapsAwake ==
  ASSUME Sound, Awake(m),
         \/ SettingsSwap \/ ResumeSwaps \/ EditForks \/ EditRollsBack \/ AbortReplaces
  PROVE  Awake(m')
<1>1. m \in Managed
  BY DEF Sound
<1>2. CASE SettingsSwap \/ EditRollsBack
  BY <1>1, <1>2, SwapStartsAwake DEF SettingsSwap, EditRollsBack, Becomes
<1>3. CASE ResumeSwaps
  <2>1. [m EXCEPT !.resume = "swap", !.holds = @ \ {"backend"}] \in Managed
    BY <1>1 DEF Managed
  <2> QED BY <1>3, <2>1, SwapStartsAwake DEF ResumeSwaps, Becomes
<1>4. CASE EditForks
  <2>1. [m EXCEPT !.edit = "fork"] \in Managed
    BY <1>1, SetEditSheds, ShedsTyped
  <2> QED BY <1>4, <2>1, SwapStartsAwake DEF EditForks, Becomes
<1>5. CASE AbortReplaces
  <2>1. [m EXCEPT !.abort = "swap"] \in Managed
    BY <1>1, SetAbortSheds, ShedsTyped
  <2> QED BY <1>5, <2>1, SwapStartsAwake DEF AbortReplaces, Becomes
<1> QED BY <1>2, <1>3, <1>4, <1>5

\* The swap requests a flush, and so does its caller where it lifts a hold.
LEMMA SwapCallerAwake ==
  ASSUME NEW x \in Managed, NEW kind \in {"settings", "stop", "fork", "back", "resume"},
         Awake(x)
  PROVE  Awake(SwapCaller(x, kind))
<1>1. CASE kind = "settings"
  BY <1>1 DEF SwapCaller
<1>2. CASE kind = "stop"
  <2> DEFINE w == IF x.state = "error" THEN UpdateState(x, "waiting") ELSE x
  <2>1. SwapCaller(x, kind) = AbortDone(w)
    BY <1>2 DEF SwapCaller
  <2>2. w \in Managed /\ Awake(w)
    BY UpdateStateAwake, UpdateStateSheds, ShedsTyped DEF States
  <2> HIDE DEF w
  <2> QED BY <2>1, <2>2, AbortDoneAwake
<1>3. CASE kind = "resume"
  <2> DEFINE y == [x EXCEPT !.resume = "none"]
  <2>1. SwapCaller(x, kind) \in {ReleaseHold(y, "resume"), y}
    BY <1>3 DEF SwapCaller
  <2>2. y \in Managed /\ Awake(y)
    BY SetResumeAwake, SetResumeSheds, ShedsTyped
  <2> HIDE DEF y
  <2> QED BY <2>1, <2>2, ReleaseHoldAwake
<1>4. CASE kind = "fork"
  <2> DEFINE e == [x EXCEPT !.edit = "turn"]
             y == StartsTurn(e, "edit", x.run["edit"].items)
  <2>1. SwapCaller(x, kind) = ReleaseHold(y, "edit")
    BY <1>4 DEF SwapCaller
  <2>2. e \in Managed /\ x.run["edit"].items \in SUBSET Items
    BY SetEditSheds, ShedsTyped DEF Managed, TurnRun
  <2> HIDE DEF e
  <2>3. y \in Managed
    BY <2>2, StartsTurnSheds, ShedsTyped
  <2> HIDE DEF y
  <2> QED BY <2>1, <2>3, ReleaseHoldAwake
<1>5. CASE kind = "back"
  <2> DEFINE y == [x EXCEPT !.edit = "none"]
             z == IF x.edit = "unset" THEN HoldForBackend(y) ELSE UpdateState(y, "error")
  <2>1. SwapCaller(x, kind) = ReleaseHold(z, "edit")
    BY <1>5 DEF SwapCaller
  <2>2. y \in Managed
    BY SetEditSheds, ShedsTyped
  <2> HIDE DEF y
  <2>3. z \in Managed
    BY <2>2, HoldForBackendSheds, UpdateStateSheds, ShedsTyped DEF States
  <2> HIDE DEF z
  <2> QED BY <2>1, <2>3, ReleaseHoldAwake
<1> QED BY <1>1, <1>2, <1>3, <1>4, <1>5

\* The end of a swap requests the flush the swap carried.
LEMMA SwapEndsAwake ==
  ASSUME Sound, NEW built \in BOOLEAN, SwapEnds(built)
  PROVE  Awake(m')
<1> DEFINE sl == IF built THEN "live" ELSE "none"
           a == [m EXCEPT !.slot = sl, !.swap = "none"]
           p == [a EXCEPT !.phase = "none"]
           b == CASE m.swap = "resume" /\ "resume" \in m.holds ->
                       UpdateState([a EXCEPT !.phase = "none"], "waiting")
                  [] m.swap = "resume" /\ "resume" \notin m.holds ->
                       UpdateState(a, "waiting")
                  [] m.swap = "fork" -> [a EXCEPT !.phase = "none"]
                  [] OTHER -> a
           g == [b EXCEPT !.gap = IF built THEN @ ELSE @ \cup {"busy"}]
           c == IF /\ built /\ b.pending = "none"
                   /\ b.state = "busy" /\ ~b.clock
                  THEN UpdateState(b, "waiting") ELSE g
<1>1. /\ m \in Managed
      /\ m.swap \in {"settings", "stop", "fork", "back", "resume"}
  BY DEF Sound, SwapEnds, Apart, Managed
<1>2. m' = SwapCaller(RequestFlush(c), m.swap)
  BY DEF SwapEnds, Becomes
<1>3. a \in Managed
  BY <1>1, SetSlotSheds, ShedsTyped
<1>4. b \in {UpdateState(p, "waiting"), UpdateState(a, "waiting"), p, a}
  OBVIOUS
<1>5. c \in {UpdateState(b, "waiting"), g}
  OBVIOUS
<1> HIDE DEF a, b, c
<1>6. p \in Managed
  BY <1>3, SetPhaseSheds, ShedsTyped
<1> HIDE DEF p
<1>7. b \in Managed
  BY <1>3, <1>4, <1>6, UpdateStateSheds, ShedsTyped DEF States
<1>8. g \in Managed
  BY <1>7 DEF Managed
<1> HIDE DEF g
<1>9. c \in Managed
  BY <1>5, <1>7, <1>8, UpdateStateSheds, ShedsTyped DEF States
<1>10. RequestFlush(c) \in Managed /\ Awake(RequestFlush(c))
  BY <1>9, RequestFlushSheds, RequestFlushAwake, ShedsTyped
<1> QED BY <1>1, <1>2, <1>10, SwapCallerAwake

\* Stop, in each of its branches, loses no wakeup.
LEMMA StopAwake ==
  ASSUME Sound, Awake(m), Stop
  PROVE  Awake(m')
<1> DEFINE b == BumpToken(m, "stop")
           ph == IF b.phase = "asked" THEN "none" ELSE b.phase
           x == [b EXCEPT !.stamped = TRUE,
                          !.phase = IF @ = "asked" THEN "none" ELSE @]
           denied == [x EXCEPT !.flow = "none", !.gap = @ \cup {"flush"}]
           up == UpdateState(x, "waiting")
           fl == IF up.flow = "permission" THEN "none" ELSE up.flow
           ga == IF m.flow = "permission" THEN up.gap \cup {"flush"} ELSE up.gap
           end(ab) == [up EXCEPT !.flow = fl, !.gap = ga, !.abort = ab]
<1>1. m \in Managed
  BY DEF Sound
<1>2. m' \in {UpdateState(denied, "waiting"), up, x, end("hot"), end("replace")}
  BY DEF Stop, Becomes
<1>3. b \in Managed /\ Awake(b) /\ b.flow = m.flow
  BY <1>1, BumpTokenBumped, BumpTokenAwake DEF Bumped
<1> HIDE DEF b
<1>4. x \in Managed
  <2> DEFINE s == [b EXCEPT !.stamped = TRUE]
  <2>1. s \in Managed
    BY <1>3 DEF Managed
  <2>2. x = [s EXCEPT !.phase = ph]
    BY <1>3 DEF Managed
  <2>3. ph \in {"none", "brief", "reset", "asked", "auto"}
    BY <1>3 DEF Managed
  <2> HIDE DEF s, x, ph
  <2> QED BY <2>1, <2>2, <2>3, SetPhaseSheds, ShedsTyped
<1>5. /\ x.alive = b.alive /\ x.queue = b.queue /\ x.phase = ph
      /\ x.holds = b.holds /\ x.state = b.state /\ x.flow = b.flow
      /\ x.gap = b.gap /\ x.slot = b.slot /\ x.flush = b.flush
  BY <1>3 DEF Managed
<1> HIDE DEF x
<1>6. Awake(x)
  BY <1>3, <1>5 DEF Awake, FlushStillWanted
<1>7. up \in Managed /\ Awake(up) /\ up.flow = m.flow
  BY <1>3, <1>4, <1>5, <1>6, UpdateStateAwake, UpdateStateSheds, UpdateStateFrame,
     ShedsTyped DEF States, OnlyFlow
<1>8. Awake(UpdateState(denied, "waiting"))
  <2> DEFINE f == [x EXCEPT !.flow = "none"]
  <2>1. f \in Managed
    BY <1>4, SetFlowSheds, ShedsTyped
  <2>2. denied = [f EXCEPT !.gap = @ \cup {"flush"}]
    BY <1>4 DEF Managed
  <2> HIDE DEF f, denied
  <2>3. denied \in Managed /\ "flush" \in denied.gap
    BY <2>1, <2>2 DEF Managed
  <2> QED BY <2>3, NotOwedAwake, UpdateStateAwake DEF States
<1> HIDE DEF up
<1>9. ASSUME NEW ab PROVE Awake(end(ab))
  <2> DEFINE e == end(ab)
  <2>1. /\ e.alive = up.alive /\ e.queue = up.queue /\ e.phase = up.phase
        /\ e.holds = up.holds /\ e.state = up.state /\ e.flow = fl
        /\ e.gap = ga /\ e.slot = up.slot /\ e.flush = up.flush
    BY <1>7 DEF Managed
  <2> HIDE DEF e
  <2>2. CASE m.flow = "permission"
    <3>1. "flush" \in e.gap
      BY <2>1, <2>2
    <3> QED BY <3>1, NotOwedAwake DEF e
  <2>3. CASE m.flow # "permission"
    <3>1. e.flow = up.flow /\ e.gap = up.gap
      BY <1>7, <2>1, <2>3
    <3>2. Awake(e)
      BY <1>7, <2>1, <3>1, SameAwake
    <3> QED BY <3>2 DEF e
  <2> QED BY <2>2, <2>3
<1> HIDE DEF end
<1> QED BY <1>2, <1>6, <1>7, <1>8, <1>9

\* The ends of a Stop lose no wakeup.
LEMMA AbortStepsAwake ==
  ASSUME Sound, Awake(m), HotAbortEnds \/ HotAbortTimesOut \/ AbortFails
  PROVE  Awake(m')
<1>1. m \in Managed
  BY DEF Sound
<1>2. Awake([m EXCEPT !.abort = "replace"])
  BY <1>1 DEF Awake, FlushStillWanted, Managed
<1>3. CASE HotAbortEnds \/ HotAbortTimesOut
  BY <1>1, <1>2, <1>3, AbortDoneAwake DEF HotAbortEnds, HotAbortTimesOut, Becomes
<1>4. CASE AbortFails
  <2>1. StampError(m) \in Managed /\ Awake(StampError(m))
    BY <1>1, StampErrorAwake, StampErrorSheds, ShedsTyped
  <2> QED BY <1>4, <2>1, AbortDoneAwake DEF AbortFails, Becomes
<1> QED BY <1>3, <1>4

\* A message of an agent or a member, or an edit, loses no wakeup.
LEMMA SendsAwake ==
  ASSUME Sound, Awake(m), NEW i \in Items, AgentSends(i) \/ MemberSends(i) \/ Edit(i)
  PROVE  Awake(m')
<1>1. m \in Managed
  BY DEF Sound
<1>2. CASE AgentSends(i)
  BY <1>1, <1>2, EnqueueAwake DEF AgentSends
<1>3. CASE MemberSends(i)
  <2> DEFINE y == ReleaseBackendHold(m)
  <2>1. y \in Managed /\ Awake(y)
    BY <1>1, ReleaseBackendHoldAwake, ReleaseBackendHoldSheds, ShedsTyped
  <2>2. m' = [y EXCEPT !.typed = {i}]
    BY <1>3 DEF MemberSends
  <2> HIDE DEF y
  <2> QED BY <2>1, <2>2 DEF Awake, FlushStillWanted, Managed
<1>4. CASE Edit(i)
  <2>1. m' = [m EXCEPT !.holds = (@ \ {"backend"}) \cup {"edit"}, !.edit = "read",
                       !.run["edit"] = [NoRun EXCEPT !.items = {i}]]
    BY <1>4 DEF Edit
  <2>2. m'.holds # {}
    BY <1>1, <2>1 DEF Managed
  <2> QED BY <2>2, NotOwedAwake
<1> QED BY <1>2, <1>3, <1>4

\* A member's message that is routed, and the watchdog, lose no wakeup.
LEMMA RoutingAwake ==
  ASSUME Sound, Awake(m), Routing \/ Watchdog
  PROVE  Awake(m')
<1>1. m \in Managed
  BY DEF Sound
<1>2. CASE Watchdog
  BY <1>1, <1>2, RequestFlushAwake DEF Watchdog, Becomes
<1>3. CASE MemberRoutes
  <2> DEFINE x == [m EXCEPT !.typed = {}]
             i == CHOOSE i \in m.typed : TRUE
             call == [at |-> "wait", end |-> "open", items |-> m.typed]
  <2>1. x \in Managed
    BY <1>1 DEF Managed
  <2>2. i \in Items
    BY <1>1, <1>3 DEF MemberRoutes, Managed
  <2>3. m' \in {Enqueue(x, i), [BeginTurn(x) EXCEPT !.run["member"] = call]}
    BY <1>3 DEF MemberRoutes, Becomes
  <2> DEFINE z == BeginTurn(x)
  <2> HIDE DEF x, i, call
  <2>4. z \in Managed /\ Awake(z)
    BY <2>1, BusyAwake, BeginTurnSheds, ShedsTyped
  <2> HIDE DEF z
  <2>5. Awake(Enqueue(x, i))
    BY <2>1, <2>2, EnqueueAwake
  <2>6. Awake([z EXCEPT !.run["member"] = call])
    BY <2>4, EndRunAwake DEF call
  <2> QED BY <2>3, <2>5, <2>6 DEF z
<1>4. CASE MemberStarts
  <2> DEFINE x == [m EXCEPT !.slot = "live"]
  <2>1. m' \in {StartsTurn(x, "member", m.run["member"].items),
                [m EXCEPT !.run["member"] = NoRun]}
    BY <1>4 DEF MemberStarts, Becomes
  <2>2. x \in Managed
    BY <1>1, CloseSheds, ShedsTyped
  <2> HIDE DEF x
  <2> QED BY <1>1, <2>1, <2>2, StartsTurnAwake, EndRunAwake
<1> QED BY <1>2, <1>3, <1>4 DEF Routing

\* Prompts and picks that open, are answered or fail lose no wakeup.
LEMMA PromptsAwake ==
  ASSUME Sound, Awake(m),
         \/ PromptOpens \/ PromptAnswered \/ PromptWithdrawn \/ PromptReplyFails
         \/ PickOpens \/ PickAnswered
  PROVE  Awake(m')
<1>1. m \in Managed
  BY DEF Sound
<1>2. ASSUME NEW f \in {"none", "permission", "pick"}
      PROVE  [m EXCEPT !.flow = f] \in Managed /\ [m EXCEPT !.flow = f].flow = f
  BY <1>1, SetFlowSheds, ShedsTyped DEF Managed
<1>3. CASE PromptOpens \/ PickOpens
  <2>1. PICK f \in {"permission", "pick"} :
          m' = UpdateState([m EXCEPT !.flow = f], "waiting")
    BY <1>3 DEF PromptOpens, PickOpens, Becomes
  <2>2. Awake([m EXCEPT !.flow = f])
    BY <1>2, NotOwedAwake
  <2> QED BY <1>2, <2>1, <2>2, UpdateStateAwake DEF States
<1> DEFINE x == [m EXCEPT !.flow = "none"]
           u == UpdateState(x, "busy")
           n == [x EXCEPT !.gap = @ \cup {"flush"}]
<1>4. x \in Managed
  BY <1>2
<1> HIDE DEF x
<1>5. Awake(n)
  <2>1. "flush" \in n.gap
    BY <1>4 DEF Managed
  <2> QED BY <2>1, NotOwedAwake
<1>6. u \in Managed /\ Awake(u)
  <2>1. u \in Managed
    BY <1>4, UpdateStateSheds, ShedsTyped DEF States
  <2>2. x.alive => u.state = "busy"
    BY <1>4, UpdateStateFrame DEF States
  <2>3. ~x.alive => u = x
    BY DEF UpdateState
  <2> HIDE DEF u
  <2> QED BY <1>4, <2>1, <2>2, <2>3, NotOwedAwake DEF IsQueueIdle
<1> HIDE DEF u, n
<1>7. CASE PromptAnswered
  <2> DEFINE y == [u EXCEPT !.gap = IF m.pending = "none" THEN @ \cup {"busy"} ELSE @]
  <2>1. m' = RequestFlush(IF m.slot = "none" THEN x ELSE y)
    BY <1>7 DEF PromptAnswered, Becomes, x, u
  <2>2. y \in Managed
    BY <1>6 DEF Managed
  <2> HIDE DEF y
  <2> QED BY <1>4, <2>1, <2>2, RequestFlushAwake
<1>8. CASE PromptWithdrawn
  BY <1>5, <1>6, <1>8 DEF PromptWithdrawn, Becomes, x, u, n
<1>9. CASE PromptReplyFails
  <2>1. StampError(x) \in Managed
    BY <1>4, StampErrorSheds, ShedsTyped
  <2> QED BY <1>9, <2>1, RequestFlushAwake DEF PromptReplyFails, Becomes, x
<1>10. CASE PickAnswered
  <2>1. m' \in {RequestFlush(x), SwapStarts(x, "settings"), n}
    BY <1>10 DEF PickAnswered, Becomes, x, n
  <2> QED BY <1>4, <1>5, <2>1, RequestFlushAwake, SwapStartsAwake
<1> QED BY <1>3, <1>7, <1>8, <1>9, <1>10

\* newConversation requests a flush for the queue it gives back.
LEMMA NewConversationAwake ==
  ASSUME NEW x \in Managed
  PROVE  Awake(NewConversation(x))
<1> DEFINE a == [x EXCEPT !.flow = IF @ = "pick" THEN "none" ELSE @,
                          !.holds = @ \ {"backend"}, !.queue = {},
                          !.phase = "none"]
           u == UpdateState(a, "idle")
           t == Teardown(u)
           b == [t EXCEPT !.slot = "none", !.queue = x.queue]
           c == IF x.queue # {} THEN RequestFlush(b) ELSE b
<1>1. a \in Managed
  <2> DEFINE p == [x EXCEPT !.flow = IF @ = "pick" THEN "none" ELSE @]
             q == [p EXCEPT !.holds = x.holds \ {"backend"}]
             r == [q EXCEPT !.queue = {}]
  <2>1. a = [r EXCEPT !.phase = "none"]
    BY DEF Managed
  <2>2. p \in Managed
    BY DEF Managed
  <2>3. x.holds \ {"backend"} \in SUBSET {"backend", "edit", "resume"}
    BY DEF Managed
  <2> HIDE DEF p, a
  <2>4. q \in Managed
    BY <2>2, <2>3 DEF Managed
  <2> HIDE DEF q
  <2>5. r \in Managed
    BY <2>4 DEF Managed
  <2> HIDE DEF r
  <2> QED BY <2>1, <2>5, SetPhaseSheds, ShedsTyped
<1>2. a.phase = "none"
  BY DEF Managed
<1>3. NewConversation(x) = Swapped(c, x.pending)
  BY DEF NewConversation
<1> HIDE DEF a
<1>4. u \in Managed /\ u.phase = "none"
  BY <1>1, <1>2, UpdateStateSheds, UpdateStateFrame, ShedsTyped DEF States, OnlyFlow
<1> HIDE DEF u
<1>5. t \in Managed /\ t.phase = "none"
  <2> DEFINE k == BumpToken(u, "cut")
             y == [k EXCEPT !.clock = FALSE, !.stamped = FALSE]
             o == u.pending
  <2>1. t \in Managed
    BY <1>4, TeardownSheds, ShedsTyped
  <2>2. t = IF o = "none" THEN y
            ELSE Settled(IF y.run[o].at = "sent" THEN y
                         ELSE [y EXCEPT !.run[o].end = "cut"])
    BY DEF Teardown
  <2>3. k \in Managed /\ k.phase = "none"
    BY <1>4, BumpTokenBumped DEF Bumped
  <2> HIDE DEF k
  <2>4. y \in Managed
    BY <2>3 DEF Managed
  <2>5. y.phase = "none"
    BY <2>3 DEF Managed
  <2> HIDE DEF y, t, o
  <2>6. t.phase = "none"
    BY <2>2, <2>4, <2>5 DEF Settled, Managed
  <2> QED BY <2>1, <2>6
<1> HIDE DEF t
<1>6. x.queue \subseteq Items /\ x.pending \in Owners \cup {"none"}
  BY DEF Managed
<1>7. b \in Managed
  <2> DEFINE w == [t EXCEPT !.slot = "none"]
  <2>1. w \in Managed
    BY <1>5, CloseSheds, ShedsTyped
  <2>2. b = [w EXCEPT !.queue = x.queue]
    BY <1>5 DEF Managed
  <2> HIDE DEF w, b
  <2> QED BY <1>6, <2>1, <2>2 DEF Managed
<1>8. b.queue = x.queue /\ b.phase = "none"
  BY <1>5 DEF Managed
<1> HIDE DEF b
<1>9. c \in Managed /\ Awake(c)
  BY <1>7, <1>8, RequestFlushAwake, RequestFlushSheds, ShedsTyped, NotOwedAwake
<1> HIDE DEF c
<1> QED BY <1>3, <1>6, <1>9, SwappedAwake

\* Clear, handoffs and resumed conversations lose no wakeup.
LEMMA ConversationsAwake ==
  ASSUME Sound, Whole(m), Awake(m),
         Clear \/ AskHandoff \/ HandoffResets \/ MemberResumes \/ ResumeFails
  PROVE  Awake(m')
<1>1. m \in Managed /\ fresh \subseteq Items
  BY DEF Sound
<1>2. CASE Clear
  BY <1>1, <1>2, NewConversationAwake DEF Clear, Becomes
<1>3. CASE AskHandoff
  <2> DEFINE x == [m EXCEPT !.phase = "asked"]
             r == IF x.resume = "none" THEN "claimed" ELSE x.resume
  <2>1. x \in Managed
    BY <1>1, SetPhaseSheds, ShedsTyped
  <2>2. x.state = m.state /\ x.gap = m.gap
    BY <1>1 DEF Managed
  <2>3. \/ m' = x /\ (m.state = "busy" \/ m.pending # "none")
        \/ m' = [x EXCEPT !.resume = r] /\ m.state = "error"
        \/ m' = RequestFlush(ReleaseBackendHold(x))
    BY <1>3 DEF AskHandoff, Becomes
  <2>4. m.pending # "none" => ~IsQueueIdle(m.state) \/ "overlap" \in m.gap
    BY <1>3 DEF AskHandoff, SlotFree, Whole, Shown, Single
  <2> HIDE DEF x, r
  <2>5. m.state = "busy" \/ m.pending # "none" \/ m.state = "error" => Awake(x)
    BY <2>2, <2>4, NotOwedAwake DEF IsQueueIdle
  <2>6. ReleaseBackendHold(x) \in Managed
    BY <2>1, ReleaseBackendHoldSheds, ShedsTyped
  <2> QED BY <2>1, <2>3, <2>5, <2>6, SetResumeAwake, RequestFlushAwake
<1>4. CASE HandoffResets
  <2>1. CASE m' = FailAutoHandoff(m)
    BY <1>1, <2>1, BriefEndsAwake
  <2>2. ASSUME NEW i \in fresh, m' = NewConversation([m EXCEPT !.queue = @ \cup {i}])
        PROVE  Awake(m')
    <3>1. [m EXCEPT !.queue = @ \cup {i}] \in Managed
      BY <1>1 DEF Managed
    <3> QED BY <2>2, <3>1, NewConversationAwake
  <2> QED BY <1>4, <2>1, <2>2 DEF HandoffResets, Becomes
<1>5. CASE MemberResumes
  <2>1. m' = [m EXCEPT !.flow = IF @ = "pick" THEN "none" ELSE @,
                       !.holds = (@ \ {"backend"}) \cup {"resume"},
                       !.resume = "claimed"]
    BY <1>5 DEF MemberResumes, Becomes
  <2>2. m'.holds # {}
    BY <1>1, <2>1 DEF Managed
  <2> QED BY <2>2, NotOwedAwake
<1>6. CASE ResumeFails
  <2> DEFINE x == StampError([m EXCEPT !.resume = "none"])
  <2>1. m' \in {ReleaseHold(x, "resume"), x}
    BY <1>6 DEF ResumeFails, Becomes
  <2>2. [m EXCEPT !.resume = "none"] \in Managed
    BY <1>1, SetResumeSheds, ShedsTyped
  <2>3. x \in Managed /\ Awake(x)
    BY <2>2, StampErrorAwake, StampErrorSheds, ShedsTyped
  <2> HIDE DEF x
  <2> QED BY <2>1, <2>3, ReleaseHoldAwake
<1> QED BY <1>2, <1>3, <1>4, <1>5, <1>6

\* An edit that fails, demotion and kill lose no wakeup.
LEMMA ClosesAwake ==
  ASSUME Sound, Whole(m), Awake(m), EditFails \/ Demote \/ Kill
  PROVE  Awake(m')
<1>1. m \in Managed /\ m.pending \in Owners \cup {"none"}
  BY DEF Sound, Managed
<1>2. CASE EditFails
  <2> DEFINE e == [m EXCEPT !.edit = "none"]
             x == [m EXCEPT !.edit = "none", !.run["edit"] = NoRun]
  <2>1. m' \in {ReleaseHold(x, "edit"), ReleaseHold(StampError(x), "edit")}
    BY <1>2 DEF EditFails, Becomes
  <2>2. x = [e EXCEPT !.run["edit"] = NoRun]
    BY <1>1 DEF Managed
  <2> HIDE DEF x
  <2>3. e \in Managed
    BY <1>1, SetEditSheds, ShedsTyped
  <2> HIDE DEF e
  <2>4. x \in Managed
    BY <2>2, <2>3, EndRunSheds, ShedsTyped
  <2>5. StampError(x) \in Managed
    BY <2>4, StampErrorSheds, ShedsTyped
  <2> QED BY <2>1, <2>4, <2>5, ReleaseHoldAwake
<1>3. CASE Demote
  <2> DEFINE t == Teardown(m)
             x == [t EXCEPT !.slot = "none"]
  <2>1. m' = x /\ m.slot = "live"
    BY <1>3 DEF Demote, Becomes
  <2>2. TornKeeps(m, t) /\ Awake(t)
    BY <1>1, PendingCalled, TeardownTorn, TeardownAwake DEF Whole
  <2> HIDE DEF t
  <2>3. t \in Managed /\ t.slot = "live"
    BY <2>1, <2>2 DEF TornKeeps
  <2>4. /\ x.alive = t.alive /\ x.queue = t.queue /\ x.phase = t.phase
        /\ x.holds = t.holds /\ x.state = t.state /\ x.flow = t.flow
        /\ x.gap = t.gap /\ x.flush = t.flush
    BY <2>3 DEF Managed
  <2> HIDE DEF x
  <2> QED BY <2>1, <2>2, <2>3, <2>4, SameAwake
<1>4. CASE Kill
  <2> DEFINE t == Teardown([m EXCEPT !.flow = "none"])
             x == [t EXCEPT !.alive = FALSE, !.slot = "none", !.swap = "none",
                            !.edit = "none", !.resume = "none"]
  <2>1. m' = AbortDone(Swapped(x, m.pending))
    BY <1>4 DEF Kill, Becomes
  <2>2. [m EXCEPT !.flow = "none"] \in Managed
    BY <1>1, SetFlowSheds, ShedsTyped
  <2>3. t \in Managed
    BY <2>2, TeardownSheds, ShedsTyped
  <2> HIDE DEF t
  <2>4. x \in Managed
    <3> DEFINE a == [t EXCEPT !.alive = FALSE]
               b == [a EXCEPT !.slot = "none", !.swap = "none"]
               c == [b EXCEPT !.edit = "none"]
    <3>1. x = [c EXCEPT !.resume = "none"]
      BY <2>3 DEF Managed
    <3> HIDE DEF x
    <3>2. a \in Managed
      BY <2>3 DEF Managed
    <3> HIDE DEF a
    <3>3. b \in Managed
      BY <3>2, SetSlotSheds, ShedsTyped
    <3> HIDE DEF b
    <3>4. c \in Managed
      BY <3>3, SetEditSheds, ShedsTyped
    <3> HIDE DEF c
    <3> QED BY <3>1, <3>4, SetResumeSheds, ShedsTyped
  <2>5. ~x.alive
    BY <2>3 DEF Managed
  <2> HIDE DEF x
  <2>6. Swapped(x, m.pending) \in Managed /\ Awake(Swapped(x, m.pending))
    BY <1>1, <2>4, <2>5, SwappedAwake, SwappedSheds, ShedsTyped, NotOwedAwake
  <2> QED BY <2>1, <2>6, AbortDoneAwake
<1> QED BY <1>2, <1>3, <1>4

\* A new agent has an empty queue.
LEMMA InitAwake == Init => Awake(m)
BY DEF Init, InitAgent, Awake, FlushStillWanted

\* Every step keeps it, in the states of Sound whose turn is whole.
LEMMA NextAwake == Sound /\ Whole(m) /\ Awake(m) /\ [Next]_vars => Awake(m)'
<1> SUFFICES ASSUME Sound, Whole(m), Awake(m), [Next]_vars PROVE Awake(m')
  OBVIOUS
<1>1. CASE Turning
  BY <1>1, CallsAwake, TurnEndsAwake DEF Turning
<1>2. CASE Swapping
  BY <1>2, SwapEndsAwake, AbortStepsAwake, SwapsAwake, ConversationsAwake
     DEF Swapping
<1>3. CASE Environment
  BY <1>3, SendsAwake, CallsAwake, TurnEndsAwake, StreamAwake, SwapsAwake, StopAwake,
     AbortStepsAwake, RoutingAwake, PromptsAwake, ConversationsAwake, ClosesAwake
     DEF Environment
<1>4. CASE UNCHANGED vars
  BY <1>4 DEF vars
<1> QED BY <1>1, <1>2, <1>3, <1>4, FlushingAwake, RoutingAwake DEF Next, Progress

\* No wakeup is lost, for every set of messages and every number of
\* disturbances: an agent that could be flushed and has something to flush has
\* a flush, a swap or a handoff under way that will look at its queue, but for
\* the paths whose missed request the history records.
THEOREM WakeupsKept == Spec => []NoLostWakeup
<1>1. Awake(m) => NoLostWakeup
  BY DEF Awake, NoLostWakeup
<1> QED BY <1>1, InitSound, NextSound, InitWhole, NextWhole, InitAwake, NextAwake, PTL
        DEF Spec
=============================================================================
