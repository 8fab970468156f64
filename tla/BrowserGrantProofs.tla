------------------------- MODULE BrowserGrantProofs -------------------------
(***************************************************************************)
(* What BrowserGrant's runs check on small instances, for every number of  *)
(* agents, actions and events.                                             *)
(*                                                                         *)
(* The invariant Inv(s, 0) says of a state s: the actions are under way    *)
(* one after the other (InOrder); a fence belongs to an action that        *)
(* settles, and no later one is past the gate the fence closes (Fenced);   *)
(* an action's client, operation and settlement fit together (Fits); and   *)
(* an action that was answered for good is out of reach of the page        *)
(* (Silent). Inv(s, j) is the same without Silent for action j: it holds   *)
(* between two of the calls one handler makes for j.                       *)
(*                                                                         *)
(* A handler changes one action and what stands around it. Loses says that *)
(* it only took clients, commands and the fence away; Keeps that all       *)
(* actions but one, and their reach, are as before or less. Each operator  *)
(* of the model has a lemma that says which of the two it does and that it *)
(* keeps the invariant, each action one that follows from these.           *)
(***************************************************************************)
EXTENDS BrowserGrant, TLAPS

-----------------------------------------------------------------------------
(* The invariant.                                                          *)

\* Before its operation.
Early == {"queued", "muting", "recovery", "draining", "changing"}
\* Answers that promise nothing of the page: see Unsettled.
Unclear == {"ended", "refused", "overrun"}
\* Answers after which an action must send nothing more.
Final == {"ok", "failed", "detached", "timed_out", "closed", "not_sent"}
\* The operation leaves an office page, without a client.
Leaves == {"leave", "left"}

\* Action j has a command in flight.
Sent(s, j) == \E c \in s.pending : c.act = j

\* The phase, the clients and the map of sessions fit together, and a client
\* was attached by the action whose name it bears.
Shape(s) ==
  /\ s.kind = "attached" <=> s.peer # 0
  /\ s.fence # 0 => s.peer # 0
  /\ s.session # 0 => s.client[s.session] = "open"
  /\ s.peer # 0 => s.client[s.peer] \in {"open", "ending"}
  /\ \A k \in Actions : s.client[k] # "unused" => k \in DOMAIN s.act
  /\ DOMAIN s.act \subseteq Actions

\* No action before j has a command in flight or can send one.
Clear(s, j) ==
  \A i \in DOMAIN s.act : i < j =>
    s.act[i].pc \in Unclear \/ ~(Sent(s, i) \/ Reaches(s, i))

\* The actions before j are answered.
Ahead(s, j) == \A i \in DOMAIN s.act : i < j => s.act[i].pc \in Answers

\* An action begins once the earlier ones are answered, and its operation once
\* they are quiet.
InOrder(s) ==
  \A j \in DOMAIN s.act :
    /\ s.act[j].pc # "queued" => Ahead(s, j)
    /\ s.act[j].op # "none" => Clear(s, j)

\* A fence belongs to an action that settles, and no later one has passed it.
Fenced(s) ==
  s.fence # 0 =>
    /\ s.fence \in DOMAIN s.act
    /\ s.act[s.fence].settle = "waiting"
    /\ s.act[s.fence].pc \in Answers \cup {"settling"}
    /\ \A j \in DOMAIN s.act : j > s.fence =>
         s.act[j].pc \notin {"draining", "changing", "work", "settling"}

\* What an action holds fits its progress. The part that OneDriver needs most:
\* a settling action that still reaches the page holds the fence.
Fits(s, j) ==
  LET a == s.act[j]
  IN /\ a.pc \in Early => a.op = "none" /\ a.settle = "none"
     /\ a.pc = "work" => a.settle = "none"
     /\ a.pc \in {"settling", "timed_out", "still_settling"} =>
          a.settle # "none"
     /\ a.op \in {"none"} \cup Leaves => s.client[j] = "unused"
     /\ a.op \in Leaves => a.client = 0
     /\ a.op \in {"connecting", "working", "stray"} =>
          a.client # 0 /\ s.act[a.client].agent = a.agent
     /\ a.op = "connecting" => a.client = j /\ s.session # j
     /\ a.client # 0 => s.client[a.client] # "unused"
     /\ a.settle = "waiting" => (Reaches(s, j) => s.fence = j)
     /\ a.pc = "timed_out" => ~Sent(s, j)

\* An action that is answered for good, or has settled, is out of reach. A
\* settlement that will not retire the client begins out of reach.
Silent(s, j) ==
  LET a == s.act[j]
  IN /\ a.settle = "waiting" /\ ~a.retire => ~Reaches(s, j)
     /\ a.settle = "done" => ~Reaches(s, j)
     /\ a.pc \in Final => ~Reaches(s, j)
     /\ a.op \in Leaves =>
          a.settle = "none" /\ a.pc \in {"work"} \cup Unclear

\* The invariant, but for what Silent says of action x.
Inv(s, x) ==
  /\ s \in Tab /\ Shape(s) /\ InOrder(s) /\ Fenced(s)
  /\ \A j \in DOMAIN s.act : Fits(s, j)
  /\ \A j \in DOMAIN s.act : j # x => Silent(s, j)

\* A new peer is a new client, and a fence goes only with its client.
Steady(s, t) ==
  /\ t.peer # 0 => t.peer = s.peer \/ s.client[t.peer] = "unused"
  /\ \A k \in Actions : t.client[k] = "unused" => s.client[k] = "unused"
  /\ s.fence # 0 /\ t.peer = s.peer => t.fence = s.fence

\* Everything but action j.
Around(s, t, j) ==
  /\ t \in Tab /\ Shape(t)
  /\ DOMAIN t.act = DOMAIN s.act
  /\ \A i \in DOMAIN s.act : /\ t.act[i].agent = s.act[i].agent
                             /\ i # j => t.act[i] = s.act[i]
  /\ \A i \in DOMAIN s.act :
       i # j => /\ Sent(t, i) => Sent(s, i)
                /\ Reaches(t, i) => Reaches(s, i)
  /\ \A k \in Actions :
       /\ t.client[k] = "unused" => s.client[k] = "unused"
       /\ k # j => (s.client[k] = "unused" => t.client[k] = "unused")
  /\ t.fence \in {0, s.fence, j} /\ t.session \in {0, s.session, j}
  /\ \A i \in DOMAIN s.act :
       i # j /\ s.fence = i /\ Reaches(t, i) => t.fence = i

\* Around, and the fence as well.
Keeps(s, t, j) == Around(s, t, j) /\ Steady(s, t)

\* The step only takes away.
Loses(s, t) ==
  /\ t \in Tab /\ Shape(t) /\ t.act = s.act
  /\ t.pending \subseteq s.pending
  /\ \A k \in Actions :
       /\ t.client[k] = "unused" <=> s.client[k] = "unused"
       /\ t.client[k] \in {"open", "ending"} =>
            s.client[k] \in {"open", "ending"}
  /\ t.peer \in {0, s.peer}
  /\ t.fence \in {0, s.fence} /\ t.session \in {0, s.session}
  /\ t.peer = s.peer => t.fence = s.fence

-----------------------------------------------------------------------------
(* What a step may do.                                                     *)

\* The types of a tab's parts.
LEMMA TabFacts ==
  ASSUME NEW s \in Tab
  PROVE  /\ Len(s.act) \in Nat /\ DOMAIN s.act = 1..Len(s.act)
         /\ \A j \in DOMAIN s.act : s.act[j] \in Action
         /\ \A j \in DOMAIN s.act : j \in Nat
         /\ s.client \in [Actions -> {"unused", "open", "ending", "closed"}]
         /\ s.peer \in Actions \cup {0} /\ s.session \in Actions \cup {0}
         /\ s.fence \in Actions \cup {0} /\ 0 \notin Actions
BY DEF Tab, Actions

\* The tab with another record for action j.
LEMMA SetAct ==
  ASSUME NEW s \in Tab, NEW j \in DOMAIN s.act, NEW a \in Action
  PROVE  LET t == [s EXCEPT !.act[j] = a]
         IN /\ t \in Tab /\ DOMAIN t.act = DOMAIN s.act
            /\ t.act[j] = a
            /\ \A i \in DOMAIN s.act : i # j => t.act[i] = s.act[i]
<1>1. s.act \in Seq(Action)
  BY DEF Tab
<1>2. [s.act EXCEPT ![j] = a] \in Seq(Action)
  BY <1>1
<1> QED BY <1>1, <1>2 DEF Tab

\* What only loses keeps every action.
LEMMA LosesKeeps ==
  ASSUME NEW s \in Tab, NEW t, NEW j, Shape(s), Loses(s, t)
  PROVE  Keeps(s, t, j)
<1>1. \A i \in DOMAIN s.act :
        /\ Sent(t, i) => Sent(s, i)
        /\ Reaches(t, i) => Reaches(s, i) /\ t.peer = s.peer
  BY TabFacts DEF Loses, Sent, Reaches, Shape, Action
<1> QED BY <1>1, TabFacts DEF Keeps, Around, Steady, Loses, Shape

\* A step around all actions keeps the invariant.
LEMMA AroundInv ==
  ASSUME NEW s, NEW t, NEW x, Inv(s, x), Around(s, t, 0), Fenced(t)
  PROVE  Inv(t, x)
<1>1. /\ s \in Tab /\ t \in Tab /\ Shape(s) /\ Shape(t)
      /\ DOMAIN t.act = DOMAIN s.act
  BY DEF Inv, Around
<1>2. \A i \in DOMAIN s.act : i # 0 /\ i \in Actions
  BY <1>1, TabFacts DEF Shape
<1>3. /\ \A i \in DOMAIN s.act : t.act[i] = s.act[i]
      /\ \A i \in DOMAIN s.act : /\ Sent(t, i) => Sent(s, i)
                                 /\ Reaches(t, i) => Reaches(s, i)
      /\ \A i \in DOMAIN s.act : s.fence = i /\ Reaches(t, i) => t.fence = i
      /\ \A k \in Actions : t.client[k] = "unused" <=> s.client[k] = "unused"
  BY <1>1, <1>2, TabFacts DEF Around
<1>4. InOrder(t)
  BY <1>1, <1>3 DEF Inv, InOrder, Clear, Ahead
<1>5. ASSUME NEW j \in DOMAIN t.act PROVE Fits(t, j)
  <2>1. Fits(s, j) /\ j \in DOMAIN s.act /\ t.act[j] = s.act[j] /\ j \in Actions
    BY <1>1, <1>2, <1>3, <1>5 DEF Inv
  <2>2. s.act[j] \in Action
    BY <1>1, <2>1, TabFacts
  <2>3. s.act[j].client \in Actions \cup {0}
    BY <2>2 DEF Action
  <2>4. s.act[j].client # 0 => s.act[j].client \in DOMAIN s.act
    BY <1>1, <2>1, <2>3 DEF Fits, Shape
  <2>5. s.act[j].client # 0 =>
          t.act[s.act[j].client].agent = s.act[s.act[j].client].agent
    BY <1>3, <2>4
  <2>6. t.session = j => s.session = j
    BY <1>2, <2>1 DEF Around
  <2> QED BY <1>3, <2>1, <2>3, <2>5, <2>6 DEF Fits
<1>6. \A j \in DOMAIN t.act : j # x => Silent(t, j)
  BY <1>1, <1>3 DEF Inv, Silent
<1> QED BY <1>1, <1>4, <1>5, <1>6 DEF Inv

\* A step that only loses keeps the invariant.
LEMMA LosesInv ==
  ASSUME NEW s, NEW t, NEW x, Inv(s, x), Loses(s, t)
  PROVE  Inv(t, x)
<1>1. Around(s, t, 0)
  BY LosesKeeps DEF Inv, Keeps
<1>2. Fenced(t)
  BY DEF Inv, Fenced, Loses
<1> QED BY <1>1, <1>2, AroundInv

\* A step of action j keeps the invariant, when action j itself still fits.
LEMMA KeepsInv ==
  ASSUME NEW s, NEW t, NEW j \in DOMAIN s.act, NEW x \in {0, j},
         Inv(s, x), Around(s, t, j),
         t.act[j].pc # "queued" => Ahead(s, j),
         t.act[j].op # "none" => s.act[j].op # "none" \/ Clear(s, j),
         s.act[j].pc \in Answers =>
           /\ t.act[j].pc = s.act[j].pc
           /\ \/ s.act[j].pc \in Unclear
              \/ Sent(t, j) \/ Reaches(t, j) => Sent(s, j) \/ Reaches(s, j),
         Fits(t, j), Fenced(t)
  PROVE  Inv(t, j)
<1>1. /\ s \in Tab /\ t \in Tab /\ Shape(s) /\ Shape(t) /\ InOrder(s)
      /\ DOMAIN t.act = DOMAIN s.act
      /\ \A i \in DOMAIN s.act : i # j => t.act[i] = s.act[i]
      /\ \A i \in DOMAIN s.act : t.act[i].agent = s.act[i].agent
  BY DEF Inv, Around
<1>2. ASSUME NEW i \in DOMAIN s.act, i # j
      PROVE  /\ Sent(t, i) => Sent(s, i)
             /\ Reaches(t, i) => Reaches(s, i)
             /\ s.fence = i /\ Reaches(t, i) => t.fence = i
  BY <1>2 DEF Around
<1>3. ASSUME NEW k \in DOMAIN t.act PROVE t.act[k].pc # "queued" => Ahead(t, k)
  <2>1. CASE k = j
    BY <1>1, <2>1, TabFacts DEF Ahead
  <2>2. CASE k # j
    BY <1>1, <1>3, <2>2 DEF Ahead, InOrder
  <2> QED BY <2>1, <2>2
<1>4. ASSUME NEW k \in DOMAIN t.act PROVE t.act[k].op # "none" => Clear(t, k)
  <2>1. CASE k = j
    <3>1. t.act[j].op # "none" => Clear(s, j)
      BY <1>1, <2>1 DEF InOrder
    <3> QED BY <1>1, <1>2, <2>1, <3>1, TabFacts DEF Clear
  <2>2. ASSUME k # j, t.act[k].op # "none" PROVE Clear(t, k)
    <3>1. Clear(s, k) /\ s.act[k].op # "none" /\ Fits(s, k)
      BY <1>1, <1>4, <2>2 DEF InOrder, Inv
    <3>2. s.act[k].pc # "queued"
      BY <3>1 DEF Fits, Early
    <3>3. Ahead(s, k)
      BY <1>1, <1>4, <2>2, <3>2 DEF InOrder
    <3>4. ASSUME NEW i \in DOMAIN t.act, i < k
          PROVE  t.act[i].pc \in Unclear \/ ~(Sent(t, i) \/ Reaches(t, i))
      <4>1. CASE i # j
        BY <1>1, <1>2, <3>1, <3>4, <4>1 DEF Clear
      <4>2. CASE i = j
        <5>1. s.act[j].pc \in Answers
          BY <1>1, <3>3, <3>4, <4>2 DEF Ahead
        <5> QED BY <1>1, <3>1, <3>4, <4>2, <5>1 DEF Clear
      <4> QED BY <4>1, <4>2
    <3> QED BY <3>4 DEF Clear
  <2> QED BY <2>1, <2>2
<1>5. ASSUME NEW k \in DOMAIN t.act, k # j PROVE Fits(t, k)
  <2>1. Fits(s, k) /\ k \in Actions /\ t.act[k] = s.act[k] /\ k \in DOMAIN s.act
    BY <1>1, <1>5 DEF Inv, Shape
  <2>2. s.act[k] \in Action
    BY <1>1, <1>5, TabFacts
  <2>3. s.act[k].client \in Actions \cup {0}
    BY <2>2 DEF Action
  <2>4. \A i \in Actions : t.client[i] = "unused" => s.client[i] = "unused"
    BY DEF Around
  <2>5. s.client[k] = "unused" => t.client[k] = "unused"
    BY <1>5, <2>1 DEF Around
  <2>6. /\ Sent(t, k) => Sent(s, k)
        /\ Reaches(t, k) => Reaches(s, k)
        /\ s.fence = k /\ Reaches(t, k) => t.fence = k
    BY <1>2, <1>5, <2>1
  <2>7. s.act[k].client # 0 => s.act[k].client \in DOMAIN s.act
    BY <1>1, <2>1, <2>3 DEF Fits, Shape
  <2>8. s.act[k].client # 0 =>
          t.act[s.act[k].client].agent = s.act[s.act[k].client].agent
    BY <1>1, <2>7
  <2>9. t.session = k => s.session = k
    BY <1>1, <1>5, <2>1, TabFacts DEF Around
  <2> QED BY <2>1, <2>3, <2>4, <2>5, <2>6, <2>8, <2>9 DEF Fits
<1>6. ASSUME NEW k \in DOMAIN t.act, k # j PROVE Silent(t, k)
  <2>1. Silent(s, k)
    BY <1>1, <1>6, TabFacts DEF Inv
  <2> QED BY <1>1, <1>2, <1>6, <2>1 DEF Silent
<1>7. InOrder(t)
  BY <1>3, <1>4 DEF InOrder
<1> QED BY <1>1, <1>5, <1>6, <1>7 DEF Inv

\* The exemption ends when its action is silent again.
LEMMA Closing ==
  ASSUME NEW s, NEW j, Inv(s, j), j \in DOMAIN s.act => Silent(s, j)
  PROVE  Inv(s, 0)
BY DEF Inv

\* An action that cannot reach the page is silent.
LEMMA OutOfReach ==
  ASSUME NEW s, NEW j, ~Reaches(s, j), s.act[j].op \notin Leaves
  PROVE  Silent(s, j)
BY DEF Silent

\* Steps compose.
LEMMA SteadyTrans ==
  ASSUME NEW s \in Tab, NEW t \in Tab, NEW u \in Tab, Shape(s),
         Steady(s, t), Steady(t, u)
  PROVE  Steady(s, u)
BY TabFacts DEF Steady, Shape

\* Steps of one action compose.
LEMMA KeepsTrans ==
  ASSUME NEW s \in Tab, NEW t \in Tab, NEW u, NEW j, Shape(s), Shape(t),
         Keeps(s, t, j), Keeps(t, u, j)
  PROVE  Keeps(s, u, j)
<1>1. Steady(s, u)
  BY SteadyTrans DEF Keeps, Around
<1>2. Around(s, u, j)
  BY <1>1, TabFacts DEF Keeps, Around
<1> QED BY <1>1, <1>2 DEF Keeps

\* Losses compose.
LEMMA LosesTrans ==
  ASSUME NEW s, NEW t, NEW u, Loses(s, t), Loses(t, u), s \in Tab, Shape(s)
  PROVE  Loses(s, u)
BY DEF Loses, Shape

-----------------------------------------------------------------------------
(* Steps that only lose.                                                   *)

\* enter(): the phase goes with its peer and its fence.
LEMMA PhaseLoses ==
  ASSUME NEW s \in Tab, Shape(s),
         NEW next \in {"offered", "recovering", "released"}
  PROVE  Loses(s, [s EXCEPT !.kind = next, !.peer = 0, !.fence = 0])
<1> DEFINE t == [s EXCEPT !.kind = next, !.peer = 0, !.fence = 0]
<1>1. t \in Tab
  BY DEF Tab
<1>2. /\ t.kind = next /\ t.peer = 0 /\ t.fence = 0 /\ t.act = s.act
      /\ t.pending = s.pending /\ t.client = s.client /\ t.session = s.session
  BY DEF Tab
<1> HIDE DEF t
<1>3. Loses(s, t)
  BY <1>1, <1>2 DEF Loses, Shape
<1> QED BY <1>3 DEF t

\* Commands leave the flight.
LEMMA PendingLoses ==
  ASSUME NEW s \in Tab, Shape(s), NEW p \in SUBSET s.pending
  PROVE  Loses(s, [s EXCEPT !.pending = p])
<1> DEFINE t == [s EXCEPT !.pending = p]
<1>1. t \in Tab
  BY DEF Tab
<1>2. /\ t.kind = s.kind /\ t.peer = s.peer /\ t.fence = s.fence
      /\ t.act = s.act /\ t.pending = p /\ t.client = s.client
      /\ t.session = s.session
  BY DEF Tab
<1> HIDE DEF t
<1>3. Loses(s, t)
  BY <1>1, <1>2 DEF Loses, Shape
<1> QED BY <1>3 DEF t

\* end() only loses.
LEMMA EndLoses ==
  ASSUME NEW s \in Tab, Shape(s)
  PROVE  /\ Loses(s, End(s)) /\ End(s).peer = s.peer
         /\ End(s).kind = s.kind /\ End(s).pending = s.pending
<1>1. CASE s.session = 0
  BY <1>1 DEF End, Loses
<1>2. CASE s.session # 0
  <2> DEFINE t == [s EXCEPT !.session = 0, !.client[s.session] = "ending"]
  <2>1. End(s) = t /\ s.session \in Actions /\ s.client[s.session] = "open"
    BY <1>2, TabFacts DEF End, Shape
  <2>2. t \in Tab
    BY <2>1 DEF Tab
  <2>3. /\ t.kind = s.kind /\ t.peer = s.peer /\ t.fence = s.fence
        /\ t.act = s.act /\ t.pending = s.pending /\ t.session = 0
        /\ t.client = [s.client EXCEPT ![s.session] = "ending"]
    BY DEF Tab
  <2>4. \A k \in Actions :
          t.client[k] = IF k = s.session THEN "ending" ELSE s.client[k]
    BY <2>3, TabFacts
  <2> HIDE DEF t
  <2> QED BY <2>1, <2>2, <2>3, <2>4, TabFacts DEF Loses, Shape
<1> QED BY <1>1, <1>2

\* The transport closed, before its action is told.
Shut(s, k) ==
  LET t == [s EXCEPT !.client[k] = "closed", !.session = IF @ = k THEN 0 ELSE @]
  IN IF t.peer = k THEN Enter(t, {"attached"}, "offered") ELSE t

\* The transport's close() only loses, but for what it tells the action.
LEMMA ShutLoses ==
  ASSUME NEW s \in Tab, Shape(s), NEW k \in Actions,
         s.client[k] \in {"open", "ending"}
  PROVE  /\ Loses(s, Shut(s, k)) /\ Shut(s, k).client[k] = "closed"
         /\ Shut(s, k).peer = IF s.peer = k THEN 0 ELSE s.peer
<1> DEFINE se == IF s.session = k THEN 0 ELSE s.session
           t == [s EXCEPT !.client[k] = "closed", !.session = se]
           u == [t EXCEPT !.kind = "offered", !.peer = 0, !.fence = 0]
<1>1. t \in Tab
  BY TabFacts DEF Tab
<1>2. /\ t.kind = s.kind /\ t.peer = s.peer /\ t.fence = s.fence
      /\ t.act = s.act /\ t.pending = s.pending /\ t.session = se
      /\ t.client = [s.client EXCEPT ![k] = "closed"]
  BY DEF Tab
<1>3. \A i \in Actions : t.client[i] = IF i = k THEN "closed" ELSE s.client[i]
  BY <1>2, TabFacts
<1>4. Shut(s, k) = IF s.peer = k THEN u ELSE t
  <2>1. t = [s EXCEPT !.client[k] = "closed",
                      !.session = IF @ = k THEN 0 ELSE @]
    BY DEF Tab
  <2> HIDE DEF t
  <2>2. s.peer = k => t.kind = "attached"
    BY <1>2, TabFacts DEF Shape
  <2> QED BY <1>2, <2>1, <2>2 DEF Shut, Enter
<1> HIDE DEF t
<1>5. CASE s.peer = k
  <2>1. u \in Tab
    BY <1>1 DEF Tab
  <2>2. /\ u.kind = "offered" /\ u.peer = 0 /\ u.fence = 0
        /\ u.act = s.act /\ u.pending = s.pending /\ u.session = se
        /\ u.client = t.client
    BY <1>1, <1>2 DEF Tab
  <2> HIDE DEF u
  <2> QED BY <1>3, <1>4, <1>5, <2>1, <2>2, TabFacts DEF Loses, Shape
<1>6. CASE s.peer # k
  BY <1>1, <1>2, <1>3, <1>4, <1>6, TabFacts DEF Loses, Shape
<1> QED BY <1>5, <1>6

\* No operation is awaited.
Idle(s) == \A j \in DOMAIN s.act : s.act[j].pc # "work"

\* The actions that work on client k.
On(s, k) == {j \in DOMAIN s.act : s.act[j].pc = "work" /\ s.act[j].client = k}

\* close(), in terms of Shut and of what its action is told.
LEMMA CloseIs ==
  ASSUME NEW s \in Tab, Shape(s), NEW k \in Actions \cup {0}
  PROVE  \/ /\ k = 0 \/ s.client[k] \notin {"open", "ending"}
            /\ CloseTransport(s, k) = s
         \/ /\ k \in Actions /\ s.client[k] \in {"open", "ending"}
            /\ CloseTransport(s, k) =
                 IF On(s, k) = {} THEN Shut(s, k)
                 ELSE OnEnd(Shut(s, k), Max(On(s, k)))
<1>1. CASE k = 0 \/ s.client[k] \notin {"open", "ending"}
  BY <1>1 DEF CloseTransport
<1>2. CASE k # 0 /\ s.client[k] \in {"open", "ending"}
  <2>1. Shut(s, k).act = s.act
    BY <1>2, ShutLoses DEF Loses
  <2>2. CloseTransport(s, k) = IF On(s, k) = {} THEN Shut(s, k)
                               ELSE OnEnd(Shut(s, k), Max(On(s, k)))
    BY <1>2, <2>1 DEF CloseTransport, Shut, On
  <2> QED BY <1>2, <2>2
<1> QED BY <1>1, <1>2

\* To lose nothing is to lose.
LEMMA LosesSelf ==
  ASSUME NEW s \in Tab, Shape(s)
  PROVE  Loses(s, s)
BY DEF Loses

\* With no operation awaited, close() only loses.
LEMMA CloseLoses ==
  ASSUME NEW s \in Tab, Shape(s), NEW k \in Actions \cup {0}, Idle(s)
  PROVE  /\ Loses(s, CloseTransport(s, k))
         /\ k # 0 => CloseTransport(s, k).peer # k
<1>1. CASE /\ k = 0 \/ s.client[k] \notin {"open", "ending"}
           /\ CloseTransport(s, k) = s
  BY <1>1, LosesSelf DEF Shape
<1>2. CASE /\ k \in Actions /\ s.client[k] \in {"open", "ending"}
           /\ CloseTransport(s, k) = IF On(s, k) = {} THEN Shut(s, k)
                                     ELSE OnEnd(Shut(s, k), Max(On(s, k)))
  <2>1. On(s, k) = {}
    BY DEF Idle, On
  <2>2. CloseTransport(s, k) = Shut(s, k)
    BY <1>2, <2>1
  <2> QED BY <1>2, <2>2, ShutLoses, TabFacts
<1> QED BY <1>1, <1>2, CloseIs

\* The grant without its commands and its client.
Cut(s) == Enter([s EXCEPT !.pending = {}], {"attached"}, "offered")

\* What retireClient does before the close.
LEMMA CutLoses ==
  ASSUME NEW s \in Tab, Shape(s)
  PROVE  Loses(s, Cut(s)) /\ Cut(s).peer = 0 /\ Cut(s).pending = {}
<1> DEFINE t == [s EXCEPT !.pending = {}]
           u == [t EXCEPT !.kind = "offered", !.peer = 0, !.fence = 0]
<1>1. Loses(s, t)
  BY PendingLoses
<1>2. t.kind = s.kind /\ t.peer = s.peer /\ t.pending = {}
  BY DEF Tab
<1>3. Cut(s) = IF s.kind = "attached" THEN u ELSE t
  BY <1>2 DEF Cut, Enter
<1> HIDE DEF t
<1>4. t \in Tab /\ Shape(t)
  BY <1>1 DEF Loses
<1>5. Loses(t, u) /\ u.peer = 0 /\ u.pending = t.pending
  BY <1>4, PhaseLoses DEF Tab
<1> HIDE DEF u
<1>6. CASE s.kind = "attached"
  BY <1>1, <1>2, <1>3, <1>5, <1>6, LosesTrans
<1>7. CASE s.kind # "attached"
  BY <1>1, <1>2, <1>3, <1>7 DEF Shape
<1> QED BY <1>6, <1>7

\* The grant that is over, before its client is told.
Gone(s) ==
  [s EXCEPT !.kind = "released", !.peer = 0, !.fence = 0, !.pending = {}]

\* What the end of a phase does before the close.
LEMMA GoneLoses ==
  ASSUME NEW s \in Tab, Shape(s), NEW next \in {"recovering", "released"}
  PROVE  Loses(s, [s EXCEPT !.kind = next, !.peer = 0, !.fence = 0,
                            !.pending = {}])
<1> DEFINE t == [s EXCEPT !.pending = {}]
           u == [t EXCEPT !.kind = next, !.peer = 0, !.fence = 0]
<1>1. Loses(s, t)
  BY PendingLoses
<1>2. u = [s EXCEPT !.kind = next, !.peer = 0, !.fence = 0, !.pending = {}]
  BY DEF Tab
<1> HIDE DEF t
<1>3. t \in Tab /\ Shape(t)
  BY <1>1 DEF Loses
<1>4. Loses(t, u)
  BY <1>3, PhaseLoses
<1> HIDE DEF u
<1> QED BY <1>1, <1>2, <1>4, LosesTrans

\* A loss begins no operation.
LEMMA LosesIdle ==
  ASSUME NEW s, NEW t, Loses(s, t), Idle(s)
  PROVE  Idle(t)
BY DEF Loses, Idle

\* With no operation awaited, retireClient only loses.
LEMMA RetireClientLoses ==
  ASSUME NEW s \in Tab, Shape(s), Idle(s)
  PROVE  /\ Loses(s, RetireClient(s)) /\ RetireClient(s).peer = 0
         /\ s.pending = {} => RetireClient(s).pending = {}
<1>1. CASE s.kind = "released"
  BY <1>1, LosesSelf DEF RetireClient, Shape
<1>2. CASE s.kind # "released"
  <2>1. RetireClient(s) = CloseTransport(Cut(s), s.peer)
    BY <1>2 DEF RetireClient, Cut
  <2>2. Loses(s, Cut(s)) /\ Cut(s).peer = 0
    BY CutLoses
  <2>3. Cut(s) \in Tab /\ Shape(Cut(s)) /\ Idle(Cut(s))
    BY <2>2, LosesIdle DEF Loses
  <2>4. Loses(Cut(s), CloseTransport(Cut(s), s.peer))
    BY <2>3, CloseLoses, TabFacts
  <2>5. Loses(s, RetireClient(s))
    BY <2>1, <2>2, <2>4, LosesTrans
  <2> QED BY <2>1, <2>2, <2>4, <2>5 DEF Loses
<1> QED BY <1>1, <1>2

\* With no operation awaited, a retirement only loses.
LEMMA RetireLoses ==
  ASSUME NEW s \in Tab, Shape(s), Idle(s)
  PROVE  /\ Loses(s, Retire(s)) /\ Retire(s).peer = 0
         /\ s.pending = {} => Retire(s).pending = {}
<1> DEFINE t == RetireClient(s)
<1>1. Loses(s, t) /\ t.peer = 0 /\ (s.pending = {} => t.pending = {})
  BY RetireClientLoses
<1>2. t \in Tab /\ Shape(t)
  BY <1>1 DEF Loses
<1>3. Retire(s) = End(t)
  BY DEF Retire
<1> HIDE DEF t
<1>4. Loses(t, End(t)) /\ End(t).peer = t.peer /\ End(t).pending = t.pending
  BY <1>2, EndLoses
<1> QED BY <1>1, <1>3, <1>4, LosesTrans

\* With no operation awaited, a release only loses.
LEMMA ReleaseLoses ==
  ASSUME NEW s \in Tab, Shape(s), Idle(s)
  PROVE  Loses(s, Release(s))
<1>1. Loses(s, Gone(s)) /\ Release(s) = CloseTransport(Gone(s), s.peer)
  BY GoneLoses DEF Gone, Release
<1>2. Gone(s) \in Tab /\ Shape(Gone(s)) /\ Idle(Gone(s))
  BY <1>1, LosesIdle DEF Loses
<1>3. Loses(Gone(s), CloseTransport(Gone(s), s.peer))
  BY <1>2, CloseLoses, TabFacts
<1> QED BY <1>1, <1>3, LosesTrans

-----------------------------------------------------------------------------
(* The operators of the grant.                                             *)

\* One action changes and nothing else.
LEMMA OnlyAct ==
  ASSUME NEW s, NEW x, Inv(s, x), NEW j \in DOMAIN s.act, NEW a \in Action,
         a.agent = s.act[j].agent
  PROVE  LET t == [s EXCEPT !.act[j] = a]
         IN /\ Keeps(s, t, j) /\ t.act[j] = a
            /\ t.peer = s.peer /\ t.fence = s.fence /\ t.pending = s.pending
            /\ t.client = s.client /\ t.kind = s.kind /\ t.session = s.session
            /\ t.access = s.access /\ t.rival = s.rival
<1> DEFINE t == [s EXCEPT !.act[j] = a]
<1>1. s \in Tab /\ Shape(s)
  BY DEF Inv
<1>2. /\ t \in Tab /\ DOMAIN t.act = DOMAIN s.act
      /\ t.act[j] = a /\ \A i \in DOMAIN s.act : i # j => t.act[i] = s.act[i]
  BY <1>1, SetAct
<1>3. /\ t.peer = s.peer /\ t.fence = s.fence /\ t.pending = s.pending
      /\ t.client = s.client /\ t.kind = s.kind /\ t.session = s.session
      /\ t.access = s.access /\ t.rival = s.rival
  BY <1>1 DEF Tab
<1> HIDE DEF t
<1>4. \A i \in DOMAIN s.act :
        i # j => (Sent(t, i) => Sent(s, i)) /\ (Reaches(t, i) => Reaches(s, i))
  BY <1>2, <1>3 DEF Sent, Reaches
<1>5. Shape(t)
  BY <1>1, <1>2, <1>3 DEF Shape
<1>6. Around(s, t, j)
  BY <1>2, <1>3, <1>4, <1>5 DEF Around
<1>7. Steady(s, t)
  BY <1>3 DEF Steady
<1> QED BY <1>2, <1>3, <1>6, <1>7 DEF Keeps, t

\* An answer keeps the invariant, but for what it promises.
LEMMA AnswerInv ==
  ASSUME NEW s, NEW j \in DOMAIN s.act, NEW x \in {0, j}, Inv(s, x),
         s.act[j].pc \notin Answers, Ahead(s, j), NEW r \in Answers,
         r \in {"timed_out", "still_settling"} => s.act[j].settle # "none",
         r = "timed_out" => ~Sent(s, j)
  PROVE  LET t == Answer(s, j, r)
         IN /\ Inv(t, j) /\ Keeps(s, t, j)
            /\ t.act[j] = [s.act[j] EXCEPT !.pc = r]
            /\ t.peer = s.peer /\ t.client = s.client
            /\ Reaches(t, j) <=> Reaches(s, j)
<1> DEFINE a == [s.act[j] EXCEPT !.pc = r]
           t == [s EXCEPT !.act[j] = a]
<1>1. s \in Tab /\ s.act[j] \in Action
  BY TabFacts DEF Inv
<1>2. a \in Action /\ a.agent = s.act[j].agent
  BY <1>1 DEF Action
<1>3. /\ a.pc = r /\ a.op = s.act[j].op /\ a.client = s.act[j].client
      /\ a.settle = s.act[j].settle /\ a.retire = s.act[j].retire
  BY <1>1 DEF Action
<1>4. Answer(s, j, r) = t
  BY <1>1 DEF Answer, Tab
<1> HIDE DEF a
<1>5. /\ Keeps(s, t, j) /\ t.act[j] = a /\ t.peer = s.peer
      /\ t.fence = s.fence /\ t.pending = s.pending /\ t.client = s.client
      /\ t.session = s.session
  BY <1>2, OnlyAct
<1> HIDE DEF t
<1>6. (Reaches(t, j) <=> Reaches(s, j)) /\ (Sent(t, j) <=> Sent(s, j))
  BY <1>3, <1>5 DEF Reaches, Sent
<1>7. Around(s, t, j)
  BY <1>5 DEF Keeps
<1>8. Fenced(t)
  BY <1>3, <1>5, <1>7 DEF Inv, Fenced, Around, Answers
<1>9. Fits(t, j)
  <2>1. Fits(s, j)
    BY DEF Inv
  <2>2. r \notin Early /\ r # "work" /\ r # "settling"
    BY DEF Answers, Early
  <2>3. a.client # 0 /\ a.op \in {"connecting", "working", "stray"} =>
          t.act[a.client].agent = a.agent
    <3>1. a.client \in Actions \cup {0}
      BY <1>2 DEF Action
    <3>2. a.client # 0 => a.client \in DOMAIN s.act
      BY <1>3, <2>1, <3>1 DEF Fits, Inv, Shape
    <3>3. a.client # 0 => t.act[a.client].agent = s.act[a.client].agent
      BY <1>7, <3>2 DEF Around
    <3> QED BY <1>2, <1>3, <2>1, <3>3 DEF Fits
  <2> QED BY <1>3, <1>5, <1>6, <2>1, <2>2, <2>3 DEF Fits
<1>10. Inv(t, j)
  BY <1>3, <1>5, <1>6, <1>7, <1>8, <1>9, KeepsInv
<1> QED BY <1>4, <1>5, <1>6, <1>10 DEF a

\* An answer that says nothing of the page, or of an action that sent nothing.
LEMMA AnswerSafe ==
  ASSUME NEW s, NEW j \in DOMAIN s.act, Inv(s, 0),
         s.act[j].pc \notin Answers, Ahead(s, j),
         NEW r \in Answers \ {"timed_out", "still_settling"},
         r \in Unclear \/ (~Reaches(s, j) /\ s.act[j].op \notin Leaves)
  PROVE  Inv(Answer(s, j, r), 0) /\ Keeps(s, Answer(s, j, r), j)
<1> DEFINE t == Answer(s, j, r)
<1>1. /\ Inv(t, j) /\ Keeps(s, t, j) /\ t.act[j] = [s.act[j] EXCEPT !.pc = r]
      /\ Reaches(t, j) <=> Reaches(s, j)
  BY AnswerInv
<1>2. s \in Tab /\ s.act[j] \in Action
  BY TabFacts DEF Inv
<1>3. /\ t.act[j].pc = r /\ t.act[j].op = s.act[j].op
      /\ t.act[j].settle = s.act[j].settle /\ t.act[j].retire = s.act[j].retire
  BY <1>1, <1>2 DEF Action
<1> HIDE DEF t
<1>4. Silent(s, j)
  BY TabFacts DEF Inv
<1>5. Silent(t, j)
  BY <1>1, <1>3, <1>4 DEF Silent, Unclear, Final
<1> QED BY <1>1, <1>5, Closing DEF t

\* A command of action j enters the flight.
LEMMA AddCommandKeeps ==
  ASSUME NEW s \in Tab, Shape(s), NEW j \in DOMAIN s.act \cup {0},
         NEW by \in {"client", "bridge"}
  PROVE  LET t == AddCommand(s, j, by)
         IN /\ Keeps(s, t, j) /\ t.act = s.act /\ t.peer = s.peer
            /\ t.fence = s.fence /\ t.client = s.client /\ t.kind = s.kind
            /\ t.session = s.session
            /\ t.access = s.access /\ t.rival = s.rival
<1> DEFINE c == [act |-> j, by |-> by, late |-> FALSE]
           t == [s EXCEPT !.pending = @ \cup {c}]
<1>1. c \in Command /\ c.act = j
  BY DEF Command, Shape
<1>2. AddCommand(s, j, by) \in {s, t}
  BY DEF AddCommand
<1> HIDE DEF c
<1>3. t \in Tab
  BY <1>1 DEF Tab
<1>4. /\ t.act = s.act /\ t.peer = s.peer /\ t.fence = s.fence
      /\ t.client = s.client /\ t.kind = s.kind /\ t.session = s.session
      /\ t.access = s.access /\ t.rival = s.rival
      /\ t.pending = s.pending \cup {c}
  BY DEF Tab
<1> HIDE DEF t
<1>5. Shape(t)
  BY <1>4 DEF Shape
<1>6. Around(s, t, j)
  BY <1>1, <1>3, <1>4, <1>5 DEF Around, Sent, Reaches
<1>7. Keeps(s, t, j)
  BY <1>4, <1>6 DEF Keeps, Steady
<1>8. Keeps(s, s, j)
  BY LosesSelf, LosesKeeps
<1> QED BY <1>2, <1>4, <1>7, <1>8

\* It does no harm while j is not answered, or while j can be reached anyhow.
LEMMA AddCommandInv ==
  ASSUME NEW s, NEW j \in DOMAIN s.act, NEW x \in {0, j}, Inv(s, x),
         NEW by \in {"client", "bridge"}, Ahead(s, j),
         s.act[j].pc \notin Answers \/ (x = 0 /\ Reaches(s, j))
  PROVE  Inv(AddCommand(s, j, by), x)
<1> DEFINE t == AddCommand(s, j, by)
<1>1. /\ Keeps(s, t, j) /\ t.act = s.act /\ t.peer = s.peer
      /\ t.fence = s.fence /\ t.client = s.client /\ t.session = s.session
  BY AddCommandKeeps DEF Inv
<1> HIDE DEF t
<1>2. Around(s, t, j) /\ Fenced(t) /\ (Reaches(t, j) <=> Reaches(s, j))
  BY <1>1 DEF Keeps, Inv, Fenced, Reaches
<1>3. j \in Nat
  BY TabFacts DEF Inv
<1>4. s.act[j].pc # "timed_out"
  BY <1>3, TabFacts DEF Inv, Silent, Final, Answers
<1>5. Fits(t, j)
  BY <1>1, <1>2, <1>4 DEF Inv, Fits
<1>6. Inv(t, j)
  BY <1>1, <1>2, <1>5, KeepsInv DEF Inv, InOrder
<1>7. CASE x = 0
  <2>1. Silent(s, j)
    BY <1>7, TabFacts DEF Inv
  <2>2. Silent(t, j)
    BY <1>1, <1>2, <2>1 DEF Silent
  <2> QED BY <1>6, <1>7, <2>2, Closing DEF t
<1> QED BY <1>6, <1>7 DEF t

\* An action past the fence's gate has no fence before it.
LEMMA FenceFree ==
  ASSUME NEW s, NEW x, Inv(s, x), NEW j \in DOMAIN s.act,
         s.act[j].pc \in {"draining", "changing", "work"}
  PROVE  s.fence = 0
<1> SUFFICES ASSUME s.fence # 0 PROVE FALSE
  OBVIOUS
<1> DEFINE i == s.fence
<1>1. /\ i \in DOMAIN s.act /\ s.act[i].pc \in Answers \cup {"settling"}
      /\ j > i =>
           s.act[j].pc \notin {"draining", "changing", "work", "settling"}
  BY DEF Inv, Fenced
<1>2. i \in Nat /\ j \in Nat
  BY <1>1, TabFacts DEF Inv
<1>3. i # j
  BY <1>1 DEF Answers
<1>4. i > j
  BY <1>1, <1>2, <1>3
<1>5. s.act[j].pc \in Answers
  BY <1>1, <1>2, <1>4 DEF Inv, InOrder, Ahead, Answers
<1> QED BY <1>5 DEF Answers

\* While action j is under way the later ones wait and the earlier are over.
LEMMA OneActive ==
  ASSUME NEW s, NEW x, Inv(s, x), NEW j \in DOMAIN s.act,
         s.act[j].pc \notin Answers \cup {"queued"}
  PROVE  /\ Ahead(s, j)
         /\ \A i \in DOMAIN s.act : i > j => s.act[i].pc = "queued"
         /\ \A i \in DOMAIN s.act :
              i # j => s.act[i].pc \in Answers \cup {"queued"}
<1>1. \A i \in DOMAIN s.act : i \in Nat
  BY TabFacts DEF Inv
<1>2. Ahead(s, j)
  BY DEF Inv, InOrder
<1>3. \A i \in DOMAIN s.act : i > j => s.act[i].pc = "queued"
  BY <1>1 DEF Inv, InOrder, Ahead
<1> QED BY <1>1, <1>2, <1>3 DEF Ahead

\* What settleTimeout leaves.
SettleFine(s, j, x, retire) ==
  LET t == SettleTimeout(s, j, retire)
  IN /\ Inv(t, j) /\ Keeps(s, t, j)
     /\ t.act[j].pc \in {"ended", "settling"}
     /\ t.act[j].op = s.act[j].op /\ t.act[j].client = s.act[j].client
     /\ t.peer = s.peer /\ t.client = s.client
     /\ x = 0 /\ retire /\ s.act[j].op \notin Leaves => Inv(t, 0)

\* settleTimeout fences the client that may still send, and keeps the
\* invariant but for an action that reaches the page and will not retire.
LEMMA SettleTimeoutInv ==
  ASSUME NEW s, NEW j \in DOMAIN s.act, NEW x \in {0, j}, Inv(s, x),
         s.act[j].pc = "work", NEW retire \in BOOLEAN
  PROVE  SettleFine(s, j, x, retire)
<1>1. /\ s \in Tab /\ Shape(s) /\ s.act[j] \in Action /\ Ahead(s, j)
      /\ s.fence = 0 /\ j \in Nat /\ j \in Actions /\ j # 0
      /\ s.act[j].pc \notin Answers /\ s.act[j].settle = "none"
  <2>1. s \in Tab /\ Shape(s) /\ j \in Actions /\ Fits(s, j)
    BY DEF Inv, Shape
  <2>2. s.act[j] \in Action /\ j \in Nat /\ j # 0
    BY <2>1, TabFacts
  <2>3. s.act[j].pc \notin Answers \cup {"queued"}
    BY DEF Answers
  <2>4. s.fence = 0 /\ Ahead(s, j)
    BY <2>3, FenceFree, OneActive
  <2> QED BY <2>1, <2>2, <2>3, <2>4 DEF Fits
<1>2. CASE ~Valid(s, j)
  <2> DEFINE t == Answer(s, j, "ended")
  <2>1. SettleTimeout(s, j, retire) = t
    BY <1>2 DEF SettleTimeout
  <2>2. /\ Inv(t, j) /\ Keeps(s, t, j) /\ t.peer = s.peer /\ t.client = s.client
        /\ t.act[j] = [s.act[j] EXCEPT !.pc = "ended"]
    <3>1. "ended" \in Answers
      BY DEF Answers
    <3> QED BY <1>1, <3>1, AnswerInv
  <2>3. x = 0 => Inv(t, 0)
    BY <1>1, AnswerSafe DEF Answers, Unclear
  <2> HIDE DEF t
  <2>4. /\ t.act[j].pc = "ended" /\ t.act[j].op = s.act[j].op
        /\ t.act[j].client = s.act[j].client
    BY <1>1, <2>2 DEF Action
  <2> QED BY <2>1, <2>2, <2>3, <2>4 DEF SettleFine
<1>3. CASE Valid(s, j)
  <2> DEFINE b == IF s.act[j].kind = "goto" /\ s.kind # "recovering"
                  THEN AddCommand(s, j, "bridge") ELSE s
             f == IF b.kind = "attached" THEN j ELSE b.fence
             a == [s.act[j] EXCEPT !.pc = "settling", !.retire = retire,
                                   !.settle = "waiting"]
             v == [b EXCEPT !.act[j] = a]
             w == [v EXCEPT !.fence = f]
  <2>1. /\ Keeps(s, b, j) /\ b.act = s.act /\ b.peer = s.peer
        /\ b.fence = s.fence /\ b.client = s.client /\ b.kind = s.kind
        /\ b.session = s.session
    BY <1>1, AddCommandKeeps, LosesSelf, LosesKeeps
  <2>2. Inv(b, x)
    BY <1>1, AddCommandInv
  <2>3. SettleTimeout(s, j, retire) =
          [b EXCEPT !.fence = IF b.kind = "attached" THEN j ELSE @,
                    !.act[j] = [@ EXCEPT !.pc = "settling", !.retire = retire,
                                         !.settle = "waiting"]]
    BY <1>3 DEF SettleTimeout
  <2> HIDE DEF b
  <2>4. b \in Tab /\ Shape(b) /\ j \in DOMAIN b.act
    BY <2>1, <2>2 DEF Inv
  <2>5. SettleTimeout(s, j, retire) = w
    BY <2>1, <2>3, <2>4 DEF Tab
  <2>6. a \in Action /\ a.agent = s.act[j].agent
    <3> DEFINE a1 == [s.act[j] EXCEPT !.pc = "settling"]
               a2 == [a1 EXCEPT !.retire = retire]
    <3>1. a1 \in Action /\ a1.agent = s.act[j].agent
      BY <1>1 DEF Action, Waiting
    <3> HIDE DEF a1
    <3>2. a2 \in Action /\ a2.agent = s.act[j].agent
      BY <3>1 DEF Action
    <3> HIDE DEF a2
    <3>3. [a2 EXCEPT !.settle = "waiting"] \in Action
      BY <3>2 DEF Action
    <3>4. a = [a2 EXCEPT !.settle = "waiting"]
      BY DEF a1, a2
    <3> QED BY <3>2, <3>3, <3>4 DEF Action
  <2>7. /\ a.pc = "settling" /\ a.op = s.act[j].op
        /\ a.client = s.act[j].client /\ a.settle = "waiting"
        /\ a.retire = retire
    BY <1>1 DEF Action
  <2> HIDE DEF a
  <2>8. /\ Keeps(b, v, j) /\ v.act[j] = a /\ v.peer = b.peer
        /\ v.fence = b.fence /\ v.pending = b.pending /\ v.client = b.client
        /\ v.kind = b.kind /\ v.session = b.session
    BY <2>1, <2>2, <2>4, <2>6, OnlyAct
  <2>9. v \in Tab /\ Shape(v) /\ DOMAIN v.act = DOMAIN b.act
    BY <2>8 DEF Keeps, Around
  <2>10. f \in Actions \cup {0} /\ f \in {0, j} /\ (v.peer # 0 => f = j)
    BY <1>1, <2>1, <2>8, <2>9 DEF Shape
  <2> HIDE DEF v, f
  <2>11. w \in Tab
    BY <2>9, <2>10 DEF Tab
  <2>12. /\ w.act = v.act /\ w.peer = v.peer /\ w.fence = f /\ w.kind = v.kind
         /\ w.pending = v.pending /\ w.client = v.client
         /\ w.session = v.session
    BY <2>9 DEF Tab
  <2> HIDE DEF w
  <2>13. f = j => w.peer # 0
    BY <2>1, <2>4, <2>8, <2>12, <1>1 DEF f, Shape
  <2>14. Shape(w)
    BY <1>1, <2>9, <2>10, <2>12, <2>13, TabFacts DEF Shape
  <2>15. /\ \A i \in DOMAIN b.act : i # j => w.act[i] = b.act[i]
         /\ \A i \in DOMAIN b.act : w.act[i].agent = b.act[i].agent
         /\ DOMAIN w.act = DOMAIN b.act
    BY <2>8, <2>12 DEF Keeps, Around
  <2>16. \A i \in DOMAIN b.act :
           i # j => /\ Sent(w, i) => Sent(b, i)
                    /\ Reaches(w, i) => Reaches(b, i)
    BY <2>8, <2>12, <2>15 DEF Sent, Reaches
  <2>17. Around(b, w, j)
    BY <1>1, <2>1, <2>8, <2>10, <2>11, <2>12, <2>14, <2>15, <2>16, TabFacts
       DEF Around
  <2>18. Keeps(b, w, j)
    BY <1>1, <2>1, <2>8, <2>12, <2>17 DEF Keeps, Steady
  <2>19. Keeps(s, w, j)
    BY <1>1, <2>1, <2>4, <2>18, KeepsTrans
  <2>20. Fenced(w)
    <3>1. \A i \in DOMAIN w.act : i > j => w.act[i].pc = "queued"
      BY <1>1, <2>1, <2>15, OneActive
    <3>2. w.act[j] = a /\ j \in DOMAIN w.act /\ w.fence \in {0, j}
      BY <2>4, <2>8, <2>10, <2>12, <2>15
    <3> QED BY <1>1, <2>7, <3>1, <3>2 DEF Fenced
  <2>21. Fits(w, j)
    <3>1. Fits(b, j)
      BY <2>2, <2>4 DEF Inv
    <3>2. a.client \in Actions \cup {0}
      BY <2>6 DEF Action
    <3>3. a.client # 0 => w.act[a.client].agent = b.act[a.client].agent
      BY <2>1, <2>4, <2>7, <2>15, <3>1, <3>2 DEF Fits, Shape
    <3>4. Reaches(w, j) => w.fence = j
      BY <2>8, <2>10, <2>12 DEF Reaches
    <3> QED BY <2>1, <2>6, <2>7, <2>8, <2>12, <3>1, <3>3, <3>4 DEF Fits, Early
  <2>22. Inv(w, j)
    BY <1>1, <2>1, <2>2, <2>4, <2>7, <2>8, <2>12, <2>17, <2>20, <2>21, KeepsInv
       DEF Ahead
  <2>23. retire /\ s.act[j].op \notin Leaves => Inv(w, 0)
    BY <2>7, <2>8, <2>12, <2>22, Closing DEF Silent, Final
  <2> QED BY <2>1, <2>5, <2>7, <2>8, <2>12, <2>19, <2>22, <2>23 DEF SettleFine
<1> QED BY <1>2, <1>3

\* onEnd, of a client that is closed.
LEMMA OnEndInv ==
  ASSUME NEW s, NEW j \in DOMAIN s.act, Inv(s, 0), s.act[j].pc = "work",
         ~Reaches(s, j), s.act[j].op \notin Leaves
  PROVE  /\ Inv(OnEnd(s, j), 0) /\ Keeps(s, OnEnd(s, j), j)
         /\ OnEnd(s, j).act[j].pc \in {"ended", "detached", "settling"}
         /\ OnEnd(s, j).peer = s.peer
<1> DEFINE e == End(s)
<1>1. s \in Tab /\ Shape(s) /\ Loses(s, e) /\ e.act = s.act /\ e.peer = s.peer
  BY EndLoses DEF Inv, Loses
<1>2. Inv(e, 0) /\ Keeps(s, e, j) /\ e \in Tab /\ Shape(e)
  BY <1>1, LosesInv, LosesKeeps DEF Loses
<1> HIDE DEF e
<1>3. ~Reaches(e, j)
  <2>1. s.act[j].client \in Actions \cup {0}
    BY <1>1, TabFacts DEF Action
  <2> QED BY <1>1, <2>1, TabFacts DEF Reaches, Loses, Shape
<1>4. e.act[j].pc \notin Answers /\ Ahead(e, j)
  <2>1. e.act[j].pc \notin Answers \cup {"queued"} /\ j \in DOMAIN e.act
    BY <1>1 DEF Answers
  <2> QED BY <1>2, <2>1, OneActive
<1>5. ASSUME NEW r \in {"ended", "detached"}
      PROVE  /\ Inv(Answer(e, j, r), 0) /\ Keeps(s, Answer(e, j, r), j)
             /\ Answer(e, j, r).act[j].pc = r /\ Answer(e, j, r).peer = s.peer
  <2>1. r \in Answers \ {"timed_out", "still_settling"} /\ j \in DOMAIN e.act
    BY <1>1 DEF Answers
  <2>2. Inv(Answer(e, j, r), 0) /\ Keeps(e, Answer(e, j, r), j)
    BY <1>1, <1>2, <1>3, <1>4, <2>1, AnswerSafe
  <2>3. /\ Answer(e, j, r).act[j] = [e.act[j] EXCEPT !.pc = r]
        /\ Answer(e, j, r).peer = e.peer
    BY <1>2, <1>4, <2>1, AnswerInv
  <2>4. e.act[j] \in Action
    BY <1>2, <2>1, TabFacts
  <2> QED BY <1>1, <1>2, <2>2, <2>3, <2>4, KeepsTrans DEF Action
<1>6. CASE ~Valid(s, j)
  BY <1>5, <1>6 DEF OnEnd, e
<1>7. CASE Valid(s, j) /\ s.kind = "recovering"
  BY <1>5, <1>7 DEF OnEnd, e
<1>8. CASE Valid(s, j) /\ s.kind # "recovering"
  <2> DEFINE t == SettleTimeout(s, j, FALSE)
  <2>1. /\ Inv(t, j) /\ Keeps(s, t, j) /\ t.act[j].pc \in {"ended", "settling"}
        /\ t.act[j].op = s.act[j].op /\ t.act[j].client = s.act[j].client
        /\ t.peer = s.peer /\ t.client = s.client
    <3>1. SettleFine(s, j, 0, FALSE)
      BY SettleTimeoutInv, Zenon
    <3> QED BY <3>1 DEF SettleFine
  <2>2. OnEnd(s, j) = t
    BY <1>8 DEF OnEnd
  <2> HIDE DEF t
  <2>3. Inv(t, 0)
    BY <2>1, OutOfReach, Closing DEF Reaches
  <2> QED BY <2>1, <2>2, <2>3
<1> QED BY <1>6, <1>7, <1>8

\* The maximum of one number.
LEMMA MaxOne ==
  ASSUME NEW j \in Nat
  PROVE  Max({j}) = j
BY DEF Max

\* close() keeps the invariant, whatever its action is told.
LEMMA CloseInv ==
  ASSUME NEW s, Inv(s, 0), NEW k \in Actions \cup {0}
  PROVE  /\ Inv(CloseTransport(s, k), 0) /\ Steady(s, CloseTransport(s, k))
         /\ k # 0 => CloseTransport(s, k).peer # k
         /\ s.peer = 0 => CloseTransport(s, k).peer = 0
<1>1. s \in Tab /\ Shape(s)
  BY DEF Inv
<1>2. CASE Idle(s)
  BY <1>1, <1>2, CloseLoses, LosesInv, LosesKeeps DEF Keeps, Loses
<1>3. CASE /\ k = 0 \/ s.client[k] \notin {"open", "ending"}
           /\ CloseTransport(s, k) = s
  <2>1. Loses(s, s)
    BY <1>1, LosesSelf
  <2> QED BY <1>1, <1>3, <2>1, LosesKeeps DEF Keeps, Shape
<1>4. CASE /\ k \in Actions /\ s.client[k] \in {"open", "ending"}
           /\ CloseTransport(s, k) = IF On(s, k) = {} THEN Shut(s, k)
                                     ELSE OnEnd(Shut(s, k), Max(On(s, k)))
  <2> DEFINE u == Shut(s, k)
  <2>1. /\ Loses(s, u) /\ u.client[k] = "closed" /\ u.act = s.act
        /\ u.peer = IF s.peer = k THEN 0 ELSE s.peer
    BY <1>1, <1>4, ShutLoses DEF Loses
  <2>2. /\ Inv(u, 0) /\ u \in Tab /\ Shape(u) /\ Steady(s, u)
    BY <1>1, <2>1, LosesInv, LosesKeeps DEF Loses, Keeps
  <2> HIDE DEF u
  <2>3. 0 \notin Actions
    BY <1>1, TabFacts
  <2>4. CASE On(s, k) = {}
    BY <1>4, <2>1, <2>2, <2>3, <2>4 DEF u
  <2>5. CASE On(s, k) # {}
    <3>1. PICK j \in DOMAIN s.act : s.act[j].pc = "work" /\ s.act[j].client = k
      BY <2>5 DEF On
    <3>2. On(s, k) = {j}
      <4>1. \A i \in DOMAIN s.act : i # j => s.act[i].pc # "work"
        BY <3>1, OneActive DEF Answers
      <4> QED BY <3>1, <4>1 DEF On
    <3>3. Max(On(s, k)) = j
      BY <1>1, <3>2, MaxOne, TabFacts
    <3>4. ~Reaches(u, j) /\ s.act[j].op \notin Leaves
      <4>1. Fits(s, j) /\ k # 0
        BY <1>4, <2>3 DEF Inv
      <4> QED BY <2>1, <3>1, <4>1 DEF Reaches, Fits
    <3>5. Inv(OnEnd(u, j), 0) /\ Keeps(u, OnEnd(u, j), j)
      BY <2>1, <2>2, <3>1, <3>4, OnEndInv
    <3>6. CloseTransport(s, k) = OnEnd(u, j)
      BY <1>4, <2>5, <3>3 DEF u
    <3> HIDE DEF On
    <3>7. OnEnd(u, j) \in Tab /\ Steady(u, OnEnd(u, j))
      BY <3>5 DEF Keeps, Inv
    <3>8. Steady(s, OnEnd(u, j))
      BY <1>1, <2>2, <3>7, SteadyTrans
    <3>9. OnEnd(u, j).peer # k /\ (s.peer = 0 => OnEnd(u, j).peer = 0)
      <4>1. OnEnd(u, j).peer = u.peer
        BY <2>1, <2>2, <3>1, <3>4, OnEndInv
      <4> QED BY <1>4, <2>1, <2>3, <4>1
    <3> QED BY <3>5, <3>6, <3>8, <3>9
  <2> QED BY <2>4, <2>5
<1> QED BY <1>1, <1>3, <1>4, CloseIs

\* So does retireClient.
LEMMA RetireClientInv ==
  ASSUME NEW s, Inv(s, 0)
  PROVE  /\ Inv(RetireClient(s), 0) /\ Steady(s, RetireClient(s))
         /\ RetireClient(s).peer = 0
<1>1. s \in Tab /\ Shape(s)
  BY DEF Inv
<1>2. CASE s.kind = "released"
  BY <1>1, <1>2, LosesSelf, LosesKeeps DEF RetireClient, Shape, Keeps
<1>3. CASE s.kind # "released"
  <2> DEFINE c == Cut(s)
             t == CloseTransport(c, s.peer)
  <2>1. RetireClient(s) = t
    BY <1>3 DEF RetireClient, Cut
  <2>2. Loses(s, c) /\ c.peer = 0
    BY <1>1, CutLoses
  <2>3. Inv(c, 0) /\ c \in Tab /\ Steady(s, c) /\ s.peer \in Actions \cup {0}
    BY <1>1, <2>2, LosesInv, LosesKeeps, TabFacts DEF Loses, Keeps
  <2> HIDE DEF c
  <2>4. Inv(t, 0) /\ Steady(c, t) /\ t.peer = 0
    BY <2>2, <2>3, CloseInv
  <2> HIDE DEF t
  <2>5. t \in Tab
    BY <2>4 DEF Inv
  <2> QED BY <1>1, <2>1, <2>3, <2>4, <2>5, SteadyTrans
<1> QED BY <1>2, <1>3

\* So does end().
LEMMA EndInv ==
  ASSUME NEW s, NEW x, Inv(s, x)
  PROVE  Inv(End(s), x) /\ Steady(s, End(s)) /\ End(s).peer = s.peer
<1>1. s \in Tab /\ Shape(s) /\ Loses(s, End(s)) /\ End(s).peer = s.peer
  BY EndLoses DEF Inv
<1> QED BY <1>1, LosesInv, LosesKeeps DEF Keeps

\* So does a retirement.
LEMMA RetireInv ==
  ASSUME NEW s, Inv(s, 0)
  PROVE  Inv(Retire(s), 0) /\ Steady(s, Retire(s)) /\ Retire(s).peer = 0
<1> DEFINE t == RetireClient(s)
<1>1. Inv(t, 0) /\ Steady(s, t) /\ t.peer = 0
  BY RetireClientInv
<1>2. Retire(s) = End(t)
  BY DEF Retire
<1> HIDE DEF t
<1>3. Inv(End(t), 0) /\ Steady(t, End(t)) /\ End(t).peer = 0
  BY <1>1, EndInv
<1>4. s \in Tab /\ Shape(s) /\ t \in Tab /\ End(t) \in Tab
  BY <1>1, <1>3 DEF Inv
<1> QED BY <1>1, <1>2, <1>3, <1>4, SteadyTrans

\* The grant leaves its phase, its commands go and its client closes.
LEMMA PhaseEndsInv ==
  ASSUME NEW s, Inv(s, 0), NEW next \in {"recovering", "released"}
  PROVE  LET t == CloseTransport([s EXCEPT !.kind = next, !.peer = 0,
                                           !.fence = 0, !.pending = {}], s.peer)
         IN Inv(t, 0) /\ Steady(s, t)
<1> DEFINE e == [s EXCEPT !.kind = next, !.peer = 0, !.fence = 0,
                          !.pending = {}]
           t == CloseTransport(e, s.peer)
<1>1. s \in Tab /\ Shape(s) /\ s.peer \in Actions \cup {0}
  BY TabFacts DEF Inv
<1>2. Loses(s, e)
  BY <1>1, GoneLoses
<1> HIDE DEF e
<1>3. Inv(e, 0) /\ Steady(s, e)
  BY <1>1, <1>2, LosesInv, LosesKeeps DEF Keeps
<1>4. Inv(t, 0) /\ Steady(e, t)
  BY <1>1, <1>3, CloseInv
<1>5. e \in Tab /\ t \in Tab
  BY <1>3, <1>4 DEF Inv
<1> HIDE DEF t
<1>6. Inv(t, 0) /\ Steady(s, t)
  BY <1>1, <1>3, <1>4, <1>5, SteadyTrans
<1> QED BY <1>6 DEF t, e

\* What is ahead of j stays answered and quiet.
LEMMA ClearKeeps ==
  ASSUME NEW s \in Tab, NEW t, NEW j \in DOMAIN s.act, Keeps(s, t, j)
  PROVE  (Clear(s, j) => Clear(t, j)) /\ (Ahead(s, j) => Ahead(t, j))
<1>1. j \in Nat
  BY TabFacts
<1> QED BY <1>1, TabFacts DEF Keeps, Around, Clear, Ahead

\* The operation is over: its action is out of reach.
LEMMA OverInv ==
  ASSUME NEW s, NEW j \in DOMAIN s.act, NEW x \in {0, j}, Inv(s, x),
         s.act[j].pc \notin Early, s.act[j].op # "none" \/ Clear(s, j)
  PROVE  /\ Inv(Over(s, j), 0) /\ Keeps(s, Over(s, j), j)
         /\ Over(s, j).act[j].pc = s.act[j].pc
<1> DEFINE a == [s.act[j] EXCEPT !.op = "done", !.client = 0]
           t == [s EXCEPT !.act[j] = a]
<1>1. s \in Tab /\ Shape(s) /\ s.act[j] \in Action /\ Fits(s, j) /\ Ahead(s, j)
  BY TabFacts DEF Inv, InOrder, Early
<1>2. a \in Action /\ a.agent = s.act[j].agent
  BY <1>1 DEF Action
<1>3. /\ a.pc = s.act[j].pc /\ a.op = "done" /\ a.client = 0
      /\ a.settle = s.act[j].settle /\ a.retire = s.act[j].retire
  BY <1>1 DEF Action
<1>4. Over(s, j) = t
  BY DEF Over
<1> HIDE DEF a
<1>5. /\ Keeps(s, t, j) /\ t.act[j] = a /\ t.fence = s.fence
      /\ t.pending = s.pending /\ t.client = s.client
  BY <1>2, OnlyAct
<1> HIDE DEF t
<1>6. ~Reaches(t, j) /\ (Sent(t, j) <=> Sent(s, j)) /\ Around(s, t, j)
  BY <1>3, <1>5 DEF Reaches, Sent, Keeps
<1>7. Fenced(t)
  BY <1>3, <1>5, <1>6 DEF Inv, Fenced, Around
<1>8. Fits(t, j)
  BY <1>1, <1>3, <1>5, <1>6 DEF Fits, Leaves
<1>9. Inv(t, j)
  BY <1>1, <1>3, <1>5, <1>6, <1>7, <1>8, KeepsInv
<1>10. Inv(t, 0)
  BY <1>3, <1>5, <1>6, <1>9, OutOfReach, Closing DEF Leaves
<1> QED BY <1>3, <1>4, <1>5, <1>10

\* respond()'s catch, up to the end of the operation.
LEMMA FailedInv ==
  ASSUME NEW s, NEW j \in DOMAIN s.act, Inv(s, 0), s.act[j].pc = "work"
  PROVE  LET t == Failed(s, j)
         IN /\ Inv(t, j) /\ Keeps(s, t, j)
            /\ t.act[j].pc \in {"ended", "settling", "failed"}
            /\ t.act[j].op = s.act[j].op /\ t.act[j].client = s.act[j].client
<1>1. /\ s \in Tab /\ Shape(s) /\ s.act[j] \in Action
      /\ s.act[j].pc \notin Answers \cup {"queued"}
  BY TabFacts DEF Inv, Answers
<1>2. Ahead(s, j)
  BY <1>1, OneActive
<1>3. ASSUME NEW r \in {"ended", "failed"}
      PROVE  LET t == Answer(s, j, r)
             IN /\ Inv(t, j) /\ Keeps(s, t, j) /\ t.act[j].pc = r
                /\ t.act[j].op = s.act[j].op
                /\ t.act[j].client = s.act[j].client
                /\ t.client = s.client
  <2> DEFINE t == Answer(s, j, r)
  <2>1. r \in Answers
    BY DEF Answers
  <2>2. /\ Inv(t, j) /\ Keeps(s, t, j) /\ t.client = s.client
        /\ t.act[j] = [s.act[j] EXCEPT !.pc = r]
    BY <1>1, <1>2, <2>1, AnswerInv
  <2> HIDE DEF t
  <2>3. /\ t.act[j].pc = r /\ t.act[j].op = s.act[j].op
        /\ t.act[j].client = s.act[j].client
    BY <1>1, <2>2 DEF Action
  <2> QED BY <2>2, <2>3 DEF t
<1>4. CASE ~Valid(s, j)
  BY <1>3, <1>4 DEF Failed
<1>5. CASE Valid(s, j) /\ \E c \in s.pending : c.late
  <2>1. Failed(s, j) = SettleTimeout(s, j, FALSE)
    BY <1>5 DEF Failed
  <2>2. SettleFine(s, j, 0, FALSE)
    BY SettleTimeoutInv, Zenon
  <2> QED BY <2>1, <2>2 DEF SettleFine
<1>6. CASE Valid(s, j) /\ ~\E c \in s.pending : c.late
  <2> DEFINE t == Answer(s, j, "failed")
             u == CloseTransport(t, t.act[j].client)
  <2>1. Failed(s, j) = IF s.act[j].op = "connecting" THEN u ELSE t
    BY <1>6 DEF Failed
  <2>2. /\ Inv(t, j) /\ Keeps(s, t, j) /\ t.act[j].pc = "failed"
        /\ t.act[j].op = s.act[j].op /\ t.act[j].client = s.act[j].client
        /\ t.client = s.client
    BY <1>3
  <2> HIDE DEF t
  <2>3. t \in Tab /\ Shape(t) /\ t.act[j].client \in Actions \cup {0}
    BY <1>1, <2>2 DEF Inv, Action
  <2>4. Idle(t)
    <3>1. \A i \in DOMAIN s.act : i # j => s.act[i].pc # "work"
      BY <1>1, OneActive DEF Answers
    <3> QED BY <2>2, <3>1 DEF Idle, Keeps, Around
  <2>5. Loses(t, u)
    BY <2>3, <2>4, CloseLoses
  <2> HIDE DEF u
  <2>6. Inv(u, j) /\ Keeps(t, u, j) /\ u.act = t.act
    BY <2>2, <2>3, <2>5, LosesInv, LosesKeeps DEF Loses
  <2>7. Keeps(s, u, j)
    BY <1>1, <2>2, <2>3, <2>6, KeepsTrans
  <2> QED BY <2>1, <2>2, <2>6, <2>7
<1> QED BY <1>4, <1>5, <1>6

-----------------------------------------------------------------------------
(* An action, up to its operation.                                         *)

\* Action j is next, and it has sent nothing.
Ready(s, j) ==
  /\ Inv(s, 0) /\ j \in DOMAIN s.act
  /\ s.act[j].pc \in Early /\ Ahead(s, j)

\* What is known of the next action.
LEMMA ReadyFacts ==
  ASSUME NEW s, NEW j, Ready(s, j)
  PROVE  /\ s \in Tab /\ Shape(s) /\ Idle(s) /\ s.act[j] \in Action
         /\ s.act[j].pc \notin Answers
         /\ s.act[j].op = "none" /\ s.act[j].settle = "none"
         /\ s.client[j] = "unused" /\ ~Reaches(s, j)
         /\ \A i \in DOMAIN s.act : i > j => s.act[i].pc = "queued"
<1>1. s \in Tab /\ Shape(s) /\ Fits(s, j) /\ s.act[j] \in Action
  BY TabFacts DEF Ready, Inv
<1>2. s.act[j].pc \notin Answers /\ s.act[j].pc # "work"
  BY DEF Ready, Early, Answers
<1>3. s.act[j].op = "none" /\ s.act[j].settle = "none" /\ s.client[j] = "unused"
  BY <1>1 DEF Ready, Fits
<1>4. \A i \in DOMAIN s.act : i \in Nat
  BY <1>1, TabFacts
<1>5. \A i \in DOMAIN s.act : i > j => s.act[i].pc = "queued"
  BY <1>2, <1>4 DEF Ready, Inv, InOrder, Ahead
<1>6. Idle(s)
  BY <1>2, <1>4, <1>5 DEF Idle, Ready, Ahead, Answers
<1> QED BY <1>1, <1>2, <1>3, <1>5, <1>6 DEF Reaches

\* Nothing an earlier action left behind can reach the page any more.
LEMMA NothingLeft ==
  ASSUME NEW s, NEW j, Ready(s, j), s.fence = 0, s.pending = {}
  PROVE  Clear(s, j)
<1> SUFFICES ASSUME NEW i \in DOMAIN s.act, i < j, s.act[i].pc \notin Unclear,
                    Reaches(s, i)
             PROVE  FALSE
  BY DEF Clear, Sent
<1>1. s.act[i].pc \in Answers /\ Fits(s, i) /\ Silent(s, i) /\ i # 0
  BY TabFacts DEF Ready, Ahead, Inv
<1>2. s.act[i].pc \notin Final
  BY <1>1 DEF Silent
<1>3. s.act[i].pc = "still_settling"
  BY <1>1, <1>2 DEF Answers, Unclear, Final
<1>4. s.act[i] \in Action
  BY TabFacts DEF Ready, Inv
<1>5. s.act[i].settle \in {"waiting", "done"}
  BY <1>1, <1>3, <1>4 DEF Fits, Action
<1> QED BY <1>1, <1>5 DEF Fits, Silent

\* What a step of the next action before its operation leaves.
EarlyFine(s, j, a) ==
  LET t == [s EXCEPT !.act[j] = a]
  IN /\ Inv(t, 0) /\ Keeps(s, t, j) /\ t.act[j] = a
     /\ t.fence = s.fence /\ t.pending = s.pending
     /\ t.client = s.client /\ t.kind = s.kind /\ t.session = s.session
     /\ j \in DOMAIN t.act /\ Ahead(t, j)

\* A step of the next action before its operation.
LEMMA EarlyInv ==
  ASSUME NEW s, NEW j, Ready(s, j), NEW a \in Action,
         a.agent = s.act[j].agent, a.op = "none", a.settle = "none",
         a.pc \in Early \cup {"work"},
         a.pc \in {"draining", "changing", "work"} => s.fence = 0,
         a.client # 0 => s.client[a.client] # "unused"
  PROVE  EarlyFine(s, j, a)
<1> DEFINE t == [s EXCEPT !.act[j] = a]
<1>1. Inv(s, 0) /\ j \in DOMAIN s.act /\ Ahead(s, j)
  BY DEF Ready
<1>2. /\ s \in Tab /\ s.act[j].pc \notin Answers /\ s.client[j] = "unused"
  BY ReadyFacts
<1>3. /\ Keeps(s, t, j) /\ t.act[j] = a /\ t.fence = s.fence
      /\ t.pending = s.pending /\ t.client = s.client
      /\ t.session = s.session /\ t.kind = s.kind
  BY <1>1, OnlyAct
<1> HIDE DEF t
<1>4. Around(s, t, j) /\ Ahead(t, j) /\ j \in DOMAIN t.act
  BY <1>1, <1>2, <1>3, ClearKeeps DEF Keeps, Around
<1>5. ~Reaches(t, j)
  BY <1>3 DEF Reaches
<1>6. Fenced(t)
  <2>1. j # s.fence
    <3>1. j # 0
      BY <1>1, <1>2, TabFacts
    <3>2. s.act[j].pc \notin Answers \cup {"settling"}
      BY DEF Ready, Early, Answers
    <3> QED BY <1>1, <3>1, <3>2 DEF Inv, Fenced
  <2> QED BY <1>1, <1>3, <1>4, <2>1 DEF Inv, Fenced, Around, Early
<1>7. Fits(t, j)
  BY <1>2, <1>3, <1>5 DEF Fits, Leaves, Early
<1>8. Inv(t, j)
  BY <1>1, <1>2, <1>3, <1>4, <1>6, <1>7, KeepsInv
<1>9. Inv(t, 0)
  BY <1>3, <1>5, <1>8, OutOfReach, Closing DEF Leaves
<1> QED BY <1>3, <1>4, <1>9 DEF t, EarlyFine

\* The operation of an action begins: it works, or it leaves an office page.
Working(s, j, op) == [s EXCEPT !.act[j].op = op]

\* What the begin of an operation leaves.
WorkFine(s, j, op) ==
  LET t == Working(s, j, op)
  IN /\ Inv(t, 0) /\ Keeps(s, t, j)
     /\ t.act[j] = [s.act[j] EXCEPT !.op = op]

\* The operation begins when nothing earlier can disturb it.
LEMMA WorkInv ==
  ASSUME NEW s, NEW j \in DOMAIN s.act, Inv(s, 0), s.act[j].pc = "work",
         s.act[j].op = "none", Clear(s, j), NEW op \in {"working", "leave"},
         op = "leave" => s.act[j].client = 0,
         op = "working" =>
           /\ s.act[j].client # 0
           /\ s.act[s.act[j].client].agent = s.act[j].agent
  PROVE  WorkFine(s, j, op)
<1> DEFINE a == [s.act[j] EXCEPT !.op = op]
           t == [s EXCEPT !.act[j] = a]
<1>1. /\ s \in Tab /\ Shape(s) /\ Fits(s, j) /\ s.act[j] \in Action
      /\ s.act[j].pc \notin Answers \cup {"queued"}
  BY TabFacts DEF Inv, Answers
<1>2. Ahead(s, j)
  BY <1>1, OneActive
<1>3. a \in Action /\ a.agent = s.act[j].agent
  BY <1>1 DEF Action
<1>4. /\ a.pc = "work" /\ a.op = op /\ a.client = s.act[j].client
      /\ a.settle = s.act[j].settle /\ a.retire = s.act[j].retire
  BY <1>1 DEF Action
<1>5. t = Working(s, j, op)
  BY <1>1 DEF Working, Tab
<1>6. a = [s.act[j] EXCEPT !.op = op]
  OBVIOUS
<1> HIDE DEF a
<1>7. /\ Keeps(s, t, j) /\ t.act[j] = a /\ t.fence = s.fence
      /\ t.pending = s.pending /\ t.client = s.client /\ t.session = s.session
  BY <1>3, OnlyAct
<1> HIDE DEF t
<1>8. Around(s, t, j)
  BY <1>7 DEF Keeps
<1>9. Fenced(t)
  BY <1>4, <1>7, <1>8, FenceFree DEF Fenced
<1>10. Fits(t, j)
  <2>1. s.act[j].client \in Actions \cup {0} /\ s.act[j].settle = "none"
    BY <1>1 DEF Action, Fits
  <2>2. op = "working" => t.act[a.client].agent = a.agent
    <3>1. s.act[j].client # 0 => s.act[j].client \in DOMAIN s.act
      BY <1>1, <2>1 DEF Fits, Shape
    <3> QED BY <1>3, <1>4, <1>8, <3>1 DEF Around
  <2>3. s.client[j] = "unused"
    BY <1>1 DEF Fits
  <2> QED BY <1>1, <1>4, <1>7, <2>1, <2>2, <2>3 DEF Fits, Leaves, Early
<1>11. Inv(t, j)
  BY <1>1, <1>2, <1>7, <1>8, <1>9, <1>10, KeepsInv
<1>12. Silent(t, j)
  BY <1>1, <1>4, <1>7 DEF Silent, Final, Fits
<1> QED BY <1>5, <1>6, <1>7, <1>11, <1>12, Closing DEF WorkFine

\* An operation that never began, or that threw, is over.
LEMMA GiveUpInv ==
  ASSUME NEW s, NEW j \in DOMAIN s.act, Inv(s, 0), s.act[j].pc = "work",
         s.act[j].op # "none" \/ Clear(s, j)
  PROVE  LET t == Over(Failed(s, j), j)
         IN Inv(t, 0) /\ Keeps(s, t, j)
<1> DEFINE f == Failed(s, j)
           t == Over(f, j)
<1>1. s \in Tab /\ Shape(s)
  BY DEF Inv
<1>2. /\ Inv(f, j) /\ Keeps(s, f, j) /\ f.act[j].op = s.act[j].op
      /\ f.act[j].pc \in {"ended", "settling", "failed"}
  BY FailedInv
<1> HIDE DEF f
<1>3. /\ f \in Tab /\ Shape(f) /\ j \in DOMAIN f.act /\ f.act[j].pc \notin Early
      /\ f.act[j].op # "none" \/ Clear(f, j)
  BY <1>1, <1>2, ClearKeeps DEF Inv, Keeps, Around, Early
<1>4. Inv(t, 0) /\ Keeps(f, t, j)
  BY <1>2, <1>3, OverInv
<1> HIDE DEF t
<1>5. Inv(t, 0) /\ Keeps(s, t, j)
  BY <1>1, <1>2, <1>3, <1>4, KeepsTrans
<1> QED BY <1>5 DEF t, f

\* The constructor of the transport attaches a new client, or the action fails.
LEMMA AttachInv ==
  ASSUME NEW s, NEW j \in DOMAIN s.act, Inv(s, 0),
         s.act[j].op \in {"none", "left"},
         s.act[j].op = "none" => s.act[j].pc = "work" /\ Clear(s, j)
  PROVE  Inv(Attach(s, j), 0) /\ Keeps(s, Attach(s, j), j)
<1>1. /\ s \in Tab /\ Shape(s) /\ s.act[j] \in Action /\ Fits(s, j)
      /\ Silent(s, j) /\ j \in Actions /\ j # 0
  BY TabFacts DEF Inv, Shape
<1>2. s.act[j].pc \in {"work"} \cup Unclear /\ s.act[j].settle = "none"
  BY <1>1 DEF Silent, Fits, Leaves
<1>3. s.client[j] = "unused"
  BY <1>1 DEF Fits, Leaves
<1>4. CASE ~(/\ s.kind = "offered" /\ s.pending = {}
             /\ s.act[j].agent \in s.access)
  <2>1. CASE s.act[j].pc = "work"
    BY <1>4, <2>1, GiveUpInv DEF Attach
  <2>2. CASE s.act[j].pc # "work"
    <3>1. Attach(s, j) = Over(s, j)
      BY <1>4, <2>2 DEF Attach
    <3>2. s.act[j].pc \notin Early /\ s.act[j].op # "none"
      BY <1>2, <2>2 DEF Unclear, Early
    <3> QED BY <3>1, <3>2, OverInv
  <2> QED BY <2>1, <2>2
<1>5. CASE s.kind = "offered" /\ s.pending = {} /\ s.act[j].agent \in s.access
  <2> DEFINE a == [s.act[j] EXCEPT !.client = j, !.op = "connecting"]
             u == [s EXCEPT !.act[j] = a]
             t == [u EXCEPT !.kind = "attached", !.peer = j,
                            !.client[j] = "open"]
  <2>1. Attach(s, j) = t
    BY <1>1, <1>5 DEF Attach, Tab
  <2>2. a \in Action /\ a.agent = s.act[j].agent
    BY <1>1 DEF Action
  <2>3. /\ a.pc = s.act[j].pc /\ a.op = "connecting" /\ a.client = j
        /\ a.settle = "none"
    BY <1>1, <1>2 DEF Action
  <2> HIDE DEF a
  <2>4. /\ Keeps(s, u, j) /\ u.act[j] = a
        /\ u.peer = s.peer /\ u.fence = s.fence /\ u.pending = s.pending
        /\ u.client = s.client /\ u.kind = s.kind /\ u.session = s.session
    BY <2>2, OnlyAct
  <2>5. u \in Tab /\ Shape(u) /\ DOMAIN u.act = DOMAIN s.act
    BY <2>4 DEF Keeps, Around
  <2> HIDE DEF u
  <2>6. t \in Tab
    BY <1>1, <2>5 DEF Tab
  <2>7. /\ t.kind = "attached" /\ t.peer = j /\ t.fence = s.fence
        /\ t.session = s.session /\ t.act = u.act /\ t.pending = {}
        /\ t.client = [s.client EXCEPT ![j] = "open"]
    BY <1>5, <2>4, <2>5 DEF Tab
  <2> HIDE DEF t
  <2>8. \A k \in Actions : t.client[k] = IF k = j THEN "open" ELSE s.client[k]
    BY <1>1, <2>7, TabFacts
  <2>9. s.peer = 0 /\ s.fence = 0 /\ s.session # j
    BY <1>1, <1>3, <1>5 DEF Shape
  <2>10. Shape(t)
    BY <1>1, <2>5, <2>7, <2>8, <2>9, TabFacts DEF Shape
  <2>11. ASSUME NEW i \in DOMAIN s.act, i # j
         PROVE  ~Reaches(t, i) /\ ~Sent(t, i) /\ t.act[i] = s.act[i]
    <3>1. Fits(s, i) /\ t.act[i] = s.act[i]
      BY <2>4, <2>7, <2>11 DEF Inv, Keeps, Around
    <3>2. s.act[i].client # j
      BY <1>1, <1>3, <3>1 DEF Fits
    <3> QED BY <2>7, <3>1, <3>2 DEF Reaches, Sent
  <2>12. \A i \in DOMAIN s.act : t.act[i].agent = s.act[i].agent
    BY <2>4, <2>7 DEF Keeps, Around
  <2>13. Around(s, t, j)
    BY <2>5, <2>6, <2>7, <2>8, <2>10, <2>11, <2>12 DEF Around
  <2>14. Steady(s, t)
    BY <1>3, <2>7, <2>8, <2>9 DEF Steady
  <2>15. Fenced(t)
    BY <2>7, <2>9 DEF Fenced
  <2>16. Fits(t, j)
    BY <1>1, <1>2, <2>2, <2>3, <2>4, <2>7, <2>8, <2>9
       DEF Fits, Leaves, Early, Unclear, Sent
  <2>17. /\ s.act[j].pc # "queued"
         /\ s.act[j].pc \in Answers => s.act[j].pc \in Unclear
    BY <1>2 DEF Unclear, Answers
  <2>18. Ahead(s, j)
    BY <2>17 DEF Inv, InOrder
  <2>19. Inv(t, j)
    BY <2>3, <2>4, <2>7, <2>13, <2>15, <2>16, <2>17, <2>18, KeepsInv
  <2>20. Silent(t, j)
    BY <1>2, <2>3, <2>4, <2>7 DEF Silent, Leaves, Final, Unclear
  <2> QED BY <2>1, <2>13, <2>14, <2>19, <2>20, Closing DEF Keeps
<1> QED BY <1>4, <1>5

\* The next action is answered before it sent anything.
LEMMA ReadyAnswer ==
  ASSUME NEW s, NEW j, Ready(s, j),
         NEW r \in Answers \ {"timed_out", "still_settling"}
  PROVE  Inv(Answer(s, j, r), 0) /\ Keeps(s, Answer(s, j, r), j)
<1>1. /\ Inv(s, 0) /\ j \in DOMAIN s.act /\ Ahead(s, j)
      /\ s.act[j].pc \notin Answers /\ ~Reaches(s, j)
      /\ s.act[j].op \notin Leaves
  BY ReadyFacts DEF Ready, Leaves
<1> QED BY <1>1, AnswerSafe

\* The next action moves on to p.
LEMMA ReadySetPc ==
  ASSUME NEW s, NEW j, Ready(s, j), NEW p \in Early \cup {"work"},
         p \in {"draining", "changing", "work"} => s.fence = 0
  PROVE  LET t == [s EXCEPT !.act[j].pc = p]
         IN /\ Inv(t, 0) /\ Keeps(s, t, j) /\ Ahead(t, j)
            /\ j \in DOMAIN t.act /\ t.act[j] = [s.act[j] EXCEPT !.pc = p]
            /\ t.fence = s.fence /\ t.pending = s.pending
            /\ t.client = s.client /\ t.kind = s.kind
<1> DEFINE a == [s.act[j] EXCEPT !.pc = p]
           t == [s EXCEPT !.act[j] = a]
<1>1. /\ s \in Tab /\ s.act[j] \in Action /\ s.act[j].op = "none"
      /\ s.act[j].settle = "none" /\ Fits(s, j)
  BY ReadyFacts DEF Ready, Inv
<1>2. p \in Waiting
  BY DEF Early, Waiting
<1>3. /\ a \in Action /\ a.agent = s.act[j].agent /\ a.op = "none"
      /\ a.settle = "none" /\ a.pc = p /\ a.client = s.act[j].client
  BY <1>1, <1>2 DEF Action
<1>4. t = [s EXCEPT !.act[j].pc = p]
  BY <1>1 DEF Tab
<1>5. a.client # 0 => s.client[a.client] # "unused"
  BY <1>1, <1>3 DEF Fits
<1>6. a = [s.act[j] EXCEPT !.pc = p]
  OBVIOUS
<1> HIDE DEF a
<1>7. EarlyFine(s, j, a)
  BY <1>3, <1>5, EarlyInv
<1>8. /\ Inv(t, 0) /\ Keeps(s, t, j) /\ t.act[j] = a
      /\ t.fence = s.fence /\ t.pending = s.pending
      /\ t.client = s.client /\ t.kind = s.kind
      /\ j \in DOMAIN t.act /\ Ahead(t, j)
  BY <1>7 DEF EarlyFine
<1> HIDE DEF t
<1> QED BY <1>4, <1>6, <1>8

\* Action j holds client k.
Holding(s, j, k) == [s EXCEPT !.act[j].client = k]

\* What taking a client in hand leaves.
HoldFine(s, j, k) ==
  LET t == Holding(s, j, k)
  IN /\ Ready(t, j) /\ Keeps(s, t, j)
     /\ t.act[j] = [s.act[j] EXCEPT !.client = k]
     /\ t.act[j].client = k
     /\ t.fence = s.fence /\ t.pending = s.pending
     /\ t.client = s.client /\ t.kind = s.kind

\* The next action takes a client in hand, or drops it.
LEMMA ReadySetClient ==
  ASSUME NEW s, NEW j, Ready(s, j), NEW k \in Actions \cup {0},
         k # 0 => s.client[k] # "unused",
         s.act[j].pc \in {"draining", "changing"} => s.fence = 0
  PROVE  HoldFine(s, j, k)
<1> DEFINE a == [s.act[j] EXCEPT !.client = k]
           t == [s EXCEPT !.act[j] = a]
<1>1. /\ s \in Tab /\ s.act[j] \in Action /\ s.act[j].op = "none"
      /\ s.act[j].settle = "none" /\ s.act[j].pc \in Early
  BY ReadyFacts DEF Ready
<1>2. /\ a \in Action /\ a.agent = s.act[j].agent /\ a.op = "none"
      /\ a.settle = "none" /\ a.pc = s.act[j].pc /\ a.client = k
  BY <1>1 DEF Action
<1>3. t = Holding(s, j, k)
  BY <1>1 DEF Holding, Tab
<1>4. a = [s.act[j] EXCEPT !.client = k]
  OBVIOUS
<1> HIDE DEF a
<1>5. /\ a.pc \in Early \cup {"work"}
      /\ a.pc \in {"draining", "changing", "work"} => s.fence = 0
      /\ a.client # 0 => s.client[a.client] # "unused"
  BY <1>1, <1>2 DEF Early
<1>6. EarlyFine(s, j, a)
  BY <1>2, <1>5, EarlyInv
<1>7. /\ Inv(t, 0) /\ Keeps(s, t, j) /\ t.act[j] = a
      /\ t.fence = s.fence /\ t.pending = s.pending
      /\ t.client = s.client /\ t.kind = s.kind
      /\ j \in DOMAIN t.act /\ Ahead(t, j)
  BY <1>6 DEF EarlyFine
<1> HIDE DEF t
<1>8. Ready(t, j)
  BY <1>1, <1>2, <1>7 DEF Ready
<1> QED BY <1>2, <1>3, <1>4, <1>7, <1>8 DEF HoldFine

\* A step that only loses leaves the next action next.
LEMMA ReadyLoses ==
  ASSUME NEW s, NEW t, NEW j, Ready(s, j), Loses(s, t)
  PROVE  Ready(t, j) /\ Keeps(s, t, j) /\ t.act = s.act
<1>1. Inv(t, 0) /\ t.act = s.act
  BY LosesInv DEF Ready, Loses
<1> QED BY <1>1, ReadyFacts, LosesKeeps DEF Ready, Ahead

\* The next action, when nothing settles and nothing is in flight.
Alone(s, j) == Ready(s, j) /\ s.fence = 0 /\ s.pending = {}

\* A stuck client goes.
LEMMA DropClientInv ==
  ASSUME NEW s, NEW j, Alone(s, j)
  PROVE  LET t == DropClient(s, j)
         IN Alone(t, j) /\ Keeps(s, t, j) /\ t.act[j].client = 0
<1>1. CASE s.act[j].client = 0
  <2>1. Keeps(s, s, j)
    BY ReadyFacts, LosesSelf, LosesKeeps DEF Alone
  <2> QED BY <1>1, <2>1 DEF DropClient
<1>2. CASE s.act[j].client # 0
  <2> DEFINE r == Retire(s)
             t == Holding(r, j, 0)
  <2>1. DropClient(s, j) = t
    BY <1>2 DEF DropClient, Holding
  <2>2. Loses(s, r) /\ r.pending = {} /\ s \in Tab /\ Shape(s)
    BY ReadyFacts, RetireLoses DEF Alone
  <2> HIDE DEF r
  <2>3. Ready(r, j) /\ Keeps(s, r, j) /\ r.fence = 0
    BY <2>2, ReadyLoses DEF Alone, Loses
  <2>4. /\ Ready(t, j) /\ Keeps(r, t, j) /\ t.fence = r.fence
        /\ t.pending = r.pending /\ t.act[j].client = 0
    <3>1. Ready(r, j) /\ 0 \in Actions \cup {0} /\ r.fence = 0
      BY <2>3
    <3>2. HoldFine(r, j, 0)
      BY <3>1, ReadySetClient, Zenon
    <3> QED BY <3>2 DEF HoldFine
  <2> HIDE DEF t
  <2>5. Keeps(s, t, j)
    BY <2>2, <2>3, <2>4, ReadyFacts, KeepsTrans
  <2> QED BY <2>1, <2>2, <2>3, <2>4, <2>5 DEF Alone
<1> QED BY <1>1, <1>2

\* The client the action holds is its own agent's.
Own(s, j) ==
  s.act[j].client # 0 => s.act[s.act[j].client].agent = s.act[j].agent

\* task() up to its first await.
LEMMA LaunchInv ==
  ASSUME NEW s, NEW j, Alone(s, j), Own(s, j), NEW look
  PROVE  Inv(Launch(s, j, look), 0) /\ Keeps(s, Launch(s, j, look), j)
<1> DEFINE leaving == look = "gated" /\ s.act[j].kind = "goto"
           t == IF leaving \/ look = "unset" THEN DropClient(s, j) ELSE s
           u == [t EXCEPT !.act[j].pc = "work"]
           k == u.act[j].client
           v == Working(u, j, "leave")
           w == Working(u, j, "working")
           launched ==
             IF leaving
             THEN IF u.kind \in {"recovering", "released"}
                  THEN Over(Failed(u, j), j) ELSE AddCommand(v, j, "bridge")
             ELSE IF k = 0 THEN Attach(u, j)
             ELSE IF u.client[k] = "closed" THEN Over(OnEnd(u, j), j) ELSE w
<1>1. Launch(s, j, look) = launched
  BY DEF Launch, Working
<1>2. s \in Tab /\ Shape(s) /\ Keeps(s, s, j)
  BY ReadyFacts, LosesSelf, LosesKeeps DEF Alone
<1>3. /\ Alone(t, j) /\ Keeps(s, t, j) /\ Own(t, j)
      /\ leaving => t.act[j].client = 0
  BY <1>2, DropClientInv DEF Own
<1> HIDE DEF t, leaving
<1>4. /\ t \in Tab /\ Shape(t) /\ t.act[j] \in Action /\ t.act[j].op = "none"
      /\ j \in DOMAIN t.act /\ Inv(t, 0)
  BY <1>3, ReadyFacts DEF Alone, Ready
<1>5. /\ Inv(u, 0) /\ Keeps(t, u, j) /\ Ahead(u, j) /\ j \in DOMAIN u.act
      /\ u.act[j] = [t.act[j] EXCEPT !.pc = "work"]
  <2>1. Ready(t, j) /\ t.fence = 0 /\ "work" \in Early \cup {"work"}
    BY <1>3 DEF Alone
  <2> QED BY <2>1, ReadySetPc
<1> HIDE DEF u
<1>6. /\ u \in Tab /\ Shape(u) /\ u.act[j].pc = "work" /\ u.act[j].op = "none"
      /\ k = t.act[j].client /\ k \in Actions \cup {0}
  BY <1>4, <1>5 DEF Inv, Action
<1>7. Clear(u, j)
  BY <1>3, <1>4, <1>5, NothingLeft, ClearKeeps DEF Alone
<1>8. k # 0 => u.act[k].agent = u.act[j].agent
  <2>1. k # 0 => k \in DOMAIN t.act
    BY <1>4, <1>6 DEF Inv, Fits, Shape
  <2> QED BY <1>3, <1>4, <1>5, <1>6, <2>1 DEF Own, Keeps, Around
<1>9. Keeps(s, u, j)
  BY <1>2, <1>3, <1>4, <1>5, KeepsTrans
<1>10. ~Reaches(u, j) /\ u.act[j].op \notin Leaves
  BY <1>6 DEF Reaches, Leaves
<1> HIDE DEF k
<1>11. CASE leaving /\ u.kind \in {"recovering", "released"}
  <2> DEFINE z == Over(Failed(u, j), j)
  <2>1. Inv(z, 0) /\ Keeps(u, z, j)
    BY <1>5, <1>6, <1>7, GiveUpInv
  <2>2. launched = z
    BY <1>11
  <2> HIDE DEF z, launched
  <2> QED BY <1>1, <1>2, <1>6, <1>9, <2>1, <2>2, KeepsTrans
<1>12. CASE leaving /\ u.kind \notin {"recovering", "released"}
  <2> DEFINE z == AddCommand(v, j, "bridge")
  <2>1. /\ Inv(v, 0) /\ Keeps(u, v, j)
        /\ v.act[j] = [u.act[j] EXCEPT !.op = "leave"]
    <3>1. u.act[j].client = 0
      BY <1>3, <1>6, <1>12 DEF k
    <3>2. "leave" \in {"working", "leave"} /\ "leave" # "working"
      OBVIOUS
    <3>3. WorkFine(u, j, "leave")
      BY <1>5, <1>6, <1>7, <3>1, <3>2, WorkInv, Zenon
    <3> QED BY <3>3 DEF WorkFine
  <2> HIDE DEF v
  <2>2. /\ v \in Tab /\ Shape(v) /\ j \in DOMAIN v.act /\ Ahead(v, j)
        /\ v.act[j].pc \notin Answers
    <3>1. u.act[j] \in Action
      BY <1>5, <1>6, TabFacts
    <3>2. v.act[j].pc = "work"
      BY <1>6, <2>1, <3>1 DEF Action
    <3> QED BY <1>5, <1>6, <2>1, <3>2, ClearKeeps
          DEF Inv, Keeps, Around, Answers
  <2>3. Inv(z, 0) /\ Keeps(v, z, j)
    BY <2>1, <2>2, AddCommandInv, AddCommandKeeps
  <2>4. launched = z
    BY <1>12
  <2> HIDE DEF z, launched
  <2>5. Keeps(u, z, j)
    BY <1>6, <2>1, <2>2, <2>3, KeepsTrans
  <2> QED BY <1>1, <1>2, <1>6, <1>9, <2>3, <2>4, <2>5, KeepsTrans
<1>13. CASE ~leaving /\ k = 0
  <2>1. Inv(Attach(u, j), 0) /\ Keeps(u, Attach(u, j), j)
    BY <1>5, <1>6, <1>7, AttachInv
  <2>2. launched = Attach(u, j)
    BY <1>13
  <2> HIDE DEF launched
  <2> QED BY <1>1, <1>2, <1>6, <1>9, <2>1, <2>2, KeepsTrans
<1>14. CASE ~leaving /\ k # 0 /\ u.client[k] = "closed"
  <2> DEFINE e == OnEnd(u, j)
             z == Over(e, j)
  <2>1. /\ Inv(e, 0) /\ Keeps(u, e, j)
        /\ e.act[j].pc \in {"ended", "detached", "settling"}
    BY <1>5, <1>6, <1>10, OnEndInv
  <2>2. launched = z
    BY <1>14
  <2> HIDE DEF e
  <2>3. /\ e \in Tab /\ Shape(e) /\ j \in DOMAIN e.act /\ Clear(e, j)
        /\ e.act[j].pc \notin Early
    BY <1>5, <1>6, <1>7, <2>1, ClearKeeps DEF Inv, Keeps, Around, Early
  <2>4. Inv(z, 0) /\ Keeps(e, z, j)
    BY <2>1, <2>3, OverInv
  <2> HIDE DEF z, launched
  <2>5. Keeps(u, z, j)
    BY <1>6, <2>1, <2>3, <2>4, KeepsTrans
  <2> QED BY <1>1, <1>2, <1>6, <1>9, <2>2, <2>4, <2>5, KeepsTrans
<1>15. CASE ~leaving /\ k # 0 /\ u.client[k] # "closed"
  <2>1. Inv(w, 0) /\ Keeps(u, w, j)
    <3>1. u.act[j].client # 0 /\ u.act[u.act[j].client].agent = u.act[j].agent
      BY <1>8, <1>15 DEF k
    <3>2. "working" \in {"working", "leave"} /\ "leave" # "working"
      OBVIOUS
    <3>3. WorkFine(u, j, "working")
      BY <1>5, <1>6, <1>7, <3>1, <3>2, WorkInv, Zenon
    <3> QED BY <3>3 DEF WorkFine
  <2>2. launched = w
    BY <1>15
  <2> HIDE DEF w, launched
  <2> QED BY <1>1, <1>2, <1>6, <1>9, <2>1, <2>2, KeepsTrans
<1> QED BY <1>11, <1>12, <1>13, <1>14, <1>15

\* From the dialog check on.
LEMMA ProceedInv ==
  ASSUME NEW s, NEW j, Alone(s, j), NEW look
  PROVE  Inv(Proceed(s, j, look), 0) /\ Keeps(s, Proceed(s, j, look), j)
<1>1. s \in Tab /\ Shape(s) /\ Ready(s, j) /\ Keeps(s, s, j)
  BY ReadyFacts, LosesSelf, LosesKeeps DEF Alone
<1>2. CASE look = "dialog"
  BY <1>1, <1>2, ReadyAnswer DEF Proceed, Answers
<1>3. CASE look # "dialog"
  <2> DEFINE t == IF look = "held" THEN DropClient(s, j) ELSE s
             k == t.act[j].client
             m == [t EXCEPT !.session = 0,
                            !.client[k] = IF @ = "open" THEN "ending" ELSE @]
             n == [m EXCEPT !.act[j].pc = "changing"]
             other == k # 0 /\ Actor(t, k) # t.act[j].agent
  <2>1. Alone(t, j) /\ Keeps(s, t, j)
    BY <1>1, DropClientInv
  <2>2. Proceed(s, j, look) =
          IF other
          THEN [t EXCEPT !.session = 0, !.act[j].pc = "changing",
                         !.client[k] = IF @ = "open" THEN "ending" ELSE @]
          ELSE Launch(t, j, look)
    BY <1>3 DEF Proceed
  <2> HIDE DEF t
  <2>3. /\ t \in Tab /\ Shape(t) /\ t.act[j] \in Action /\ Ready(t, j)
        /\ t.fence = 0
    BY <2>1, ReadyFacts DEF Alone
  <2>4. CASE ~other
    <3>1. Own(t, j)
      BY <2>4 DEF Own, Actor
    <3>2. Inv(Launch(t, j, look), 0) /\ Keeps(t, Launch(t, j, look), j)
      BY <2>1, <3>1, LaunchInv
    <3> HIDE DEF other
    <3>3. Proceed(s, j, look) = Launch(t, j, look)
      BY <2>2, <2>4
    <3> QED BY <1>1, <2>1, <2>3, <3>2, <3>3, KeepsTrans
  <2>5. CASE other
    <3>1. k \in Actions
      BY <2>3, <2>5 DEF Action
    <3>2. Proceed(s, j, look) = n
      BY <2>2, <2>3, <2>5 DEF Tab
    <3> HIDE DEF k
    <3>3. m \in Tab
      BY <2>3, <3>1 DEF Tab
    <3>4. /\ m.kind = t.kind /\ m.peer = t.peer /\ m.fence = t.fence
          /\ m.session = 0 /\ m.act = t.act /\ m.pending = t.pending
          /\ m.client = [t.client EXCEPT ![k] = IF t.client[k] = "open"
                                                THEN "ending" ELSE t.client[k]]
      BY <2>3 DEF Tab
    <3> HIDE DEF m
    <3>5. \A i \in Actions :
            m.client[i] = IF i = k /\ t.client[k] = "open" THEN "ending"
                          ELSE t.client[i]
      BY <2>3, <3>1, <3>4, TabFacts
    <3>6. Loses(t, m)
      BY <2>3, <3>3, <3>4, <3>5, TabFacts DEF Loses, Shape
    <3>7. Ready(m, j) /\ Keeps(t, m, j) /\ m \in Tab /\ Shape(m)
      BY <2>3, <3>6, ReadyLoses DEF Loses
    <3>8. Inv(n, 0) /\ Keeps(m, n, j)
      <4>1. "changing" \in Early \cup {"work"} /\ m.fence = 0
        BY <2>3, <3>4 DEF Early
      <4> QED BY <3>7, <4>1, ReadySetPc
    <3> HIDE DEF n
    <3>9. Keeps(s, m, j)
      BY <1>1, <2>1, <2>3, <3>7, KeepsTrans
    <3> QED BY <1>1, <3>2, <3>7, <3>8, <3>9, KeepsTrans
  <2> QED BY <2>4, <2>5
<1> QED BY <1>2, <1>3

\* After the wait for a recovery.
LEMMA RecoveredInv ==
  ASSUME NEW s, NEW j, Ready(s, j), NEW look,
         s.act[j].pc \notin {"draining", "changing"}
  PROVE  Inv(Recovered(s, j, look), 0) /\ Keeps(s, Recovered(s, j, look), j)
<1>1. s \in Tab /\ Shape(s) /\ s.act[j] \in Action
  BY ReadyFacts
<1>2. CASE s.kind \in {"recovering", "released"}
  <2>1. Refusal(s, j, "not_sent") \in Answers \ {"timed_out", "still_settling"}
    BY DEF Refusal, Answers
  <2> QED BY <1>2, <2>1, ReadyAnswer DEF Recovered
<1>3. CASE s.kind \notin {"recovering", "released"}
  <2> DEFINE k == s.act[j].client
             e == End(s)
             h == Holding(e, j, 0)
             t == IF k # 0 /\ s.client[k] = "closed" THEN h ELSE s
             d == [t EXCEPT !.act[j].pc = "draining"]
  <2>1. Recovered(s, j, look) =
          IF t.fence # 0 THEN Answer(t, j, "not_sent")
          ELSE IF t.pending # {} THEN d ELSE Proceed(t, j, look)
    BY <1>3 DEF Recovered, Holding
  <2>2. Ready(e, j) /\ Keeps(s, e, j) /\ e.act = s.act
    BY <1>1, EndLoses, ReadyLoses
  <2> HIDE DEF e
  <2>3. e \in Tab /\ Shape(e)
    BY <2>2, ReadyFacts
  <2>4. HoldFine(e, j, 0)
    <3>1. 0 \in Actions \cup {0} /\ e.act[j].pc \notin {"draining", "changing"}
      BY <2>2
    <3> QED BY <2>2, <3>1, ReadySetClient, Zenon
  <2>5. Ready(h, j) /\ Keeps(e, h, j)
    BY <2>4 DEF HoldFine
  <2> HIDE DEF h
  <2>6. Keeps(s, h, j) /\ Keeps(s, s, j)
    BY <1>1, <2>2, <2>3, <2>5, KeepsTrans, LosesSelf, LosesKeeps
  <2>7. Ready(t, j) /\ Keeps(s, t, j)
    BY <2>5, <2>6
  <2> HIDE DEF t
  <2>8. t \in Tab /\ Shape(t)
    BY <2>7, ReadyFacts
  <2>9. CASE t.fence # 0
    <3>1. "not_sent" \in Answers \ {"timed_out", "still_settling"}
      BY DEF Answers
    <3>2. /\ Inv(Answer(t, j, "not_sent"), 0)
          /\ Keeps(t, Answer(t, j, "not_sent"), j)
      BY <2>7, <3>1, ReadyAnswer
    <3> QED BY <1>1, <2>1, <2>7, <2>8, <2>9, <3>2, KeepsTrans
  <2>10. CASE t.fence = 0 /\ t.pending # {}
    <3>1. Inv(d, 0) /\ Keeps(t, d, j)
      <4>1. "draining" \in Early \cup {"work"}
        BY DEF Early
      <4> QED BY <2>7, <2>10, <4>1, ReadySetPc
    <3>2. Recovered(s, j, look) = d
      BY <2>1, <2>10
    <3> HIDE DEF d
    <3> QED BY <1>1, <2>7, <2>8, <3>1, <3>2, KeepsTrans
  <2>11. CASE t.fence = 0 /\ t.pending = {}
    <3>1. Inv(Proceed(t, j, look), 0) /\ Keeps(t, Proceed(t, j, look), j)
      BY <2>7, <2>11, ProceedInv DEF Alone
    <3>2. Recovered(s, j, look) = Proceed(t, j, look)
      BY <2>1, <2>11
    <3> QED BY <1>1, <2>7, <2>8, <3>1, <3>2, KeepsTrans
  <2> QED BY <2>9, <2>10, <2>11
<1> QED BY <1>2, <1>3

\* extensionAction, up to its first await.
LEMMA StartInv ==
  ASSUME NEW s, NEW j, Ready(s, j), NEW look, s.act[j].pc = "queued"
  PROVE  Inv(Start(s, j, look), 0) /\ Keeps(s, Start(s, j, look), j)
<1>1. s \in Tab /\ Shape(s) /\ s.act[j] \in Action /\ Idle(s)
  BY ReadyFacts
<1>2. \A r \in {"ended", "closed", "failed", "refused"} :
        r \in Answers \ {"timed_out", "still_settling"}
  BY DEF Answers
<1>3. CASE ~Valid(s, j)
  BY <1>2, <1>3, ReadyAnswer DEF Start
<1>4. CASE Valid(s, j) /\ s.act[j].kind = "close"
  <2> DEFINE e == End(s)
             r == Release(e)
  <2>1. Loses(s, e)
    BY <1>1, EndLoses
  <2>2. Start(s, j, look) = Answer(r, j, "closed")
    BY <1>4 DEF Start
  <2> HIDE DEF e
  <2>3. Ready(e, j) /\ e \in Tab /\ Shape(e) /\ Idle(e)
    BY <1>1, <2>1, ReadyLoses, LosesIdle DEF Loses
  <2>4. Loses(s, r)
    BY <1>1, <2>1, <2>3, ReleaseLoses, LosesTrans
  <2> HIDE DEF r
  <2>5. Ready(r, j) /\ Keeps(s, r, j) /\ r \in Tab /\ Shape(r)
    BY <2>4, ReadyLoses DEF Loses
  <2>6. Inv(Answer(r, j, "closed"), 0) /\ Keeps(r, Answer(r, j, "closed"), j)
    BY <1>2, <2>5, ReadyAnswer
  <2> QED BY <1>1, <2>2, <2>5, <2>6, KeepsTrans
<1>5. CASE Valid(s, j) /\ s.act[j].kind = "mute" /\ s.kind = "recovering"
  BY <1>2, <1>5, ReadyAnswer DEF Start
<1>6. CASE Valid(s, j) /\ s.act[j].kind = "mute" /\ s.kind # "recovering"
  <2> DEFINE c == AddCommand(s, j, "bridge")
             m == [c EXCEPT !.act[j].pc = "muting"]
  <2>1. Start(s, j, look) = m
    BY <1>6 DEF Start
  <2>2. Inv(c, 0) /\ Keeps(s, c, j) /\ c.act = s.act
    BY <1>1, AddCommandInv, AddCommandKeeps, ReadyFacts DEF Ready
  <2> HIDE DEF c
  <2>3. Ready(c, j) /\ c \in Tab /\ Shape(c)
    BY <2>2 DEF Ready, Ahead, Inv
  <2>4. Inv(m, 0) /\ Keeps(c, m, j)
    <3>1. "muting" \in Early \cup {"work"}
      BY DEF Early
    <3> QED BY <2>3, <3>1, ReadySetPc
  <2> HIDE DEF m
  <2> QED BY <1>1, <2>1, <2>2, <2>3, <2>4, KeepsTrans
<1>7. CASE Valid(s, j) /\ s.act[j].kind \notin {"close", "mute"}
  <2> DEFINE t == Holding(s, j, s.session)
             d == [t EXCEPT !.act[j].pc = "recovery"]
             gate == look = IF s.act[j].kind = "goto" THEN "office" ELSE "gated"
  <2>1. Start(s, j, look) =
          IF gate THEN Answer(s, j, "refused")
          ELSE IF s.kind = "recovering" THEN d ELSE Recovered(t, j, look)
    BY <1>7 DEF Start, Holding
  <2> HIDE DEF gate
  <2>2. HoldFine(s, j, s.session)
    BY <1>1, ReadySetClient, TabFacts DEF Shape
  <2>3. /\ Ready(t, j) /\ Keeps(s, t, j)
        /\ t.act[j] = [s.act[j] EXCEPT !.client = s.session]
    BY <2>2 DEF HoldFine
  <2> HIDE DEF t
  <2>4. t \in Tab /\ Shape(t) /\ t.act[j].pc = "queued"
    BY <1>1, <2>3, ReadyFacts DEF Action
  <2>5. CASE gate
    BY <1>2, <2>1, <2>5, ReadyAnswer
  <2>6. CASE ~gate /\ s.kind = "recovering"
    <3>1. Inv(d, 0) /\ Keeps(t, d, j)
      <4>1. "recovery" \in Early \cup {"work"}
        BY DEF Early
      <4> QED BY <2>3, <4>1, ReadySetPc
    <3>2. Start(s, j, look) = d
      BY <2>1, <2>6
    <3> HIDE DEF d
    <3> QED BY <1>1, <2>3, <2>4, <3>1, <3>2, KeepsTrans
  <2>7. CASE ~gate /\ s.kind # "recovering"
    <3>1. Inv(Recovered(t, j, look), 0) /\ Keeps(t, Recovered(t, j, look), j)
      BY <2>3, <2>4, RecoveredInv
    <3>2. Start(s, j, look) = Recovered(t, j, look)
      BY <2>1, <2>7
    <3> QED BY <1>1, <2>3, <2>4, <3>1, <3>2, KeepsTrans
  <2> QED BY <2>5, <2>6, <2>7
<1> QED BY <1>3, <1>4, <1>5, <1>6, <1>7

-----------------------------------------------------------------------------
(* The rest of an action.                                                  *)

\* A step that leaves the actions, the clients and the phase alone.
LEMMA AmbientInv ==
  ASSUME NEW s, NEW t \in Tab, Inv(s, 0), t.act = s.act,
         t.kind = s.kind, t.peer = s.peer, t.fence = s.fence,
         t.session = s.session, t.client = s.client,
         \A i \in DOMAIN s.act : Sent(t, i) => Sent(s, i)
  PROVE  Inv(t, 0) /\ Steady(s, t)
<1>1. Shape(t) /\ Fenced(t)
  BY DEF Inv, Shape, Fenced
<1>2. \A i \in DOMAIN s.act : Reaches(t, i) => Reaches(s, i)
  BY DEF Reaches
<1>3. Around(s, t, 0)
  BY <1>1, <1>2 DEF Around
<1> QED BY <1>1, <1>3, AroundInv DEF Steady

\* The invariant holds with any exemption.
LEMMA InvWeak ==
  ASSUME NEW s, Inv(s, 0), NEW j
  PROVE  Inv(s, j)
BY TabFacts DEF Inv

\* Action j's operation moves on: its client stays, or goes at the end.
LEMMA LateOp ==
  ASSUME NEW s, NEW j \in DOMAIN s.act, NEW x \in {0, j}, Inv(s, x),
         s.act[j].op \in {"connecting", "working", "stray"},
         NEW se \in {s.session, j},
         se # 0 => s.client[se] = "open",
         NEW a \in Action, a.agent = s.act[j].agent, a.pc = s.act[j].pc,
         a.settle = s.act[j].settle, a.retire = s.act[j].retire,
         a.op \in {"working", "stray", "done"},
         \/ a.client = s.act[j].client
         \/ a.op = "done" /\ a.client = 0
  PROVE  LET t == [s EXCEPT !.act[j] = a, !.session = se]
         IN Inv(t, x) /\ Keeps(s, t, j)
<1> DEFINE u == [s EXCEPT !.act[j] = a]
           t == [u EXCEPT !.session = se]
<1>1. /\ s \in Tab /\ Shape(s) /\ Fits(s, j) /\ j \in Actions /\ j # 0
      /\ s.act[j].pc # "queued"
  BY TabFacts DEF Inv, Shape, Fits, Early
<1>2. t = [s EXCEPT !.act[j] = a, !.session = se]
  BY <1>1 DEF Tab
<1>3. /\ Keeps(s, u, j) /\ u.act[j] = a
      /\ u.peer = s.peer /\ u.fence = s.fence /\ u.pending = s.pending
      /\ u.client = s.client /\ u.kind = s.kind /\ u.session = s.session
  BY OnlyAct
<1>4. u \in Tab /\ Shape(u) /\ se \in Actions \cup {0}
  BY <1>1, <1>3, TabFacts DEF Keeps, Around
<1> HIDE DEF u
<1>5. t \in Tab
  BY <1>4 DEF Tab
<1>6. /\ t.act = u.act /\ t.peer = s.peer /\ t.fence = s.fence
      /\ t.pending = s.pending /\ t.client = s.client /\ t.kind = s.kind
      /\ t.session = se
  BY <1>3, <1>4 DEF Tab
<1> HIDE DEF t
<1>7. Shape(t)
  BY <1>3, <1>4, <1>6 DEF Shape
<1>8. /\ DOMAIN t.act = DOMAIN s.act
      /\ \A i \in DOMAIN s.act : /\ t.act[i].agent = s.act[i].agent
                                 /\ i # j => t.act[i] = s.act[i]
  BY <1>3, <1>6 DEF Keeps, Around
<1>9. \A i \in DOMAIN s.act : /\ Sent(t, i) => Sent(s, i)
                              /\ Reaches(t, i) => Reaches(s, i)
  BY <1>3, <1>6, <1>8 DEF Sent, Reaches
<1>10. Around(s, t, j)
  BY <1>5, <1>6, <1>7, <1>8, <1>9 DEF Around
<1>11. Steady(s, t)
  BY <1>6 DEF Steady
<1>12. Fenced(t)
  BY <1>3, <1>6, <1>8 DEF Inv, Fenced
<1>13. Fits(t, j)
  <2>1. a.client \in Actions \cup {0}
    BY DEF Action
  <2>2. a.client # 0 => t.act[a.client].agent = s.act[a.client].agent
    BY <1>1, <1>8, <2>1 DEF Fits, Shape
  <2> QED BY <1>1, <1>3, <1>6, <1>9, <2>2 DEF Fits, Leaves
<1>14. Ahead(s, j) /\ Clear(s, j)
  BY <1>1 DEF Inv, InOrder
<1>15. Inv(t, j)
  BY <1>3, <1>6, <1>9, <1>10, <1>12, <1>13, <1>14, KeepsInv
<1>16. CASE x = 0
  <2>1. Silent(s, j)
    BY <1>1, <1>16 DEF Inv
  <2>2. Silent(t, j)
    BY <1>3, <1>6, <1>9, <2>1 DEF Silent, Leaves
  <2> QED BY <1>2, <1>10, <1>11, <1>15, <1>16, <2>2, Closing DEF Keeps
<1> QED BY <1>2, <1>10, <1>11, <1>15, <1>16 DEF Keeps

\* The navigation away from the office page was answered.
LEMMA LeftInv ==
  ASSUME NEW s, NEW j \in DOMAIN s.act, Inv(s, 0), s.act[j].op = "leave"
  PROVE  LET t == [s EXCEPT !.act[j].op = "left"]
         IN Inv(t, 0) /\ Keeps(s, t, j)
<1> DEFINE a == [s.act[j] EXCEPT !.op = "left"]
           t == [s EXCEPT !.act[j] = a]
<1>1. /\ s \in Tab /\ Shape(s) /\ Fits(s, j) /\ s.act[j] \in Action
      /\ s.act[j].pc # "queued" /\ Silent(s, j)
  BY TabFacts DEF Inv, Fits, Early
<1>2. a \in Action /\ a.agent = s.act[j].agent
  BY <1>1 DEF Action
<1>3. /\ a.pc = s.act[j].pc /\ a.op = "left" /\ a.client = s.act[j].client
      /\ a.settle = s.act[j].settle /\ a.retire = s.act[j].retire
  BY <1>1 DEF Action
<1>4. t = [s EXCEPT !.act[j].op = "left"]
  BY <1>1 DEF Tab
<1> HIDE DEF a
<1>5. /\ Keeps(s, t, j) /\ t.act[j] = a /\ t.fence = s.fence
      /\ t.pending = s.pending /\ t.client = s.client /\ t.session = s.session
  BY <1>2, OnlyAct
<1> HIDE DEF t
<1>6. ~Reaches(t, j) /\ (Sent(t, j) <=> Sent(s, j)) /\ Around(s, t, j)
  BY <1>3, <1>5 DEF Reaches, Sent, Keeps
<1>7. Fenced(t)
  BY <1>3, <1>5, <1>6 DEF Inv, Fenced, Around
<1>8. Fits(t, j)
  BY <1>1, <1>3, <1>5, <1>6 DEF Fits, Leaves
<1>9. Ahead(s, j)
  BY <1>1 DEF Inv, InOrder
<1>10. Inv(t, j)
  BY <1>3, <1>5, <1>6, <1>7, <1>8, <1>9, KeepsInv
<1>11. Silent(t, j)
  BY <1>1, <1>3, <1>5, <1>6 DEF Silent, Leaves
<1> QED BY <1>4, <1>5, <1>10, <1>11, Closing

\* An action is answered and its client is retired with it.
LEMMA AnswerRetire ==
  ASSUME NEW s, NEW j \in DOMAIN s.act, Inv(s, 0), s.act[j].pc = "work",
         s.act[j].op \notin Leaves
  PROVE  LET t == Retire(Answer(s, j, "failed"))
         IN /\ Inv(t, 0) /\ Keeps(s, t, j)
            /\ t.act[j].op = s.act[j].op /\ t.act[j].client = s.act[j].client
            /\ t.act[j].pc = "failed"
<1> DEFINE f == Answer(s, j, "failed")
           t == Retire(f)
<1>1. s \in Tab /\ Shape(s) /\ s.act[j] \in Action /\ s.act[j].pc \notin Answers
  BY TabFacts DEF Inv, Answers
<1>2. /\ Ahead(s, j)
      /\ \A i \in DOMAIN s.act : i # j => s.act[i].pc # "work"
  <2>1. s.act[j].pc \notin Answers \cup {"queued"}
    BY <1>1
  <2> QED BY <2>1, OneActive DEF Answers
<1>3. /\ Inv(f, j) /\ Keeps(s, f, j)
      /\ f.act[j] = [s.act[j] EXCEPT !.pc = "failed"]
  <2>1. "failed" \in Answers /\ "failed" \notin {"timed_out", "still_settling"}
    BY DEF Answers
  <2> QED BY <1>1, <1>2, <2>1, AnswerInv
<1> HIDE DEF f
<1>4. /\ f \in Tab /\ Shape(f) /\ f.act[j].pc = "failed"
      /\ f.act[j].op = s.act[j].op /\ f.act[j].client = s.act[j].client
  BY <1>1, <1>3 DEF Inv, Action
<1>5. Idle(f)
  <2>1. Around(s, f, j)
    BY <1>3 DEF Keeps
  <2> QED BY <1>2, <1>4, <2>1 DEF Idle, Around
<1>6. Loses(f, t) /\ t.peer = 0
  BY <1>4, <1>5, RetireLoses
<1> HIDE DEF t
<1>7. Inv(t, j) /\ Keeps(f, t, j) /\ t.act = f.act
  BY <1>3, <1>4, <1>6, LosesInv, LosesKeeps DEF Loses
<1>8. Keeps(s, t, j)
  BY <1>1, <1>3, <1>4, <1>7, KeepsTrans
<1>9. ~Reaches(t, j)
  BY <1>6 DEF Reaches
<1>10. Inv(t, 0)
  BY <1>4, <1>7, <1>9, OutOfReach, Closing
<1> QED BY <1>4, <1>7, <1>8, <1>10 DEF t, f

-----------------------------------------------------------------------------
(* The steps.                                                              *)

\* The invariant holds after the step, and a fence that went while its client
\* stayed is that of a settled action.
Fine(s, t) ==
  /\ Inv(t, 0)
  /\ s.fence # 0 /\ t.peer = s.peer /\ t.fence # s.fence =>
       s.act[s.fence].op \in {"stray", "done"} /\ s.pending = {}

\* A steady step is fine.
LEMMA SteadyFine ==
  ASSUME NEW s, NEW t, Inv(t, 0), Steady(s, t)
  PROVE  Fine(s, t)
BY DEF Steady, Fine

\* A step of one action is fine.
LEMMA KeepsFine ==
  ASSUME NEW s, NEW t, NEW j, Inv(t, 0), Keeps(s, t, j)
  PROVE  Fine(s, t)
BY DEF Keeps, Steady, Fine

\* An action under way is the next one.
LEMMA IsReady ==
  ASSUME NEW s, NEW j \in DOMAIN s.act, Inv(s, 0),
         s.act[j].pc \in Early \ {"queued"}
  PROVE  Ready(s, j)
BY DEF Ready, Inv, InOrder

\* A new action waits behind the others.
LEMMA RunStep ==
  ASSUME Inv(tab, 0), NEW agent \in Agents, NEW kind \in Kinds,
         NEW named \in BOOLEAN, Run(agent, kind, named)
  PROVE  Fine(tab, tab')
<1> DEFINE a == [agent |-> agent, kind |-> kind, named |-> named,
                 pc |-> "queued", client |-> 0, op |-> "none",
                 settle |-> "none", retire |-> FALSE]
           n == Len(tab.act) + 1
           t == [tab EXCEPT !.act = Append(@, a)]
<1>1. tab' = t /\ Len(tab.act) < MaxActions
  BY DEF Run, Step
<1>2. /\ tab \in Tab /\ Shape(tab) /\ InOrder(tab) /\ Fenced(tab)
      /\ \A i \in DOMAIN tab.act : Fits(tab, i) /\ Silent(tab, i)
  BY TabFacts DEF Inv
<1>3. /\ a \in Action /\ a.pc = "queued" /\ a.client = 0 /\ a.op = "none"
      /\ a.settle = "none"
  BY DEF Action, Waiting
<1> HIDE DEF a
<1>4. /\ tab.act \in Seq(Action) /\ Append(tab.act, a) \in Seq(Action)
      /\ n \in Nat /\ DOMAIN Append(tab.act, a) = 1..n
      /\ DOMAIN tab.act = 1..(n - 1)
      /\ Append(tab.act, a)[n] = a
      /\ \A i \in 1..(n - 1) : Append(tab.act, a)[i] = tab.act[i]
  BY <1>2, <1>3 DEF Tab
<1>5. t \in Tab
  BY <1>2, <1>4 DEF Tab
<1>6. /\ t.kind = tab.kind /\ t.peer = tab.peer /\ t.fence = tab.fence
      /\ t.session = tab.session /\ t.client = tab.client
      /\ t.act = Append(tab.act, a) /\ t.pending = tab.pending
  BY <1>2 DEF Tab
<1> HIDE DEF t
<1>7. /\ DOMAIN t.act = 1..n /\ t.act[n] = a /\ n \in Nat
      /\ \A i \in DOMAIN tab.act : t.act[i] = tab.act[i] /\ i \in Nat /\ i < n
      /\ \A i \in DOMAIN t.act : i = n \/ i \in DOMAIN tab.act
      /\ \A i \in DOMAIN t.act : i \in Nat /\ i <= n
  BY <1>4, <1>6
<1>8. n \in Actions /\ n \notin DOMAIN tab.act
  <2>1. MaxActions \in Nat
    BY BoundsAssumption
  <2> QED BY <1>1, <1>4, <2>1 DEF Actions
<1>9. Shape(t)
  BY <1>2, <1>6, <1>7, <1>8 DEF Shape
<1>10. \A i \in DOMAIN tab.act :
         (Sent(t, i) <=> Sent(tab, i)) /\ (Reaches(t, i) <=> Reaches(tab, i))
  BY <1>6, <1>7 DEF Sent, Reaches
<1>11. ~Reaches(t, n)
  BY <1>3, <1>7 DEF Reaches
<1>12. InOrder(t)
  <2>1. ASSUME NEW i \in DOMAIN tab.act
        PROVE  /\ Ahead(tab, i) => Ahead(t, i)
               /\ Clear(tab, i) => Clear(t, i)
    BY <1>7, <1>10 DEF Ahead, Clear
  <2> QED BY <1>2, <1>3, <1>7, <2>1 DEF InOrder
<1>13. Fenced(t)
  BY <1>2, <1>3, <1>6, <1>7 DEF Fenced
<1>14. ASSUME NEW i \in DOMAIN t.act PROVE Fits(t, i) /\ Silent(t, i)
  <2>1. CASE i = n
    <3>1. t.client[n] = "unused"
      BY <1>2, <1>6, <1>8 DEF Shape
    <3> QED BY <1>3, <1>7, <1>11, <2>1, <3>1
          DEF Fits, Silent, Leaves, Early, Final
  <2>2. CASE i \in DOMAIN tab.act
    <3>1. Fits(tab, i) /\ Silent(tab, i) /\ t.act[i] = tab.act[i]
      BY <1>2, <1>7, <2>2
    <3>2. tab.act[i].client \in Actions \cup {0}
      BY <1>2, <2>2, TabFacts DEF Action
    <3>3. tab.act[i].client # 0 =>
            t.act[tab.act[i].client] = tab.act[tab.act[i].client]
      BY <1>2, <1>7, <3>1, <3>2 DEF Fits, Shape
    <3> QED BY <1>6, <1>10, <2>2, <3>1, <3>3 DEF Fits, Silent
  <2> QED BY <1>7, <2>1, <2>2
<1>15. Inv(t, 0)
  BY <1>5, <1>9, <1>12, <1>13, <1>14 DEF Inv
<1>16. Steady(tab, t)
  BY <1>6 DEF Steady
<1> QED BY <1>1, <1>15, <1>16, SteadyFine

\* The next action begins.
LEMMA BeginStep ==
  ASSUME Inv(tab, 0), NEW j \in DOMAIN tab.act, NEW look, Begin(j, look)
  PROVE  Fine(tab, tab')
<1>1. \A i \in DOMAIN tab.act : i \in Nat /\ i >= 1
  BY TabFacts DEF Inv
<1>2. Ready(tab, j) /\ tab.act[j].pc = "queued"
  BY <1>1 DEF Begin, Answered, Ready, Ahead, Early
<1>3. tab' = Start(tab, j, look)
  BY DEF Begin, Step
<1> QED BY <1>2, <1>3, StartInv, KeepsFine

\* It goes on after a recovery.
LEMMA RecoveryOverStep ==
  ASSUME Inv(tab, 0), NEW j \in DOMAIN tab.act, NEW look, RecoveryOver(j, look)
  PROVE  Fine(tab, tab')
<1>1. /\ Ready(tab, j) /\ tab.act[j].pc \notin {"draining", "changing"}
      /\ tab' = Recovered(tab, j, look)
  BY IsReady DEF RecoveryOver, Step, Early
<1> QED BY <1>1, RecoveredInv, KeepsFine

\* It goes on when the flight is empty, or is told that it sent nothing.
LEMMA DrainedStep ==
  ASSUME Inv(tab, 0), NEW j \in DOMAIN tab.act, NEW look, Drained(j, look)
  PROVE  Fine(tab, tab')
<1>1. Ready(tab, j) /\ tab.fence = 0
  BY IsReady, FenceFree DEF Drained, Early
<1>2. CASE tab.pending # {}
  <2>1. tab' = Answer(tab, j, "not_sent")
    BY <1>2 DEF Drained, Step
  <2> QED BY <1>1, <2>1, ReadyAnswer, KeepsFine DEF Answers
<1>3. CASE tab.pending = {}
  <2>1. tab' = Proceed(tab, j, look) /\ Alone(tab, j)
    BY <1>1, <1>3 DEF Drained, Step, Alone
  <2> QED BY <2>1, ProceedInv, KeepsFine
<1> QED BY <1>2, <1>3

\* It goes on without the other agent's client.
LEMMA ChangedStep ==
  ASSUME Inv(tab, 0), NEW j \in DOMAIN tab.act, NEW look, Changed(j, look)
  PROVE  Fine(tab, tab')
<1> DEFINE c == CloseTransport(tab, tab.act[j].client)
           h == Holding(c, j, 0)
<1>1. Ready(tab, j) /\ tab.fence = 0
  BY IsReady, FenceFree DEF Changed, Early
<1>2. /\ tab \in Tab /\ Shape(tab) /\ Idle(tab)
      /\ tab.act[j].client \in Actions \cup {0}
  BY <1>1, ReadyFacts DEF Action
<1>3. tab' = IF h.pending # {} THEN Answer(h, j, "not_sent")
             ELSE Launch(h, j, look)
  BY DEF Changed, Step, Holding
<1>4. Loses(tab, c)
  BY <1>2, CloseLoses
<1> HIDE DEF c
<1>5. /\ Ready(c, j) /\ Keeps(tab, c, j) /\ c \in Tab /\ Shape(c)
      /\ c.fence = 0
  BY <1>1, <1>4, ReadyLoses DEF Loses
<1>6. HoldFine(c, j, 0)
  <2>1. 0 \in Actions \cup {0}
    OBVIOUS
  <2> QED BY <1>5, <2>1, ReadySetClient, Zenon
<1>7. Ready(h, j) /\ Keeps(c, h, j) /\ h.fence = 0 /\ h.act[j].client = 0
  BY <1>5, <1>6 DEF HoldFine
<1> HIDE DEF h
<1>8. Keeps(tab, h, j) /\ h \in Tab /\ Shape(h)
  BY <1>2, <1>5, <1>7, KeepsTrans, ReadyFacts
<1>9. CASE h.pending # {}
  <2>1. /\ Inv(Answer(h, j, "not_sent"), 0)
        /\ Keeps(h, Answer(h, j, "not_sent"), j)
    BY <1>7, ReadyAnswer DEF Answers
  <2> QED BY <1>2, <1>3, <1>8, <1>9, <2>1, KeepsTrans, KeepsFine
<1>10. CASE h.pending = {}
  <2>1. Inv(Launch(h, j, look), 0) /\ Keeps(h, Launch(h, j, look), j)
    BY <1>7, <1>10, LaunchInv DEF Alone, Own
  <2> QED BY <1>2, <1>3, <1>8, <1>10, <2>1, KeepsTrans, KeepsFine
<1> QED BY <1>9, <1>10

\* A mute has no client.
LEMMA MuteAnswersStep ==
  ASSUME Inv(tab, 0), NEW j \in DOMAIN tab.act, MuteAnswers(j)
  PROVE  Fine(tab, tab')
<1>1. Ready(tab, j)
  BY IsReady DEF MuteAnswers, Early
<1>2. \E r \in {"ok", "ended", "failed"} : tab' = Answer(tab, j, r)
  BY DEF MuteAnswers, Step, Refusal
<1>3. \A r \in {"ok", "ended", "failed"} :
        r \in Answers \ {"timed_out", "still_settling"}
  BY DEF Answers
<1> QED BY <1>1, <1>2, <1>3, ReadyAnswer, KeepsFine

\* The timer of an action fences what the operation may still do.
LEMMA WatchdogStep ==
  ASSUME Inv(tab, 0), NEW j \in DOMAIN tab.act, Watchdog(j)
  PROVE  Fine(tab, tab')
<1>1. /\ tab.act[j].pc = "work" /\ tab.act[j].op \notin Leaves
      /\ tab' = SettleTimeout(tab, j, TRUE)
  BY DEF Watchdog, Step, Leaves
<1>2. SettleFine(tab, j, 0, TRUE)
  BY <1>1, SettleTimeoutInv, Zenon
<1>3. Inv(tab', 0) /\ Keeps(tab, tab', j)
  BY <1>1, <1>2 DEF SettleFine
<1> QED BY <1>3, KeepsFine

\* The timer of a leave ends the operation as well.
LEMMA LeaveTimesOutStep ==
  ASSUME Inv(tab, 0), NEW j \in DOMAIN tab.act, LeaveTimesOut(j)
  PROVE  Fine(tab, tab')
<1>1. /\ tab.act[j].op \in Leaves /\ tab.act[j].op # "none"
      /\ tab \in Tab /\ Shape(tab) /\ Silent(tab, j)
  BY TabFacts DEF LeaveTimesOut, Leaves, Inv
<1>2. CASE tab.act[j].pc = "work"
  <2> DEFINE t == SettleTimeout(tab, j, FALSE)
  <2>1. tab' = Over(t, j)
    BY <1>2 DEF LeaveTimesOut, Step
  <2>2. SettleFine(tab, j, 0, FALSE)
    BY <1>2, SettleTimeoutInv, Zenon
  <2>3. /\ Inv(t, j) /\ Keeps(tab, t, j) /\ t.act[j].op = tab.act[j].op
        /\ t.act[j].pc \in {"ended", "settling"}
    BY <2>2 DEF SettleFine
  <2> HIDE DEF t
  <2>4. /\ t \in Tab /\ Shape(t) /\ j \in DOMAIN t.act
        /\ t.act[j].pc \notin Early
    BY <2>3 DEF Inv, Keeps, Around, Early
  <2>5. Inv(tab', 0) /\ Keeps(t, tab', j)
    BY <1>1, <2>1, <2>3, <2>4, OverInv
  <2> QED BY <1>1, <2>3, <2>4, <2>5, KeepsTrans, KeepsFine
<1>3. CASE tab.act[j].pc # "work"
  <2>1. tab' = Over(tab, j)
    BY <1>3 DEF LeaveTimesOut, Step
  <2>2. tab.act[j].pc \notin Early
    BY <1>1, <1>3 DEF Silent, Unclear, Early
  <2> QED BY <1>1, <2>1, <2>2, OverInv, KeepsFine
<1> QED BY <1>2, <1>3

\* The settlement opens its own fence alone. A client that is kept is out of
\* reach of its action by Silent; one that may not be is retired.
LEMMA SettledStep ==
  ASSUME Inv(tab, 0), NEW j \in DOMAIN tab.act, Settled(j)
  PROVE  Fine(tab, tab')
<1> DEFINE a == [tab.act[j] EXCEPT !.settle = "done", !.retire = FALSE]
           s == [tab EXCEPT !.act[j] = a]
           r == Retire(s)
<1>1. /\ tab \in Tab /\ Shape(tab) /\ Fits(tab, j) /\ Silent(tab, j)
      /\ tab.act[j] \in Action /\ j # 0
  BY TabFacts DEF Inv
<1>2. /\ tab.act[j].settle = "waiting" /\ tab.act[j].op \in {"stray", "done"}
      /\ tab.pending = {}
  BY DEF Settled
<1>3. tab' = IF tab.fence # j THEN s
             ELSE [IF tab.act[j].retire THEN r ELSE s EXCEPT !.fence = 0]
  BY DEF Settled, Held, Step
<1>4. a \in Action /\ a.agent = tab.act[j].agent
  BY <1>1 DEF Action
<1>5. /\ a.pc = tab.act[j].pc /\ a.op = tab.act[j].op /\ a.settle = "done"
      /\ a.client = tab.act[j].client /\ a.retire = FALSE
  BY <1>1 DEF Action
<1>6. tab.act[j].pc \notin Early /\ tab.act[j].pc # "work" /\ Ahead(tab, j)
  BY <1>1, <1>2 DEF Fits, Inv, InOrder, Early
<1> HIDE DEF a
<1>7. /\ Keeps(tab, s, j) /\ s.act[j] = a
      /\ s.peer = tab.peer /\ s.fence = tab.fence /\ s.pending = tab.pending
      /\ s.client = tab.client /\ s.kind = tab.kind
      /\ s.session = tab.session
  BY <1>4, OnlyAct
<1> HIDE DEF s
<1>8. /\ s \in Tab /\ Shape(s) /\ Around(tab, s, j)
      /\ Reaches(s, j) => Reaches(tab, j)
  BY <1>5, <1>7 DEF Keeps, Around, Reaches
\* Whatever the step does to the client, the action is out of reach after it.
<1>9. ASSUME NEW t, Around(tab, t, j), t.act = s.act, ~Reaches(t, j),
             t.pending \subseteq tab.pending, t.fence \in {0, tab.fence},
             t.fence # j, t.client[j] = "unused" <=> tab.client[j] = "unused",
             t.session = j => tab.session = j,
             a.client # 0 => t.client[a.client] # "unused"
      PROVE  Inv(t, 0)
  <2>1. t.act[j] = a /\ ~Sent(t, j)
    BY <1>2, <1>7, <1>9 DEF Sent
  <2>2. Fenced(t)
    BY <1>5, <1>9, <2>1 DEF Inv, Fenced, Around
  <2>3. a.client # 0 => t.act[a.client].agent = tab.act[a.client].agent
    <3>1. a.client \in Actions \cup {0}
      BY <1>4 DEF Action
    <3> QED BY <1>1, <1>5, <1>9, <3>1 DEF Around, Fits, Shape
  <2>4. Fits(t, j)
    BY <1>1, <1>2, <1>4, <1>5, <1>6, <1>9, <2>1, <2>3 DEF Fits, Leaves
  <2>5. Inv(t, j)
    BY <1>2, <1>5, <1>6, <1>9, <2>1, <2>2, <2>4, KeepsInv
  <2> QED BY <1>2, <1>5, <1>9, <2>1, <2>5, OutOfReach, Closing DEF Leaves
<1>10. CASE tab.fence # j
  <2>1. ~Reaches(s, j)
    BY <1>1, <1>2, <1>8, <1>10 DEF Fits
  <2>2. Inv(s, 0)
    BY <1>1, <1>5, <1>7, <1>8, <1>9, <1>10, <2>1 DEF Fits
  <2> QED BY <1>3, <1>7, <1>10, <2>2, KeepsFine
<1>11. CASE tab.fence = j /\ ~tab.act[j].retire
  <2> DEFINE t == [s EXCEPT !.fence = 0]
  <2>1. tab' = t
    BY <1>3, <1>11
  <2>2. t \in Tab
    BY <1>8 DEF Tab
  <2>3. /\ t.act = s.act /\ t.peer = s.peer /\ t.fence = 0
        /\ t.kind = s.kind /\ t.pending = s.pending /\ t.client = s.client
        /\ t.session = s.session
    BY <1>8 DEF Tab
  <2> HIDE DEF t
  <2>4. Shape(t)
    BY <1>8, <2>3 DEF Shape
  <2>5. \A i \in DOMAIN tab.act :
          (Sent(t, i) <=> Sent(s, i)) /\ (Reaches(t, i) <=> Reaches(s, i))
    BY <2>3 DEF Sent, Reaches
  <2>6. Around(tab, t, j)
    BY <1>7, <1>8, <1>11, <2>2, <2>3, <2>4, <2>5 DEF Around
  <2>7. ~Reaches(t, j)
    BY <1>1, <1>2, <1>8, <1>11, <2>5 DEF Silent
  <2>8. Inv(t, 0)
    BY <1>1, <1>5, <1>7, <1>9, <2>3, <2>6, <2>7 DEF Fits
  <2> QED BY <1>2, <1>11, <2>1, <2>8 DEF Fine
<1>12. CASE tab.fence = j /\ tab.act[j].retire
  <2>1. Idle(s)
    <3>1. \A i \in DOMAIN tab.act : tab.act[i].pc # "work"
      <4>1. \A i \in DOMAIN tab.act : tab.act[i].pc = "work" => tab.fence = 0
        BY FenceFree
      <4> QED BY <1>1, <1>12, <4>1
    <3> QED BY <1>5, <1>6, <1>7, <1>8, <3>1 DEF Idle, Around
  <2>2. Loses(s, r) /\ r.peer = 0
    BY <1>8, <2>1, RetireLoses
  <2>3. tab' = [r EXCEPT !.fence = 0]
    BY <1>3, <1>12
  <2> HIDE DEF r
  <2>4. r \in Tab /\ Shape(r) /\ r.act = s.act /\ Keeps(s, r, j) /\ r.fence = 0
    BY <1>8, <2>2, LosesKeeps DEF Loses, Shape
  <2>5. tab' = r
    BY <2>3, <2>4 DEF Tab
  <2>6. Keeps(tab, r, j)
    BY <1>1, <1>7, <1>8, <2>4, KeepsTrans
  <2>7. ~Reaches(r, j)
    BY <2>2 DEF Reaches
  <2>8. /\ r.client[j] = "unused" <=> tab.client[j] = "unused"
        /\ r.session = j => tab.session = j
        /\ a.client # 0 => r.client[a.client] # "unused"
        /\ r.pending \subseteq tab.pending
    <3>1. j \in Actions /\ a.client \in Actions \cup {0}
      BY <1>1, <1>4 DEF Shape, Action
    <3> QED BY <1>1, <1>5, <1>7, <2>2, <3>1 DEF Loses, Fits
  <2>9. Inv(r, 0)
    BY <1>1, <1>9, <2>4, <2>6, <2>7, <2>8 DEF Keeps
  <2> QED BY <2>5, <2>6, <2>9, KeepsFine
<1> QED BY <1>10, <1>11, <1>12

\* An action told that it timed out has nothing in flight and no fence.
LEMMA GraceStep ==
  ASSUME Inv(tab, 0), NEW j \in DOMAIN tab.act, Grace(j)
  PROVE  Fine(tab, tab')
<1> DEFINE r == IF ~Valid(tab, j) THEN "ended"
                ELSE IF Held(j) \/ tab.pending # {} THEN "still_settling"
                ELSE "timed_out"
           t == Answer(tab, j, r)
<1>1. tab' = t /\ tab.act[j].pc = "settling"
  BY DEF Grace, Step
<1>2. /\ tab \in Tab /\ Fits(tab, j) /\ Silent(tab, j) /\ tab.act[j] \in Action
      /\ tab.act[j].settle \in {"waiting", "done"}
  BY <1>1, TabFacts DEF Inv, Fits, Action
<1>3. tab.act[j].pc \notin Answers /\ Ahead(tab, j)
  BY <1>1 DEF Answers, Inv, InOrder
<1>4. r \in Answers /\ r \in {"ended", "still_settling", "timed_out"}
  BY DEF Answers
<1>5. r = "timed_out" => tab.pending = {} /\ tab.fence # j
  BY DEF Held
<1> HIDE DEF r
<1>6. r = "timed_out" => ~Sent(tab, j) /\ ~Reaches(tab, j)
  BY <1>2, <1>5 DEF Sent, Fits, Silent
<1>7. /\ Inv(t, j) /\ Keeps(tab, t, j)
      /\ t.act[j] = [tab.act[j] EXCEPT !.pc = r]
      /\ Reaches(t, j) <=> Reaches(tab, j)
  BY <1>2, <1>3, <1>4, <1>6, AnswerInv
<1> HIDE DEF t
<1>8. /\ t.act[j].pc = r /\ t.act[j].op = tab.act[j].op
      /\ t.act[j].settle = tab.act[j].settle
      /\ t.act[j].retire = tab.act[j].retire
  BY <1>2, <1>7 DEF Action
<1>9. Silent(t, j)
  BY <1>2, <1>4, <1>6, <1>7, <1>8 DEF Silent, Final
<1> QED BY <1>1, <1>7, <1>9, Closing, KeepsFine

\* The fence's ceiling: the client goes with it.
LEMMA CeilingStep ==
  ASSUME Inv(tab, 0), NEW j \in DOMAIN tab.act, Ceiling(j)
  PROVE  Fine(tab, tab')
<1> DEFINE s == [tab EXCEPT !.fence = 0]
<1>1. tab \in Tab /\ Shape(tab) /\ tab.fence = j /\ j # 0 /\ tab' = Retire(s)
  BY TabFacts DEF Inv, Ceiling, Step
<1>2. tab.kind = "attached"
  BY <1>1 DEF Shape
<1>3. s.kind = tab.kind /\ s.peer = tab.peer
  BY <1>1 DEF Tab
<1>4. Cut(s) = Cut(tab)
  BY <1>1, <1>2, <1>3 DEF Cut, Enter, Tab
<1> HIDE DEF s
<1>5. Retire(s) = Retire(tab)
  <2>1. RetireClient(s) = CloseTransport(Cut(s), s.peer)
    BY <1>2, <1>3 DEF RetireClient, Cut
  <2>2. RetireClient(tab) = CloseTransport(Cut(tab), tab.peer)
    BY <1>2 DEF RetireClient, Cut
  <2> QED BY <1>3, <1>4, <2>1, <2>2 DEF Retire
<1>6. Inv(tab', 0) /\ Steady(tab, tab')
  BY <1>1, <1>5, RetireInv
<1> QED BY <1>6, SteadyFine

\* A late command is still in flight.
LEMMA CommandTimesOutStep ==
  ASSUME Inv(tab, 0), NEW c, CommandTimesOut(c)
  PROVE  Fine(tab, tab')
<1> DEFINE d == [c EXCEPT !.late = TRUE]
<1>1. tab \in Tab /\ c \in tab.pending /\ c \in Command
  BY DEF Inv, CommandTimesOut, Tab
<1>2. tab' = [tab EXCEPT !.pending = (tab.pending \ {c}) \cup {d}]
  BY DEF CommandTimesOut, Step
<1>3. d \in Command /\ d.act = c.act
  BY <1>1 DEF Command
<1> HIDE DEF d
<1>4. tab' \in Tab
  BY <1>1, <1>2, <1>3 DEF Tab
<1>5. /\ tab'.act = tab.act /\ tab'.kind = tab.kind /\ tab'.peer = tab.peer
      /\ tab'.fence = tab.fence /\ tab'.session = tab.session
      /\ tab'.client = tab.client
      /\ tab'.pending = (tab.pending \ {c}) \cup {d}
  BY <1>1, <1>2 DEF Tab
<1>6. \A i \in DOMAIN tab.act : Sent(tab', i) => Sent(tab, i)
  BY <1>1, <1>3, <1>5 DEF Sent
<1>7. Inv(tab', 0) /\ Steady(tab, tab')
  BY <1>4, <1>5, <1>6, AmbientInv
<1> QED BY <1>7, SteadyFine

\* A command that was never answered takes the client along.
LEMMA CommandUnansweredStep ==
  ASSUME Inv(tab, 0), NEW c, CommandUnanswered(c)
  PROVE  Fine(tab, tab')
BY RetireClientInv, SteadyFine DEF CommandUnanswered, Step

\* A goto that left the office page attaches a client.
LEMMA LeaveCommitsStep ==
  ASSUME Inv(tab, 0), NEW j \in DOMAIN tab.act, LeaveCommits(j)
  PROVE  Fine(tab, tab')
<1>1. tab.act[j].op = "left" /\ tab' = Attach(tab, j)
  BY DEF LeaveCommits, Step
<1> QED BY <1>1, AttachInv, KeepsFine

\* Or it fails.
LEMMA LeaveFailsStep ==
  ASSUME Inv(tab, 0), NEW j \in DOMAIN tab.act, LeaveFails(j)
  PROVE  Fine(tab, tab')
<1>1. tab.act[j].op \in Leaves /\ tab.act[j].op # "none" /\ Silent(tab, j)
  BY TabFacts DEF LeaveFails, Leaves, Inv
<1>2. CASE tab.act[j].pc = "work"
  <2>1. tab' = Over(Failed(tab, j), j)
    BY <1>2 DEF LeaveFails, Step
  <2> QED BY <1>1, <1>2, <2>1, GiveUpInv, KeepsFine
<1>3. CASE tab.act[j].pc # "work"
  <2>1. tab' = Over(tab, j)
    BY <1>3 DEF LeaveFails, Step
  <2>2. tab.act[j].pc \notin Early
    BY <1>1, <1>3 DEF Silent, Unclear, Early
  <2> QED BY <1>1, <2>1, <2>2, OverInv, KeepsFine
<1> QED BY <1>2, <1>3

\* Only an action that reaches the page sends.
LEMMA ClientCommandStep ==
  ASSUME Inv(tab, 0), NEW j \in DOMAIN tab.act, ClientCommand(j)
  PROVE  Fine(tab, tab')
<1>1. tab' = AddCommand(tab, j, "client") /\ Reaches(tab, j)
  BY DEF ClientCommand, Step
<1>2. tab \in Tab /\ Shape(tab) /\ Ahead(tab, j)
  BY <1>1 DEF Inv, InOrder, Fits, Early, Reaches
<1>3. Inv(tab', 0) /\ Keeps(tab, tab', j)
  BY <1>1, <1>2, AddCommandInv, AddCommandKeeps
<1> QED BY <1>3, KeepsFine

\* A client that is not in the map begins to close.
LEMMA FadeLoses ==
  ASSUME NEW s \in Tab, Shape(s), NEW k \in Actions, s.session # k,
         s.client[k] = "open"
  PROVE  Loses(s, [s EXCEPT !.client[k] = "ending"])
<1> DEFINE t == [s EXCEPT !.client[k] = "ending"]
<1>1. t \in Tab
  BY DEF Tab
<1>2. /\ t.kind = s.kind /\ t.peer = s.peer /\ t.fence = s.fence
      /\ t.act = s.act /\ t.pending = s.pending /\ t.session = s.session
      /\ t.client = [s.client EXCEPT ![k] = "ending"]
  BY DEF Tab
<1>3. \A i \in Actions : t.client[i] = IF i = k THEN "ending" ELSE s.client[i]
  BY <1>2, TabFacts
<1> HIDE DEF t
<1>4. Loses(s, t)
  BY <1>1, <1>2, <1>3, TabFacts DEF Loses, Shape
<1> QED BY <1>4 DEF t

\* The client is connected, and is its action's own.
LEMMA ConnectedStep ==
  ASSUME Inv(tab, 0), NEW j \in DOMAIN tab.act, Connected(j)
  PROVE  Fine(tab, tab')
<1> DEFINE s == [tab EXCEPT !.session = j]
           m == [tab EXCEPT !.client[j] = "ending"]
<1>1. /\ tab \in Tab /\ Shape(tab) /\ Fits(tab, j) /\ tab.act[j] \in Action
      /\ j \in Actions /\ j # 0
  BY TabFacts DEF Inv, Shape
<1>2. /\ tab.act[j].op = "connecting" /\ tab.act[j].client = j
      /\ tab.client[j] = "open" /\ tab.session # j
  BY <1>1 DEF Connected, Fits
<1>3. \/ tab' = [tab EXCEPT !.client[j] = "ending", !.act[j].op = "done"]
      \/ tab' = IF s.act[j].settle = "none"
                THEN [s EXCEPT !.act[j].op = "working"] ELSE Over(s, j)
  BY <1>2 DEF Connected, Step
<1>4. CASE tab' = [tab EXCEPT !.client[j] = "ending", !.act[j].op = "done"]
  <2> DEFINE a == [m.act[j] EXCEPT !.op = "done"]
  <2>1. Loses(tab, m)
    BY <1>1, <1>2, FadeLoses
  <2>2. tab' = [m EXCEPT !.act[j] = a, !.session = m.session]
    BY <1>1, <1>4 DEF Tab
  <2> HIDE DEF m
  <2>3. /\ Inv(m, 0) /\ Keeps(tab, m, j) /\ m.act = tab.act
        /\ m \in Tab /\ Shape(m) /\ m.session \in {0, tab.session}
    BY <1>1, <2>1, LosesInv, LosesKeeps DEF Loses
  <2>4. /\ a \in Action /\ a.agent = m.act[j].agent /\ a.pc = m.act[j].pc
        /\ a.settle = m.act[j].settle /\ a.retire = m.act[j].retire
        /\ a.op = "done" /\ a.client = m.act[j].client
    BY <1>1, <2>3 DEF Action
  <2> HIDE DEF a
  <2>5. Inv(tab', 0) /\ Keeps(m, tab', j)
    BY <1>2, <2>2, <2>3, <2>4, LateOp DEF Shape
  <2> QED BY <1>1, <2>3, <2>5, KeepsTrans, KeepsFine
<1>5. CASE tab' = IF s.act[j].settle = "none"
                  THEN [s EXCEPT !.act[j].op = "working"] ELSE Over(s, j)
  <2> DEFINE a == [tab.act[j] EXCEPT !.op = "working"]
             b == [tab.act[j] EXCEPT !.op = "done", !.client = 0]
  <2>1. \/ tab' = [tab EXCEPT !.act[j] = a, !.session = j]
        \/ tab' = [tab EXCEPT !.act[j] = b, !.session = j]
    BY <1>1, <1>5 DEF Tab, Over
  <2>2. /\ a \in Action /\ a.agent = tab.act[j].agent
        /\ a.pc = tab.act[j].pc /\ a.settle = tab.act[j].settle
        /\ a.retire = tab.act[j].retire /\ a.op = "working"
        /\ a.client = tab.act[j].client
    BY <1>1 DEF Action
  <2>3. /\ b \in Action /\ b.agent = tab.act[j].agent
        /\ b.pc = tab.act[j].pc /\ b.settle = tab.act[j].settle
        /\ b.retire = tab.act[j].retire /\ b.op = "done" /\ b.client = 0
    BY <1>1 DEF Action
  <2> HIDE DEF a, b
  <2>4. Inv(tab', 0) /\ Keeps(tab, tab', j)
    <3>1. CASE tab' = [tab EXCEPT !.act[j] = a, !.session = j]
      BY <1>2, <2>2, <3>1, LateOp
    <3>2. CASE tab' = [tab EXCEPT !.act[j] = b, !.session = j]
      BY <1>2, <2>3, <3>2, LateOp
    <3> QED BY <2>1, <3>1, <3>2
  <2> QED BY <2>4, KeepsFine
<1> QED BY <1>3, <1>4, <1>5

\* What respond() made of the operation's end.
Ended(j, how) ==
  LET ended ==
        CASE how = "ok" -> IF Valid(tab, j) THEN Answer(tab, j, "ok")
                           ELSE Answer(End(tab), j, "ended")
          [] how = "failed" -> Failed(tab, j)
          [] how = "timeout" -> SettleTimeout(tab, j, FALSE)
          [] how = "stalled" -> SettleTimeout(tab, j, TRUE)
          [] how = "unanswered" ->
               IF ~Valid(tab, j) THEN Answer(tab, j, "ended")
               ELSE Retire(Answer(tab, j, "failed"))
  IN IF tab.act[j].pc = "work" THEN ended ELSE tab

\* The answer, if there is one yet, leaves the operation as it was.
Told(s, j) ==
  /\ Inv(s, j) /\ Keeps(tab, s, j) /\ s.act[j].pc \notin Early
  /\ s.act[j].op = tab.act[j].op /\ s.act[j].client = tab.act[j].client

\* respond() with an answer.
LEMMA ToldAnswer ==
  ASSUME NEW e, NEW j \in DOMAIN tab.act, Inv(tab, 0), Inv(e, 0),
         Keeps(tab, e, j), e.act = tab.act, tab.act[j].pc = "work",
         NEW r \in {"ok", "ended"}
  PROVE  /\ Told(Answer(e, j, r), j)
         /\ r = "ended" => Inv(Answer(e, j, r), 0)
<1> DEFINE t == Answer(e, j, r)
<1>1. /\ tab \in Tab /\ Shape(tab) /\ e \in Tab /\ Shape(e)
      /\ tab.act[j] \in Action
  BY TabFacts DEF Inv
<1>2. e.act[j].pc \notin Answers \cup {"queued"} /\ j \in DOMAIN e.act
  BY DEF Answers
<1>3. Ahead(e, j) /\ r \in Answers /\ r \notin {"timed_out", "still_settling"}
  BY <1>2, OneActive DEF Answers
<1>4. Inv(t, j) /\ Keeps(e, t, j) /\ t.act[j] = [e.act[j] EXCEPT !.pc = r]
  BY <1>2, <1>3, AnswerInv
<1>5. r = "ended" => Inv(t, 0)
  BY <1>2, <1>3, AnswerSafe DEF Unclear
<1> HIDE DEF t
<1>6. /\ t.act[j].pc = r /\ t.act[j].op = tab.act[j].op
      /\ t.act[j].client = tab.act[j].client /\ r \notin Early
  BY <1>1, <1>4 DEF Action, Early
<1>7. Keeps(tab, t, j)
  BY <1>1, <1>4, KeepsTrans
<1> QED BY <1>4, <1>5, <1>6, <1>7 DEF Told, t

\* respond(), whatever the operation's end.
LEMMA EndedTold ==
  ASSUME Inv(tab, 0), NEW j \in DOMAIN tab.act,
         NEW how \in {"ok", "failed", "timeout", "stalled", "unanswered"},
         tab.act[j].op \in {"working", "connecting"}
  PROVE  /\ Told(Ended(j, how), j)
         /\ how \in {"stalled", "unanswered"} => Inv(Ended(j, how), 0)
<1>1. /\ tab \in Tab /\ Shape(tab) /\ tab.act[j].op \notin Leaves
      /\ Keeps(tab, tab, j) /\ Inv(tab, j)
  BY LosesSelf, LosesKeeps, InvWeak DEF Inv, Leaves
<1>2. CASE tab.act[j].pc # "work"
  <2>1. Ended(j, how) = tab
    BY <1>2 DEF Ended
  <2>2. tab.act[j].pc \notin Early
    BY DEF Inv, Fits
  <2> QED BY <1>1, <2>1, <2>2 DEF Told
<1>3. CASE tab.act[j].pc = "work" /\ how = "ok"
  <2>1. CASE Valid(tab, j)
    <3>1. Ended(j, how) = Answer(tab, j, "ok")
      BY <1>3, <2>1 DEF Ended
    <3> QED BY <1>1, <1>3, <3>1, ToldAnswer
  <2>2. CASE ~Valid(tab, j)
    <3>1. Ended(j, how) = Answer(End(tab), j, "ended")
      BY <1>3, <2>2 DEF Ended
    <3>2. Inv(End(tab), 0) /\ Keeps(tab, End(tab), j) /\ End(tab).act = tab.act
      BY <1>1, EndLoses, LosesInv, LosesKeeps DEF Loses
    <3> QED BY <1>3, <3>1, <3>2, ToldAnswer
  <2> QED BY <2>1, <2>2
<1>4. CASE tab.act[j].pc = "work" /\ how = "failed"
  <2>1. Ended(j, how) = Failed(tab, j)
    BY <1>4 DEF Ended
  <2> QED BY <1>4, <2>1, FailedInv DEF Told, Early
<1>5. CASE tab.act[j].pc = "work" /\ how = "timeout"
  <2>1. Ended(j, how) = SettleTimeout(tab, j, FALSE)
    BY <1>5 DEF Ended
  <2>2. SettleFine(tab, j, 0, FALSE)
    BY <1>5, SettleTimeoutInv, Zenon
  <2> QED BY <1>5, <2>1, <2>2 DEF SettleFine, Told, Early
<1>6. CASE tab.act[j].pc = "work" /\ how = "stalled"
  <2>1. Ended(j, how) = SettleTimeout(tab, j, TRUE)
    BY <1>6 DEF Ended
  <2>2. SettleFine(tab, j, 0, TRUE)
    BY <1>6, SettleTimeoutInv, Zenon
  <2> QED BY <1>1, <2>1, <2>2 DEF SettleFine, Told, Early
<1>7. CASE tab.act[j].pc = "work" /\ how = "unanswered"
  <2>1. CASE Valid(tab, j)
    <3> DEFINE t == Retire(Answer(tab, j, "failed"))
    <3>1. Ended(j, how) = t
      BY <1>7, <2>1 DEF Ended
    <3>2. /\ Inv(t, 0) /\ Keeps(tab, t, j) /\ t.act[j].op = tab.act[j].op
          /\ t.act[j].client = tab.act[j].client /\ t.act[j].pc = "failed"
      BY <1>1, <1>7, AnswerRetire
    <3> HIDE DEF t
    <3> QED BY <3>1, <3>2, InvWeak DEF Told, Early
  <2>2. CASE ~Valid(tab, j)
    <3>1. Ended(j, how) = Answer(tab, j, "ended")
      BY <1>7, <2>2 DEF Ended
    <3> QED BY <1>1, <1>7, <3>1, ToldAnswer
  <2> QED BY <2>1, <2>2
<1> QED BY <1>2, <1>3, <1>4, <1>5, <1>6, <1>7

\* The operation ends.
LEMMA OperationEndsStep ==
  ASSUME Inv(tab, 0), NEW j \in DOMAIN tab.act,
         NEW how \in {"ok", "failed", "timeout", "stalled", "unanswered"},
         OperationEnds(j, how)
  PROVE  Fine(tab, tab')
<1> DEFINE s == Ended(j, how)
           k == tab.act[j].client
           t == IF tab.act[j].op = "connecting" /\ s.client[k] = "open"
                THEN [s EXCEPT !.client[k] = "ending"] ELSE s
           a == [t.act[j] EXCEPT !.op = "stray"]
<1>1. /\ \/ tab.act[j].op = "working"
         \/ tab.act[j].op = "connecting" /\ how \in {"failed", "timeout"}
      /\ tab' = IF how \in {"stalled", "unanswered"}
                THEN [t EXCEPT !.act[j].op = "stray"] ELSE Over(t, j)
  BY DEF OperationEnds, Ended, Step
<1>2. Told(s, j) /\ (how \in {"stalled", "unanswered"} => Inv(s, 0))
  BY <1>1, EndedTold
<1> HIDE DEF s
<1>3. /\ tab \in Tab /\ Shape(tab) /\ s \in Tab /\ Shape(s)
      /\ Fits(s, j) /\ j \in DOMAIN s.act /\ Inv(s, j) /\ Keeps(tab, s, j)
  BY <1>2 DEF Told, Inv, Keeps, Around
<1>4. Loses(s, t)
  <2>1. CASE tab.act[j].op = "connecting" /\ s.client[k] = "open"
    <3>1. s.act[j].op = "connecting" /\ k = s.act[j].client
      BY <1>2, <2>1 DEF Told
    <3>2. k = j /\ s.session # k /\ k \in Actions
      BY <1>3, <3>1 DEF Fits, Shape
    <3>3. t = [s EXCEPT !.client[k] = "ending"]
      BY <2>1
    <3> HIDE DEF k, t
    <3> QED BY <1>3, <2>1, <3>2, <3>3, FadeLoses
  <2>2. CASE ~(tab.act[j].op = "connecting" /\ s.client[k] = "open")
    <3>1. t = s
      BY <2>2
    <3> QED BY <1>3, <3>1, LosesSelf
  <2> QED BY <2>1, <2>2
<1> HIDE DEF t
<1>5. /\ Inv(t, j) /\ Keeps(s, t, j) /\ t.act = s.act /\ t \in Tab /\ Shape(t)
      /\ how \in {"stalled", "unanswered"} => Inv(t, 0)
  BY <1>2, <1>3, <1>4, LosesInv, LosesKeeps DEF Loses
<1>6. Keeps(tab, t, j)
  BY <1>3, <1>5, KeepsTrans
<1>7. t.act[j].pc \notin Early /\ t.act[j].op = tab.act[j].op
  BY <1>2, <1>5 DEF Told
<1>8. CASE how \notin {"stalled", "unanswered"}
  <2>1. Inv(Over(t, j), 0) /\ Keeps(t, Over(t, j), j)
    BY <1>1, <1>3, <1>5, <1>7, OverInv
  <2> QED BY <1>1, <1>3, <1>5, <1>6, <1>8, <2>1, KeepsTrans, KeepsFine
<1>9. CASE how \in {"stalled", "unanswered"}
  <2>1. tab.act[j].op = "working" /\ t.act[j] \in Action /\ j \in DOMAIN t.act
    BY <1>1, <1>3, <1>5, <1>9, TabFacts
  <2>2. tab' = [t EXCEPT !.act[j] = a, !.session = t.session]
    BY <1>1, <1>5, <1>9, <2>1 DEF Tab
  <2>3. /\ a \in Action /\ a.agent = t.act[j].agent /\ a.pc = t.act[j].pc
        /\ a.settle = t.act[j].settle /\ a.retire = t.act[j].retire
        /\ a.op = "stray" /\ a.client = t.act[j].client
    BY <2>1 DEF Action
  <2> HIDE DEF a
  <2>4. Inv(tab', 0) /\ Keeps(t, tab', j)
    BY <1>5, <1>7, <1>9, <2>1, <2>2, <2>3, LateOp DEF Shape
  <2> QED BY <1>3, <1>5, <1>6, <2>4, KeepsTrans, KeepsFine
<1> QED BY <1>8, <1>9

\* A client closes at last.
LEMMA ClientClosesStep ==
  ASSUME Inv(tab, 0), NEW k \in Actions, ClientCloses(k)
  PROVE  Fine(tab, tab')
<1>1. tab' = CloseTransport(tab, k) /\ k \in Actions \cup {0}
  BY DEF ClientCloses, Step
<1> QED BY <1>1, CloseInv, SteadyFine

\* A command is answered.
LEMMA CommandAnsweredStep ==
  ASSUME Inv(tab, 0), NEW c, CommandAnswered(c)
  PROVE  Fine(tab, tab')
<1> DEFINE s == [tab EXCEPT !.pending = @ \ {c}]
           i == c.act
<1>1. /\ tab \in Tab /\ Shape(tab) /\ (tab.pending \ {c}) \in SUBSET tab.pending
      /\ tab' = IF i # 0 /\ ~c.late /\ s.act[i].op = "leave"
                THEN [s EXCEPT !.act[i].op = "left"] ELSE s
  BY DEF Inv, CommandAnswered, Step
<1>2. Loses(tab, s)
  BY <1>1, PendingLoses
<1> HIDE DEF s, i
<1>3. /\ Inv(s, 0) /\ Keeps(tab, s, i) /\ s \in Tab /\ Shape(s)
  BY <1>1, <1>2, LosesInv, LosesKeeps DEF Loses
<1>4. CASE i \in DOMAIN s.act /\ s.act[i].op = "leave"
  <2> DEFINE t == [s EXCEPT !.act[i].op = "left"]
  <2>1. Inv(t, 0) /\ Keeps(s, t, i)
    BY <1>3, <1>4, LeftInv
  <2>2. tab' \in {s, t}
    BY <1>1
  <2> HIDE DEF t
  <2> QED BY <1>1, <1>3, <2>1, <2>2, KeepsTrans, KeepsFine
<1>5. CASE ~(i \in DOMAIN s.act /\ s.act[i].op = "leave")
  <2>1. tab' = s
    <3>1. i \notin DOMAIN s.act => [s EXCEPT !.act[i].op = "left"] = s
      BY <1>3 DEF Tab
    <3> QED BY <1>1, <1>5, <3>1
  <2> QED BY <1>3, <2>1, KeepsFine
<1> QED BY <1>4, <1>5

\* At most one action listens, and it is the one under way.
LEMMA OneListens ==
  ASSUME Inv(tab, 0), Listening # {}
  PROVE  \E j \in DOMAIN tab.act :
           Max(Listening) = j /\ tab.act[j].pc \in {"work", "settling"}
<1>1. PICK j \in DOMAIN tab.act : tab.act[j].pc \in {"work", "settling"}
  BY DEF Listening
<1>2. \A i \in DOMAIN tab.act :
        i # j => tab.act[i].pc \notin {"work", "settling"}
  <2>1. tab.act[j].pc \notin Answers \cup {"queued"}
    BY <1>1 DEF Answers
  <2>2. \A i \in DOMAIN tab.act :
          i # j => tab.act[i].pc \in Answers \cup {"queued"}
    BY <2>1, OneActive
  <2> QED BY <2>2 DEF Answers
<1>3. Listening = {j} /\ j \in Nat
  BY <1>1, <1>2, TabFacts DEF Listening, Inv
<1>4. Max(Listening) = j
  BY <1>3, MaxOne
<1> QED BY <1>1, <1>4

\* The one action that listens ends, with its client.
LEMMA AnswerTooLargeStep ==
  ASSUME Inv(tab, 0), NEW c, AnswerTooLarge(c)
  PROVE  Fine(tab, tab')
<1> DEFINE s == [tab EXCEPT !.pending = @ \ {c}]
           j == Max(Listening)
<1>1. /\ tab \in Tab /\ Shape(tab) /\ (tab.pending \ {c}) \in SUBSET tab.pending
      /\ tab' = IF Listening = {} THEN s
                ELSE Retire(IF s.act[j].pc = "work"
                            THEN Answer(s, j, Overrun(s, j)) ELSE s)
  BY DEF Inv, AnswerTooLarge, Happens
<1>2. Loses(tab, s)
  BY <1>1, PendingLoses
<1> HIDE DEF s
<1>3. /\ Inv(s, 0) /\ Steady(tab, s) /\ s \in Tab /\ Shape(s) /\ s.act = tab.act
  BY <1>1, <1>2, LosesInv, LosesKeeps DEF Loses, Keeps
<1>4. CASE Listening = {}
  BY <1>1, <1>3, <1>4, SteadyFine
<1>5. CASE Listening # {}
  <2>1. j \in DOMAIN s.act
    BY <1>3, <1>5, OneListens
  <2>2. tab' = Retire(IF s.act[j].pc = "work"
                      THEN Answer(s, j, Overrun(s, j)) ELSE s)
    BY <1>1, <1>5
  <2> HIDE DEF j
  <2>3. CASE s.act[j].pc # "work"
    <3>1. Inv(tab', 0) /\ Steady(s, tab')
      BY <1>3, <2>2, <2>3, RetireInv
    <3>2. tab' \in Tab
      BY <3>1 DEF Inv
    <3> QED BY <1>1, <1>3, <3>1, <3>2, SteadyTrans, SteadyFine
  <2>4. CASE s.act[j].pc = "work" /\ s.act[j].op \notin Leaves
    <3>1. tab' = Retire(Answer(s, j, "failed"))
      BY <2>2, <2>4 DEF Overrun, Leaves
    <3>2. Inv(tab', 0) /\ Steady(s, tab')
      BY <1>3, <2>1, <2>4, <3>1, AnswerRetire DEF Keeps
    <3>3. tab' \in Tab
      BY <3>2 DEF Inv
    <3> QED BY <1>1, <1>3, <3>2, <3>3, SteadyTrans, SteadyFine
  <2>5. CASE s.act[j].pc = "work" /\ s.act[j].op \in Leaves
    <3> DEFINE a == Answer(s, j, "overrun")
    <3>1. tab' = Retire(a)
      BY <2>2, <2>5 DEF Overrun, Leaves
    <3>2. Inv(a, 0) /\ Steady(s, a)
      <4>1. s.act[j].pc \notin Answers \cup {"queued"}
        BY <2>5 DEF Answers
      <4>2. Ahead(s, j)
        BY <1>3, <2>1, <4>1, OneActive
      <4>3. "overrun" \in Answers \ {"timed_out", "still_settling"}
        BY DEF Answers
      <4> QED BY <1>3, <2>1, <4>1, <4>2, <4>3, AnswerSafe DEF Unclear, Keeps
    <3> HIDE DEF a
    <3>3. Inv(tab', 0) /\ Steady(a, tab')
      BY <3>1, <3>2, RetireInv
    <3>4. a \in Tab /\ tab' \in Tab
      BY <3>2, <3>3 DEF Inv
    <3>5. Steady(s, tab')
      BY <1>3, <3>2, <3>3, <3>4, SteadyTrans
    <3> QED BY <1>1, <1>3, <3>3, <3>4, <3>5, SteadyTrans, SteadyFine
  <2> QED BY <2>3, <2>4, <2>5
<1> QED BY <1>4, <1>5

\* A command of no action.
LEMMA OwnCommand ==
  ASSUME NEW s, Inv(s, 0), NEW by \in {"client", "bridge"}
  PROVE  LET t == AddCommand(s, 0, by)
         IN Inv(t, 0) /\ Steady(s, t) /\ t.act = s.act
<1> DEFINE t == AddCommand(s, 0, by)
<1>1. /\ Keeps(s, t, 0) /\ t.act = s.act /\ t.fence = s.fence
  BY AddCommandKeeps DEF Inv
<1> HIDE DEF t
<1>2. Fenced(t) /\ Around(s, t, 0)
  BY <1>1 DEF Inv, Fenced, Keeps
<1>3. Inv(t, 0)
  BY <1>2, AroundInv
<1> QED BY <1>1, <1>3 DEF Keeps, t

\* The one action that listens ends, with its client.
LEMMA GateClosesStep ==
  ASSUME Inv(tab, 0), GateCloses
  PROVE  Fine(tab, tab')
<1> DEFINE s == IF tab.kind \in {"recovering", "released"} THEN tab
                ELSE AddCommand(tab, 0, "bridge")
           j == Max(Listening)
           k == IF tab.session # 0 THEN tab.session
                ELSE IF tab.act[j].op = "connecting" THEN tab.act[j].client
                ELSE 0
           r == IF s.act[j].pc = "work" THEN Answer(s, j, "refused") ELSE s
           e == End(r)
<1>1. tab' = IF Listening = {} THEN s ELSE CloseTransport(e, k)
  BY DEF GateCloses, Happens
<1>2. Inv(s, 0) /\ Steady(tab, s) /\ s.act = tab.act
  <2>1. Steady(tab, tab)
    BY DEF Steady
  <2> QED BY <2>1, OwnCommand
<1> HIDE DEF s
<1>3. tab \in Tab /\ Shape(tab) /\ s \in Tab /\ Shape(s)
  BY <1>2 DEF Inv
<1>4. CASE Listening = {}
  BY <1>1, <1>2, <1>4, SteadyFine
<1>5. CASE Listening # {}
  <2>1. j \in DOMAIN tab.act
    BY <1>5, OneListens
  <2> HIDE DEF j
  <2>2. k \in Actions \cup {0}
    BY <1>3, <2>1, TabFacts DEF Action
  <2> HIDE DEF k
  <2>3. Inv(r, 0) /\ Steady(s, r)
    <3>1. CASE s.act[j].pc # "work"
      BY <1>2, <3>1 DEF Steady
    <3>2. CASE s.act[j].pc = "work"
      <4>1. s.act[j].pc \notin Answers \cup {"queued"}
        BY <3>2 DEF Answers
      <4>2. Ahead(s, j)
        BY <1>2, <2>1, <4>1, OneActive
      <4>3. "refused" \in Answers \ {"timed_out", "still_settling"}
        BY DEF Answers
      <4>4. /\ Inv(Answer(s, j, "refused"), 0)
            /\ Steady(s, Answer(s, j, "refused"))
        BY <1>2, <2>1, <4>1, <4>2, <4>3, AnswerSafe DEF Unclear, Keeps
      <4> QED BY <3>2, <4>4
    <3> QED BY <3>1, <3>2
  <2> HIDE DEF r
  <2>4. Inv(e, 0) /\ Steady(r, e)
    BY <2>3, EndInv
  <2> HIDE DEF e
  <2>5. Inv(tab', 0) /\ Steady(e, tab')
    BY <1>1, <1>5, <2>2, <2>4, CloseInv
  <2>6. r \in Tab /\ Shape(r) /\ e \in Tab /\ Shape(e) /\ tab' \in Tab
    BY <2>3, <2>4, <2>5 DEF Inv
  <2>7. Steady(tab, r)
    BY <1>2, <1>3, <2>3, <2>6, SteadyTrans
  <2>8. Steady(tab, e)
    BY <1>3, <2>4, <2>6, <2>7, SteadyTrans
  <2> QED BY <1>3, <2>5, <2>6, <2>8, SteadyTrans, SteadyFine
<1> QED BY <1>4, <1>5

\* A command of no action.
LEMMA ClientHousekeepingStep ==
  ASSUME Inv(tab, 0), ClientHousekeeping
  PROVE  Fine(tab, tab')
<1>1. tab' = AddCommand(tab, 0, "client")
  BY DEF ClientHousekeeping, Happens
<1> QED BY <1>1, OwnCommand, SteadyFine

\* A release keeps the invariant.
LEMMA ReleaseInv ==
  ASSUME NEW s, Inv(s, 0)
  PROVE  Inv(Release(s), 0) /\ Steady(s, Release(s))
BY PhaseEndsInv DEF Release

\* The debugger detaches.
LEMMA RecoveringStep ==
  ASSUME Inv(tab, 0), Recovering
  PROVE  Fine(tab, tab')
<1>1. CASE tab.kind = "recovering"
  <2>1. tab' = Release(tab)
    BY <1>1 DEF Recovering, Happens
  <2> QED BY <2>1, ReleaseInv, SteadyFine
<1>2. CASE tab.kind # "recovering"
  <2>1. tab' = CloseTransport([tab EXCEPT !.kind = "recovering", !.peer = 0,
                                 !.fence = 0, !.pending = {}], tab.peer)
    BY <1>2 DEF Recovering, Happens
  <2> QED BY <2>1, PhaseEndsInv, SteadyFine
<1> QED BY <1>1, <1>2

\* The offer is back, without a peer.
LEMMA RecoveryDoneStep ==
  ASSUME Inv(tab, 0), RecoveryDone
  PROVE  Fine(tab, tab')
<1> DEFINE t == [tab EXCEPT !.kind = "offered", !.peer = 0, !.fence = 0]
<1>1. tab \in Tab /\ Shape(tab) /\ tab' = t
  BY DEF Inv, RecoveryDone, Step, Enter
<1>2. Loses(tab, t)
  BY <1>1, PhaseLoses
<1> HIDE DEF t
<1>3. Inv(t, 0) /\ Keeps(tab, t, 0)
  BY <1>1, <1>2, LosesInv, LosesKeeps
<1> QED BY <1>1, <1>3, KeepsFine

\* The grant is released.
LEMMA GrantEndsStep ==
  ASSUME Inv(tab, 0), GrantEnds
  PROVE  Fine(tab, tab')
<1>1. tab' = Release(tab)
  BY DEF GrantEnds, Happens
<1> QED BY <1>1, ReleaseInv, SteadyFine

\* The agents that may use the tab change.
LEMMA AccessChangeStep ==
  ASSUME Inv(tab, 0), NEW agents \in SUBSET Agents, NEW cut \in BOOLEAN,
         AccessChange(agents, cut)
  PROVE  Fine(tab, tab')
<1> DEFINE s == [tab EXCEPT !.access = agents]
<1>1. tab \in Tab /\ Shape(tab) /\ tab' \in {s, RetireClient(s)}
  BY DEF Inv, AccessChange, Happens
<1>2. s \in Tab
  BY <1>1 DEF Tab
<1>3. /\ s.kind = tab.kind /\ s.peer = tab.peer /\ s.fence = tab.fence
      /\ s.session = tab.session /\ s.client = tab.client
      /\ s.act = tab.act /\ s.pending = tab.pending
  BY <1>1 DEF Tab
<1> HIDE DEF s
<1>4. Inv(s, 0) /\ Steady(tab, s)
  BY <1>2, <1>3, AmbientInv DEF Sent
<1>5. Inv(RetireClient(s), 0) /\ Steady(s, RetireClient(s))
  BY <1>4, RetireClientInv
<1>6. RetireClient(s) \in Tab
  BY <1>5 DEF Inv
<1>7. Steady(tab, RetireClient(s))
  BY <1>1, <1>2, <1>4, <1>5, <1>6, SteadyTrans
<1> QED BY <1>1, <1>4, <1>5, <1>7, SteadyFine

\* Another offer comes or goes.
LEMMA RivalOfferStep ==
  ASSUME Inv(tab, 0), RivalOffer
  PROVE  Fine(tab, tab')
<1>1. tab \in Tab /\ tab' = [tab EXCEPT !.rival = ~@]
  BY DEF Inv, RivalOffer, Happens
<1>2. tab' \in Tab
  BY <1>1 DEF Tab
<1>3. /\ tab'.kind = tab.kind /\ tab'.peer = tab.peer
      /\ tab'.fence = tab.fence /\ tab'.session = tab.session
      /\ tab'.client = tab.client /\ tab'.act = tab.act
      /\ tab'.pending = tab.pending
  BY <1>1 DEF Tab
<1>4. Inv(tab', 0) /\ Steady(tab, tab')
  BY <1>2, <1>3, AmbientInv DEF Sent
<1> QED BY <1>4, SteadyFine

-----------------------------------------------------------------------------
(* The inductive invariant.                                                *)

\* The invariant holds at first.
LEMMA InitInv ==
  ASSUME Init
  PROVE  Inv(tab, 0)
<1>1. /\ tab.kind = "offered" /\ tab.peer = 0 /\ tab.fence = 0
      /\ tab.session = 0 /\ tab.act = <<>> /\ tab.pending = {}
      /\ tab.client = [k \in Actions |-> "unused"]
  BY DEF Init
<1>2. tab \in Tab
  BY DEF Init, Tab
<1>3. DOMAIN tab.act = {}
  BY <1>1
<1>4. Shape(tab)
  BY <1>1, <1>3 DEF Shape
<1> QED BY <1>1, <1>2, <1>3, <1>4 DEF Inv, InOrder, Fenced

\* Every step is fine.
LEMMA NextFine ==
  ASSUME Inv(tab, 0), Next
  PROVE  Fine(tab, tab')
<1>1. CASE Office
  <2>1. ASSUME NEW a \in Agents, NEW kind \in Kinds, NEW named \in BOOLEAN,
               Run(a, kind, named)
        PROVE  Fine(tab, tab')
    BY <2>1, RunStep
  <2>2. ASSUME NEW j \in DOMAIN tab.act, Moves(j)
        PROVE  Fine(tab, tab')
    <3>1. ASSUME NEW look \in Looks,
                 \/ Begin(j, look) \/ RecoveryOver(j, look)
                 \/ Drained(j, look) \/ Changed(j, look)
          PROVE  Fine(tab, tab')
      BY <3>1, BeginStep, RecoveryOverStep, DrainedStep, ChangedStep
    <3>2. CASE MuteAnswers(j) \/ Watchdog(j) \/ LeaveTimesOut(j)
      BY <3>2, MuteAnswersStep, WatchdogStep, LeaveTimesOutStep
    <3>3. CASE Settled(j) \/ Grace(j) \/ Ceiling(j)
      BY <3>3, SettledStep, GraceStep, CeilingStep
    <3> QED BY <2>2, <3>1, <3>2, <3>3 DEF Moves
  <2>3. ASSUME NEW c \in tab.pending, CommandTimesOut(c) \/ CommandUnanswered(c)
        PROVE  Fine(tab, tab')
    BY <2>3, CommandTimesOutStep, CommandUnansweredStep
  <2> QED BY <1>1, <2>1, <2>2, <2>3 DEF Office
<1>2. CASE Playwright
  <2>1. ASSUME NEW j \in DOMAIN tab.act,
               \/ LeaveCommits(j) \/ LeaveFails(j)
               \/ Connected(j) \/ ClientCommand(j)
        PROVE  Fine(tab, tab')
    BY <2>1, LeaveCommitsStep, LeaveFailsStep, ConnectedStep, ClientCommandStep
  <2>2. ASSUME NEW j \in DOMAIN tab.act,
               NEW how \in {"ok", "failed", "timeout", "stalled", "unanswered"},
               OperationEnds(j, how)
        PROVE  Fine(tab, tab')
    BY <2>2, OperationEndsStep
  <2>3. ASSUME NEW k \in Actions, ClientCloses(k)
        PROVE  Fine(tab, tab')
    BY <2>3, ClientClosesStep
  <2> QED BY <1>2, <2>1, <2>2, <2>3 DEF Playwright
<1>3. CASE Outside
  <2>1. ASSUME NEW c \in tab.pending, CommandAnswered(c) \/ AnswerTooLarge(c)
        PROVE  Fine(tab, tab')
    BY <2>1, CommandAnsweredStep, AnswerTooLargeStep
  <2>2. CASE GateCloses \/ ClientHousekeeping \/ Recovering \/ RecoveryDone
    BY <2>2, GateClosesStep, ClientHousekeepingStep, RecoveringStep,
       RecoveryDoneStep
  <2>3. CASE GrantEnds \/ RivalOffer
    BY <2>3, GrantEndsStep, RivalOfferStep
  <2>4. ASSUME NEW agents \in SUBSET Agents, NEW cut \in BOOLEAN,
               AccessChange(agents, cut)
        PROVE  Fine(tab, tab')
    BY <2>4, AccessChangeStep
  <2> QED BY <1>3, <2>1, <2>2, <2>3, <2>4 DEF Outside
<1> QED BY <1>1, <1>2, <1>3 DEF Next

\* The counter keeps its bound.
LEMMA EventsBound ==
  ASSUME events \in 0..MaxEvents, Next
  PROVE  events' \in 0..MaxEvents
<1>1. CASE Office
  <2>1. events' = events
    <3>1. ASSUME NEW a, NEW kind, NEW named, Run(a, kind, named)
          PROVE  events' = events
      BY <3>1 DEF Run, Step
    <3>2. ASSUME NEW j, NEW look,
                 \/ Begin(j, look) \/ RecoveryOver(j, look)
                 \/ Drained(j, look) \/ Changed(j, look)
          PROVE  events' = events
      BY <3>2 DEF Begin, RecoveryOver, Drained, Changed, Step
    <3>3. ASSUME NEW j, MuteAnswers(j) \/ Watchdog(j) \/ LeaveTimesOut(j)
          PROVE  events' = events
      BY <3>3 DEF MuteAnswers, Watchdog, LeaveTimesOut, Step
    <3>4. ASSUME NEW j, Settled(j) \/ Grace(j) \/ Ceiling(j)
          PROVE  events' = events
      BY <3>4 DEF Settled, Grace, Ceiling, Step
    <3>5. ASSUME NEW c, CommandTimesOut(c) \/ CommandUnanswered(c)
          PROVE  events' = events
      BY <3>5 DEF CommandTimesOut, CommandUnanswered, Step
    <3> QED BY <1>1, <3>1, <3>2, <3>3, <3>4, <3>5 DEF Office, Moves
  <2> QED BY <2>1
<1>2. CASE Playwright
  <2>1. events' = events
    <3>1. ASSUME NEW j, \/ LeaveCommits(j) \/ LeaveFails(j)
                        \/ Connected(j) \/ ClientCommand(j)
          PROVE  events' = events
      BY <3>1 DEF LeaveCommits, LeaveFails, Connected, ClientCommand, Step
    <3>2. ASSUME NEW j, NEW how, OperationEnds(j, how)
          PROVE  events' = events
      BY <3>2 DEF OperationEnds, Step
    <3>3. ASSUME NEW k, ClientCloses(k) PROVE events' = events
      BY <3>3 DEF ClientCloses, Step
    <3> QED BY <1>2, <3>1, <3>2, <3>3 DEF Playwright
  <2> QED BY <2>1
<1>3. CASE Outside
  <2>1. events' = events \/ (events < MaxEvents /\ events' = events + 1)
    <3> DEFINE Bound == \/ events' = events
                        \/ events < MaxEvents /\ events' = events + 1
    <3>1. ASSUME NEW c, CommandAnswered(c) \/ AnswerTooLarge(c) PROVE Bound
      BY <3>1 DEF CommandAnswered, AnswerTooLarge, Step, Happens
    <3>2. GateCloses \/ ClientHousekeeping \/ Recovering \/ RecoveryDone
            => Bound
      BY DEF GateCloses, ClientHousekeeping, Recovering, RecoveryDone, Step,
             Happens
    <3>3. GrantEnds \/ RivalOffer => Bound
      BY DEF GrantEnds, RivalOffer, Happens
    <3>4. ASSUME NEW agents, NEW cut, AccessChange(agents, cut) PROVE Bound
      BY <3>4 DEF AccessChange, Happens
    <3> QED BY <1>3, <3>1, <3>2, <3>3, <3>4 DEF Outside
  <2> QED BY <2>1, BoundsAssumption
<1> QED BY <1>1, <1>2, <1>3 DEF Next

-----------------------------------------------------------------------------
(* The theorems.                                                           *)

\* The inductive invariant.
IndInv == Inv(tab, 0) /\ events \in 0..MaxEvents

\* The invariant holds in every state of the system, for every set of agents
\* and every bound.
THEOREM Inductive == Spec => []IndInv
<1>1. Init => IndInv
  BY InitInv, BoundsAssumption DEF Init, IndInv
<1>2. IndInv /\ [Next]_vars => IndInv'
  <2>1. ASSUME IndInv, Next PROVE IndInv'
    BY <2>1, NextFine, EventsBound DEF IndInv, Fine
  <2>2. ASSUME IndInv, UNCHANGED vars PROVE IndInv'
    BY <2>2 DEF IndInv, vars
  <2> QED BY <2>1, <2>2
<1> QED BY <1>1, <1>2, PTL DEF Spec

\* The state keeps its type; a fence is of the attached client, and the client
\* in the sessions map is open (TypeOK).
THEOREM TypeCorrect == Spec => []TypeOK
<1>1. IndInv => TypeOK
  BY DEF IndInv, TypeOK, Inv, Shape
<1> QED BY <1>1, Inductive, PTL

\* One action at a time drives the tab: a later action's operation begins only
\* when every earlier one that was settled is out of reach and has nothing in
\* flight, however late its commands, its settlement or its client end
\* (OneDriver).
THEOREM DrivenByOne == Spec => []OneDriver
<1>1. IndInv => OneDriver
  <2> SUFFICES ASSUME IndInv, NEW j \in DOMAIN tab.act, NEW i \in 1..(j - 1),
                      tab.act[j].op # "none"
               PROVE  Unsettled(i) \/ ~(InFlight(i) \/ Reaches(tab, i))
    BY DEF OneDriver
  <2>1. Clear(tab, j) /\ tab \in Tab
    BY DEF IndInv, Inv, InOrder
  <2>2. i \in DOMAIN tab.act /\ i < j
    BY <2>1, TabFacts
  <2> QED BY <2>1, <2>2 DEF Clear, Sent, InFlight, Unsettled, Unclear
<1> QED BY <1>1, Inductive, PTL

\* A command travels under the access of the agent that asked for the action:
\* no action reaches the page through another agent's client (OwnAccess).
THEOREM AccessIsOwn == Spec => []OwnAccess
<1>1. IndInv => OwnAccess
  BY DEF IndInv, Inv, Fits, OwnAccess, Actor, Reaches
<1> QED BY <1>1, Inductive, PTL

\* What an agent is told is final: an action that was answered ok, failed,
\* detached or timed out sends nothing more, and a timed-out one has nothing in
\* flight (AnswerIsFinal).
THEOREM AnswersFinal == Spec => []AnswerIsFinal
<1>1. IndInv => AnswerIsFinal
  <2> SUFFICES ASSUME IndInv, NEW j \in DOMAIN tab.act
               PROVE  /\ tab.act[j].pc \in {"ok", "failed", "detached",
                                            "timed_out"} => ~Reaches(tab, j)
                      /\ tab.act[j].pc = "timed_out" => ~InFlight(j)
    BY DEF AnswerIsFinal
  <2>1. Fits(tab, j) /\ Silent(tab, j)
    BY TabFacts DEF IndInv, Inv
  <2> QED BY <2>1 DEF Fits, Silent, Final, Sent, InFlight
<1> QED BY <1>1, Inductive, PTL

\* A fence outlives the settlements of other actions: while its client stays,
\* only the action that set it, settled and with nothing in flight, takes it
\* away (FenceHolds).
THEOREM FenceKept == Spec => FenceHolds
<1> DEFINE Kept ==
      \A j \in DOMAIN tab.act :
        (tab.fence = j /\ tab'.fence # j /\ tab'.peer = tab.peer) =>
          tab.act[j].op \in {"stray", "done"} /\ tab.pending = {}
<1>1. IndInv /\ [Next]_vars => [Kept]_vars
  <2>1. ASSUME IndInv, Next PROVE Kept
    <3>1. Fine(tab, tab')
      BY <2>1, NextFine DEF IndInv
    <3>2. \A j \in DOMAIN tab.act : j # 0
      BY <2>1, TabFacts DEF IndInv, Inv
    <3> QED BY <3>1, <3>2 DEF Fine
  <2> QED BY <2>1
<1>2. [][Kept]_vars => FenceHolds
  BY PTL DEF FenceHolds
<1> QED BY <1>1, <1>2, Inductive, PTL DEF Spec
=============================================================================
