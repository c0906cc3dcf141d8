--------------------------- MODULE InboxHandoffProofs ---------------------------
(***************************************************************************)
(* Proofs about InboxHandoff, for any number of messages, handoffs and     *)
(* lease tokens and any faults: the handoffs use the queue as it allows,   *)
(* each under the lease it was given, and so the theorems of MessageQueue  *)
(* hold here; and no message begins two turns, overtakes, or is accepted   *)
(* without the turn that read what was first prepared of it.               *)
(***************************************************************************)
EXTENDS InboxHandoff, MessageQueueProofs

LeaseOf(h) == [slot |-> handoff[h].slot, token |-> handoff[h].token]
Idle(h) == handoff[h].phase = "idle"

\* A handoff that is under way has a lease of its own.
HandoffOK ==
    /\ handoff \in [Handoffs -> Handoff]
    /\ \A h \in Handoffs : ~Idle(h) =>
          /\ handoff[h].slot \in Slots /\ handoff[h].token \in Tokens
          /\ LeaseOf(h) \in held
    /\ \A g, h \in Handoffs : g # h /\ ~Idle(g) /\ ~Idle(h)
          => handoff[g].token # handoff[h].token

BusyPhases == {"claimed", "unsent", "ready", "locking", "locked",
               "sending", "polling", "found", "doubt", "over"}

\* The handoff moves on, perhaps with the content it read or prepared.
Advances(h) ==
    \E phase \in BusyPhases, content \in Contents \cup {None} :
        handoff' = [handoff EXCEPT ![h].phase = phase, ![h].content = content]

LEMMA AdvancesOK ==
    ASSUME HandoffOK, NEW h \in Handoffs, ~Idle(h), Advances(h), held' = held
    PROVE  HandoffOK'
<1>1. PICK phase \in BusyPhases, content \in Contents \cup {None} :
         handoff' = [handoff EXCEPT ![h].phase = phase, ![h].content = content]
  BY DEF Advances
<1> DEFINE new == [handoff[h] EXCEPT !.phase = phase, !.content = content]
<1>2. handoff[h] \in Handoff
  BY DEF HandoffOK
<1>3. /\ new \in Handoff /\ new.phase = phase /\ phase # "idle"
      /\ new.slot = handoff[h].slot /\ new.token = handoff[h].token
  BY <1>2 DEF Handoff, BusyPhases
<1>4. /\ handoff' \in [Handoffs -> Handoff] /\ handoff'[h] = new
      /\ \A g \in Handoffs : g # h => handoff'[g] = handoff[g]
  BY <1>1, <1>3 DEF HandoffOK
<1> HIDE DEF new
<1>5. \A g \in Handoffs : /\ handoff'[g].slot = handoff[g].slot
                          /\ handoff'[g].token = handoff[g].token
                          /\ Idle(g)' <=> Idle(g)
  BY <1>3, <1>4 DEF Idle
<1> QED BY <1>4, <1>5 DEF HandoffOK, LeaseOf

LEMMA GoesAdvances ==
    ASSUME HandoffOK, NEW h \in Handoffs, NEW phase \in BusyPhases, Goes(h, phase)
    PROVE  Advances(h)
<1> DEFINE content == handoff[h].content
<1>1. handoff[h] \in Handoff /\ content \in Contents \cup {None}
  BY DEF HandoffOK, Handoff
<1>2. [handoff[h] EXCEPT !.phase = phase]
         = [handoff[h] EXCEPT !.phase = phase, !.content = content]
  BY <1>1 DEF Handoff
<1>3. handoff' = [handoff EXCEPT ![h].phase = phase, ![h].content = content]
  BY <1>2 DEF Goes, HandoffOK
<1> QED BY <1>1, <1>3 DEF Advances

ClaimedHandoff(i, t) == [phase |-> "claimed", slot |-> i, token |-> t, content |-> None]

LEMMA ClaimsOK ==
    ASSUME HandoffOK, NEW h \in Handoffs, Idle(h), NEW i \in Slots, NEW t \in Tokens,
           Claim(i, t), handoff' = [handoff EXCEPT ![h] = ClaimedHandoff(i, t)]
    PROVE  HandoffOK'
<1> DEFINE new == ClaimedHandoff(i, t)
<1>1. new \in Handoff /\ new.phase = "claimed" /\ new.slot = i /\ new.token = t
  BY DEF Handoff, ClaimedHandoff
<1>2. /\ handoff' \in [Handoffs -> Handoff] /\ handoff'[h] = new
      /\ \A g \in Handoffs : g # h => handoff'[g] = handoff[g]
  BY <1>1 DEF HandoffOK
<1>3. /\ held' = held \cup {[slot |-> i, token |-> t]}
      /\ \A lease \in held : lease.token # t
  BY DEF Claim, FreshToken
<1>4. \A g \in Handoffs : ~Idle(g) => handoff[g].token # t
  BY <1>3 DEF HandoffOK, LeaseOf
<1>5. LeaseOf(h)' = [slot |-> i, token |-> t]
  BY <1>1, <1>2 DEF LeaseOf
<1>6. \A g \in Handoffs : g # h => (Idle(g)' <=> Idle(g)) /\ LeaseOf(g)' = LeaseOf(g)
  BY <1>2 DEF Idle, LeaseOf
<1> HIDE DEF new
<1>7. ASSUME NEW g \in Handoffs, ~Idle(g)'
      PROVE  /\ handoff'[g].slot \in Slots /\ handoff'[g].token \in Tokens
             /\ LeaseOf(g)' \in held'
  <2>1. CASE g = h
    BY <2>1, <1>1, <1>2, <1>3, <1>5
  <2>2. CASE g # h
    BY <2>2, <1>7, <1>2, <1>3, <1>6 DEF HandoffOK
  <2> QED BY <2>1, <2>2
<1>8. ASSUME NEW f \in Handoffs, NEW g \in Handoffs, f # g, ~Idle(f)', ~Idle(g)'
      PROVE  handoff'[f].token # handoff'[g].token
  <2>1. CASE f = h
    BY <2>1, <1>8, <1>1, <1>2, <1>4, <1>6
  <2>2. CASE g = h
    BY <2>2, <1>8, <1>1, <1>2, <1>4, <1>6
  <2>3. CASE f # h /\ g # h
    BY <2>3, <1>8, <1>2, <1>6 DEF HandoffOK
  <2> QED BY <2>1, <2>2, <2>3
<1> QED BY <1>2, <1>7, <1>8 DEF HandoffOK

LEMMA LeavesOK ==
    ASSUME HandoffOK, NEW h \in Handoffs, ~Idle(h), Leaves(h)
    PROVE  HandoffOK' /\ LeaseOf(h) \in held /\ Forget(LeaseOf(h))
<1>1. /\ handoff' = [handoff EXCEPT ![h] = IdleHandoff] /\ Forget(LeaseOf(h))
      /\ held' = held \ {LeaseOf(h)} /\ LeaseOf(h) \in held
  BY DEF Leaves, Forget, LeaseOf
<1>2. IdleHandoff \in Handoff /\ IdleHandoff.phase = "idle"
  BY DEF IdleHandoff, Handoff
<1>3. /\ handoff' \in [Handoffs -> Handoff] /\ handoff'[h] = IdleHandoff
      /\ \A g \in Handoffs : g # h => handoff'[g] = handoff[g]
  BY <1>1, <1>2 DEF HandoffOK
<1>4. ASSUME NEW g \in Handoffs, ~Idle(g)'
      PROVE  g # h /\ ~Idle(g) /\ LeaseOf(g)' = LeaseOf(g) /\ LeaseOf(g)' \in held'
  <2>1. g # h /\ ~Idle(g) /\ handoff'[g] = handoff[g]
    BY <1>2, <1>3, <1>4 DEF Idle
  <2>2. LeaseOf(g)' = LeaseOf(g)
    BY <2>1 DEF LeaseOf
  <2>3. LeaseOf(g) \in held /\ LeaseOf(g).token # LeaseOf(h).token
    BY <2>1 DEF HandoffOK, LeaseOf
  <2> QED BY <2>1, <2>2, <2>3, <1>1
<1>5. HandoffOK'
  BY <1>2, <1>3, <1>4 DEF HandoffOK
<1> QED BY <1>1, <1>5

LEMMA SameHandoffs == HandoffOK /\ handoff' = handoff /\ held' = held => HandoffOK'
BY DEF HandoffOK, Idle, LeaseOf

\* A handoff that moves on either leaves the queue alone or calls it under its
\* own lease.
LEMMA UnderLease ==
    ASSUME HandoffOK, QueueInv, NEW h \in Handoffs, ~Idle(h),
           LET i == handoff[h].slot
               t == handoff[h].token
           IN  \/ UNCHANGED queueVars
               \/ Complete(i, t) \/ Stop(i, t, "failed") \/ Stop(i, t, "uncertain")
               \/ \E c \in Contents : PrepareInboxHandoff(i, t, c)
    PROVE  held' = held /\ [QueueNext]_queueVars
<1> DEFINE i == handoff[h].slot
           t == handoff[h].token
<1>1. /\ LeaseOf(h) \in held /\ LeaseOf(h).slot = i /\ LeaseOf(h).token = t
  BY DEF HandoffOK, LeaseOf
<1>2. CASE UNCHANGED queueVars
  BY <1>2 DEF queueVars
<1>3. CASE \/ Complete(i, t) \/ Stop(i, t, "failed") \/ Stop(i, t, "uncertain")
           \/ \E c \in Contents : PrepareInboxHandoff(i, t, c)
  <2>1. LeaseCall(i, t)
    BY <1>3 DEF LeaseCall
  <2>2. LeaseCall(LeaseOf(h).slot, LeaseOf(h).token)
    BY <1>1, <2>1
  <2>3. QueueNext
    BY <1>1, <2>2 DEF QueueNext
  <2>4. held' = held
    BY <1>3 DEF Complete, Stop, PrepareInboxHandoff, End, Only
  <2> QED BY <2>3, <2>4
<1> QED BY <1>2, <1>3

\* The content of a prepared message is one.
LEMMA PreparesAdvances ==
    ASSUME HandoffOK, QueueInv, NEW h \in Handoffs, Prepares(h)
    PROVE  Advances(h)
<1>1. CASE \E phase \in {"over", "doubt"} : Goes(h, phase)
  BY <1>1, GoesAdvances DEF BusyPhases
<1>2. ASSUME NEW c \in Contents \cup {None},
             handoff' = [handoff EXCEPT ![h].phase = "ready", ![h].content = c]
      PROVE  Advances(h)
  BY <1>2 DEF Advances, BusyPhases
<1>3. ~Idle(h)
  BY DEF Prepares, At, Idle
<1>4. rows[handoff[h].slot].content \in Contents \cup {None}
  BY <1>3 DEF HandoffOK, QueueInv, QueueTypeOK, Row
<1> QED BY <1>1, <1>2, <1>4 DEF Prepares

LEMMA StepsUnderLease ==
    ASSUME HandoffOK, QueueInv, NEW h \in Handoffs,
           \/ Recovers(h) \/ Prepares(h) \/ Checks(h) \/ Locks(h) \/ Decides(h)
           \/ Sends(h) \/ Polls(h) \/ Concludes(h) \/ SendThrows(h) \/ TimesOut(h)
    PROVE  HandoffOK' /\ [QueueNext]_queueVars
<1>1. ~Idle(h)
  BY DEF Recovers, Prepares, Checks, Locks, Decides, Sends, Polls, Concludes,
         SendThrows, TimesOut, At, Idle
<1>2. Advances(h)
  <2>1. CASE Prepares(h)
    BY <2>1, PreparesAdvances
  <2>2. CASE ~Prepares(h)
    <3>1. \E phase \in BusyPhases : Goes(h, phase)
      BY <2>2 DEF Recovers, Checks, Locks, Decides, Sends, Polls, Concludes,
                  SendThrows, TimesOut, BusyPhases
    <3> QED BY <3>1, GoesAdvances
  <2> QED BY <2>1, <2>2
<1>3. held' = held /\ [QueueNext]_queueVars
  <2>1. LET i == handoff[h].slot
            t == handoff[h].token
        IN  \/ UNCHANGED queueVars
            \/ Complete(i, t) \/ Stop(i, t, "failed") \/ Stop(i, t, "uncertain")
            \/ \E c \in Contents : PrepareInboxHandoff(i, t, c)
    BY DEF Recovers, Prepares, Checks, Locks, Decides, Sends, Polls, Concludes,
           SendThrows, TimesOut, QueueUnchanged
  <2> QED BY <1>1, <2>1, UnderLease
<1> QED BY <1>1, <1>2, <1>3, AdvancesOK

LEMMA HandoffsFollow ==
    ASSUME HandoffOK, QueueInv, [InboxNext]_inboxVars
    PROVE  HandoffOK' /\ [QueueNext]_queueVars
<1>1. ASSUME NEW h \in Handoffs, HandoffClaims(h) PROVE HandoffOK' /\ QueueNext
  <2>1. Idle(h)
    BY <1>1 DEF HandoffClaims, At, Idle
  <2>2. CASE \E i \in Slots, t \in Tokens :
             /\ Claim(i, t)
             /\ handoff' = [handoff EXCEPT ![h] = ClaimedHandoff(i, t)]
    BY <2>1, <2>2, ClaimsOK DEF QueueNext
  <2>3. CASE ClaimNothing /\ UNCHANGED handoff
    BY <2>3, SameHandoffs DEF ClaimNothing, QueueNext
  <2> QED BY <1>1, <2>2, <2>3 DEF HandoffClaims, ClaimedHandoff
<1>2. ASSUME NEW h \in Handoffs, HandoffEnds(h) \/ HandoffCrash(h)
      PROVE  HandoffOK' /\ QueueNext
  <2>1. ~Idle(h) /\ Leaves(h)
    BY <1>2 DEF HandoffEnds, HandoffCrash, At, Idle
  <2> QED BY <2>1, LeavesOK DEF QueueNext
<1>3. ASSUME NEW h \in Handoffs,
             \/ Recovers(h) \/ Prepares(h) \/ Checks(h) \/ Locks(h) \/ Decides(h)
             \/ Sends(h) \/ Polls(h) \/ Concludes(h) \/ SendThrows(h) \/ TimesOut(h)
      PROVE  HandoffOK' /\ [QueueNext]_queueVars
  BY <1>3, StepsUnderLease
<1>4. CASE UNCHANGED queueVars /\ UNCHANGED handoff
  BY <1>4, SameHandoffs DEF queueVars
<1>5. ASSUME NEW i \in Slots, Insert(i) \/ TimeComes(i), UNCHANGED handoffVars
      PROVE  HandoffOK' /\ QueueNext
  BY <1>5, SameHandoffs DEF handoffVars, QueueNext, Insert, TimeComes, Only
<1>6. CASE Revoke /\ UNCHANGED handoffVars
  BY <1>6, SameHandoffs DEF handoffVars, QueueNext, Revoke
<1>7. (\E late \in stray : StrayReturns(late)) \/ SessionStep \/ EveReplays \/ SessionEnds
         \/ UNCHANGED inboxVars => UNCHANGED queueVars /\ UNCHANGED handoff
  BY DEF StrayReturns, SessionStep, DropsCopy, RecordsReceipt, BeginsTurn, EveReplays,
         SessionEnds, OnlyEve, QueueUnchanged, handoffVars, inboxVars, queueVars
<1> QED BY <1>1, <1>2, <1>3, <1>4, <1>5, <1>6, <1>7 DEF InboxNext, HandoffStep

LEMMA HandoffsStart == InboxInit => QueueInit /\ QueueInv /\ HandoffOK
BY InitHolds DEF InboxInit, HandoffOK, IdleHandoff, Handoff, Idle

Handing == QueueInv /\ HandoffOK

LEMMA HandingKept ==
    Handing /\ [InboxNext]_inboxVars => Handing' /\ [QueueNext]_queueVars
BY HandoffsFollow, StepKeeps DEF Handing

\* Whatever the handoffs, the sessions and the crashes do, the queue sees
\* nothing but calls it allows, each under a lease that its caller was given.
THEOREM HandoffsUseTheQueue == InboxSafety => FollowsQueue
<1>1. InboxInit => QueueInit /\ Handing
  BY HandoffsStart DEF Handing
<1> QED BY <1>1, HandingKept, PTL DEF InboxSafety, FollowsQueue, QueueSpec

\* So the messages of an address are handed over one at a time, in their order.
THEOREM InboxKeepsQueueInv == InboxSafety => []QueueInv
BY HandoffsUseTheQueue, QueueInvariance, PTL DEF FollowsQueue

\* And two handoffs of one message never prepare it differently.
THEOREM InboxPreparesOnce == InboxSafety => ContentIsStable
BY HandoffsUseTheQueue, PreparedOnce DEF FollowsQueue

-----------------------------------------------------------------------------
(***************************************************************************)
(* The invariant of the handoffs and the session together.                 *)
(***************************************************************************)
Fixed(i, c) == rows[i].native = "prepared" /\ rows[i].content = c

\* The phases in which a handoff carries what it read or prepared.
Carrying == {"ready", "locking", "locked", "sending", "polling"}

\* Whatever carries a message carries what it was first prepared as.
Agree ==
    /\ \A h \in Handoffs :
          handoff[h].phase \in Carrying \/ handoff[h].content # None
             => handoff[h].slot \in Slots /\ Fixed(handoff[h].slot, handoff[h].content)
    /\ \A m \in 1..Len(mailbox) : Fixed(mailbox[m].slot, mailbox[m].content)
    /\ \A late \in stray : Fixed(late.copy.slot, late.copy.content)
    /\ \A i \in Slots : receipt[i] # NoReceipt => Fixed(i, receipt[i].content)

Began(i) == \E m \in 1..Len(turns) : turns[m] = i

\* A turn that begins has its receipt, and its session remembers it.
TurnOK ==
    /\ \A i \in Slots : receipt[i].session <= session
    /\ alive => session > 0
    /\ begun => /\ alive /\ mailbox # <<>> /\ Head(mailbox).slot \notin consumed
                /\ receipt[Head(mailbox).slot] =
                      [session |-> session, content |-> Head(mailbox).content]
    /\ \A i \in Slots : Began(i) =>
          /\ receipt[i] # NoReceipt
          /\ alive /\ receipt[i].session = session => i \in consumed
    /\ \A i \in consumed : Began(i)

\* A message is settled because its turn began, or because it was never
\* prepared; and one that was claimed stands behind settled ones.
Outcome ==
    /\ \A h \in Handoffs : At(h, "found") => Began(handoff[h].slot)
    /\ \A i \in Slots :
          /\ rows[i].status = "done" => Began(i)
          /\ rows[i].status = "failed" => rows[i].native # "prepared"
          /\ rows[i].status # "cancelled"
          /\ rows[i].native # "none" => \A j \in Slots : j < i => Settled(rows[j])
          /\ rows[i].native = "prepared" => rows[i].content \in Contents

HandoffInv == /\ Handing /\ InboxTypeOK
              /\ Agree /\ TurnOK /\ Outcome /\ TurnsFollowInbox

-----------------------------------------------------------------------------
(***************************************************************************)
(* What a step does to a row and to a handoff.                             *)
(***************************************************************************)
RowOfStep(i) ==
    \/ rows'[i].status = rows[i].status /\ rows'[i].native = rows[i].native
    \/ /\ rows'[i].status \notin {"done", "failed", "cancelled"}
       /\ rows[i].native = "none" =>
             rows'[i].native = "none" \/ rows'[i].status = "dispatching"
       /\ rows'[i].native = "prepared" =>
             rows[i].native = "prepared" \/ rows'[i].content \in Contents
    \/ /\ rows[i].native = "snapshot" /\ rows'[i].native = "snapshot"
       /\ rows'[i].status = "failed"
    \/ /\ rows'[i].status = "done" /\ rows'[i].native = rows[i].native
       /\ \E h \in Handoffs : At(h, "found") /\ handoff[h].slot = i

LEMMA ClaimRow ==
    ASSUME QueueInv, NEW i \in Slots,
           ClaimNothing \/ \E k \in Slots, t \in Tokens : Claim(k, t)
    PROVE  RowOfStep(i)
<1>1. /\ Aged \in [Slots -> Row]
      /\ Aged[i] = rows[i] \/ /\ Aged[i].status = "uncertain"
                              /\ Aged[i].native = rows[i].native
  BY QInvIsQueueInv, AgedRows, AgedChange DEF QInv
<1>2. CASE ClaimNothing
  <2>1. rows'[i] = Aged[i]
    BY <1>2, InboxAssumption DEF ClaimNothing
  <2> QED BY <1>1, <2>1 DEF RowOfStep
<1>3. ASSUME NEW k \in Slots, NEW t \in Tokens, Claim(k, t) PROVE RowOfStep(i)
  <2>1. rows' = [Aged EXCEPT ![k] = Handed(Aged[k], t)]
    <3>1. [Aged EXCEPT ![k] = Handed(@, t)] = [Aged EXCEPT ![k] = Handed(Aged[k], t)]
      BY DEF Aged
    <3> QED BY <1>3, <3>1 DEF Claim
  <2>2. CASE i # k
    <3>1. rows'[i] = Aged[i]
      BY <1>1, <2>1, <2>2
    <3> QED BY <1>1, <3>1 DEF RowOfStep
  <2>3. CASE i = k
    <3>1. rows'[i] = Handed(Aged[i], t) /\ Aged[i] \in Row
      BY <1>1, <2>1, <2>3
    <3>2. rows'[i].status = "dispatching"
      BY <3>1, HandedRow
    <3>3. rows'[i].native \in {Aged[i].native, "snapshot"}
      BY <3>1 DEF Handed, Row
    <3> QED BY <1>1, <3>2, <3>3 DEF RowOfStep
  <2> QED BY <2>2, <2>3
<1> QED BY <1>2, <1>3

LEMMA RowsStep ==
    ASSUME HandoffOK, QueueInv, [InboxNext]_inboxVars, NEW i \in Slots
    PROVE  RowOfStep(i)
<1>1. CASE rows' = rows
  BY <1>1 DEF RowOfStep
<1>2. ASSUME NEW h \in Handoffs, HandoffClaims(h) PROVE RowOfStep(i)
  BY <1>2, ClaimRow DEF HandoffClaims
<1>3. ASSUME NEW k \in Slots, NEW status \in {"done", "failed", "uncertain"},
             Only(k, Ends(rows[k], status)),
             status = "failed" => rows[k].native = "snapshot",
             status = "done" => \E h \in Handoffs : At(h, "found") /\ handoff[h].slot = k
      PROVE  RowOfStep(i)
  <2>1. CASE i # k
    <3>1. rows'[i] = rows[i]
      BY <1>3, <2>1, OnlyOne
    <3> QED BY <3>1 DEF RowOfStep
  <2>2. CASE i = k
    <3>1. rows'[i] = Ends(rows[i], status)
      BY <1>3, <2>2, OnlyOne
    <3>2. rows'[i].status = status /\ rows'[i].native = rows[i].native
      BY <3>1, RowTyped, EndsRow DEF Status
    <3> QED BY <1>3, <2>2, <3>2 DEF RowOfStep
  <2> QED BY <2>1, <2>2
<1>4. ASSUME NEW h \in Handoffs, Prepares(h) PROVE RowOfStep(i)
  <2> DEFINE k == handoff[h].slot
             t == handoff[h].token
  <2>1. k \in Slots
    BY <1>4 DEF Prepares, At, HandoffOK, Idle
  <2>2. CASE Stop(k, t, "failed") /\ rows[k].native = "snapshot"
    <3>1. Only(k, Ends(rows[k], "failed"))
      BY <2>2 DEF Stop, End
    <3> QED BY <1>3, <2>1, <2>2, <3>1
  <2>3. ASSUME NEW c \in Contents, PrepareInboxHandoff(k, t, c) PROVE RowOfStep(i)
    <3> DEFINE row == [rows[k] EXCEPT !.native = "prepared", !.content = c, !.heard = @ + 1]
    <3>1. rows[k] \in Row /\ rows[k].native = "snapshot" /\ rows[k].status = "dispatching"
      BY <2>1, <2>3, RowTyped DEF PrepareInboxHandoff, LeaseLive
    <3>2. row.status = "dispatching" /\ row.content \in Contents
      BY <3>1 DEF Row
    <3>3. Only(k, row)
      BY <2>3 DEF PrepareInboxHandoff
    <3> HIDE DEF row
    <3> QED BY <2>1, <3>1, <3>2, <3>3, OnlyOne DEF RowOfStep
  <2> QED BY <1>1, <1>4, <2>2, <2>3 DEF Prepares, QueueUnchanged, queueVars
<1>5. ASSUME NEW h \in Handoffs, Concludes(h) PROVE RowOfStep(i)
  <2> DEFINE k == handoff[h].slot
             t == handoff[h].token
  <2>1. k \in Slots
    BY <1>5 DEF Concludes, At, HandoffOK, Idle
  <2>2. CASE At(h, "found") /\ Complete(k, t)
    <3>1. Only(k, Ends(rows[k], "done"))
      BY <2>2 DEF Complete, End
    <3> QED BY <1>3, <2>1, <2>2, <3>1
  <2>3. CASE Stop(k, t, "uncertain")
    <3>1. Only(k, Ends(rows[k], "uncertain"))
      BY <2>3 DEF Stop, End
    <3> QED BY <1>3, <2>1, <3>1
  <2> QED BY <1>1, <1>5, <2>2, <2>3 DEF Concludes, QueueUnchanged, queueVars
<1>6. ASSUME NEW k \in Slots, Insert(k) PROVE RowOfStep(i)
  <2> DEFINE row == [AbsentRow EXCEPT !.status = "queued"]
  <2>1. Only(k, row) /\ row.status = "queued" /\ row.native = "none"
    BY <1>6 DEF Insert, AbsentRow
  <2> HIDE DEF row
  <2> QED BY <2>1, OnlyOne DEF RowOfStep
<1>7. ASSUME NEW k \in Slots, TimeComes(k) PROVE RowOfStep(i)
  <2> DEFINE row == [rows[k] EXCEPT !.until = "reached"]
  <2>1. Only(k, row) /\ row.status = rows[k].status /\ row.native = rows[k].native
    BY <1>7, RowTyped DEF TimeComes, Row
  <2> HIDE DEF row
  <2> QED BY <2>1, OnlyOne DEF RowOfStep
<1>8. ASSUME NEW h \in Handoffs,
             \/ Recovers(h) \/ Checks(h) \/ Locks(h) \/ Decides(h) \/ Sends(h) \/ Polls(h)
             \/ HandoffEnds(h) \/ SendThrows(h) \/ TimesOut(h) \/ HandoffCrash(h)
      PROVE  rows' = rows
  BY <1>8 DEF Recovers, Checks, Locks, Decides, Sends, Polls, HandoffEnds, SendThrows,
              TimesOut, HandoffCrash, Leaves, Forget, QueueUnchanged, queueVars
<1>9. (\E late \in stray : StrayReturns(late)) \/ SessionStep \/ EveReplays \/ SessionEnds
         \/ Revoke \/ UNCHANGED inboxVars => rows' = rows
  BY DEF StrayReturns, SessionStep, DropsCopy, RecordsReceipt, BeginsTurn, EveReplays,
         SessionEnds, OnlyEve, QueueUnchanged, Revoke, inboxVars, queueVars
<1> QED BY <1>1, <1>2, <1>4, <1>5, <1>6, <1>7, <1>8, <1>9 DEF InboxNext, HandoffStep

\* What a handoff carries, and why it believes that its turn began.
Moved(h) ==
    \/ handoff'[h] = handoff[h]
    \/ handoff'[h].content = None /\ handoff'[h].phase \in {"idle", "claimed"}
    \/ /\ handoff'[h].slot = handoff[h].slot /\ handoff'[h].content = handoff[h].content
       /\ \/ handoff'[h].phase \notin Carrying \cup {"found"}
          \/ handoff'[h].phase \in Carrying /\ handoff[h].phase \in Carrying
          \/ handoff'[h].phase = "found" /\ Accepted(handoff[h].slot)
    \/ /\ handoff'[h].phase = "ready"
       /\ Fixed(handoff[h].slot, handoff[h].content)'

LEMMA GoesWhere ==
    ASSUME HandoffOK, NEW g \in Handoffs, NEW phase, Goes(g, phase)
    PROVE  /\ handoff'[g].phase = phase
           /\ handoff'[g].slot = handoff[g].slot
           /\ handoff'[g].content = handoff[g].content
           /\ \A h \in Handoffs : h # g => handoff'[h] = handoff[h]
<1>1. /\ handoff'[g] = [handoff[g] EXCEPT !.phase = phase] /\ handoff[g] \in Handoff
      /\ \A h \in Handoffs : h # g => handoff'[h] = handoff[h]
  BY DEF Goes, HandoffOK
<1> QED BY <1>1 DEF Handoff

LEMMA HandoffMoves ==
    ASSUME HandoffOK, QueueInv, [InboxNext]_inboxVars, NEW h \in Handoffs
    PROVE  Moved(h)
<1>1. CASE handoff'[h] = handoff[h]
  BY <1>1 DEF Moved
<1>2. ASSUME NEW g \in Handoffs, NEW new \in Handoff, handoff' = [handoff EXCEPT ![g] = new],
             new.content = None, new.phase \in {"idle", "claimed"}
      PROVE  Moved(h)
  <2>1. handoff'[g] = new /\ (h # g => handoff'[h] = handoff[h])
    BY <1>2 DEF HandoffOK
  <2> QED BY <1>1, <1>2, <2>1 DEF Moved
<1>3. ASSUME NEW g \in Handoffs, HandoffClaims(g) PROVE Moved(h)
  <2>1. ASSUME NEW i \in Slots, NEW t \in Tokens,
               handoff' = [handoff EXCEPT ![g] = ClaimedHandoff(i, t)]
        PROVE  Moved(h)
    <3>1. /\ ClaimedHandoff(i, t) \in Handoff /\ ClaimedHandoff(i, t).content = None
          /\ ClaimedHandoff(i, t).phase = "claimed"
      BY DEF ClaimedHandoff, Handoff
    <3> QED BY <1>2, <2>1, <3>1
  <2> QED BY <1>1, <1>3, <2>1 DEF HandoffClaims, ClaimedHandoff
<1>4. ASSUME NEW g \in Handoffs, HandoffEnds(g) \/ HandoffCrash(g) PROVE Moved(h)
  <2>1. handoff' = [handoff EXCEPT ![g] = IdleHandoff]
    BY <1>4 DEF HandoffEnds, HandoffCrash, Leaves
  <2>2. IdleHandoff \in Handoff /\ IdleHandoff.content = None /\ IdleHandoff.phase = "idle"
    BY DEF IdleHandoff, Handoff
  <2> QED BY <1>2, <2>1, <2>2
<1>5. ASSUME NEW g \in Handoffs, NEW phase, Goes(g, phase),
             \/ phase \notin Carrying \cup {"found"}
             \/ phase \in Carrying /\ handoff[g].phase \in Carrying
             \/ phase = "found" /\ Accepted(handoff[g].slot)
      PROVE  Moved(h)
  <2>1. /\ handoff'[g].phase = phase /\ handoff'[g].slot = handoff[g].slot
        /\ handoff'[g].content = handoff[g].content
        /\ h # g => handoff'[h] = handoff[h]
    BY <1>5, GoesWhere, Zenon
  <2>2. CASE h = g
    BY <1>5, <2>1, <2>2 DEF Moved
  <2> QED BY <1>1, <2>1, <2>2
<1>6. ASSUME NEW g \in Handoffs, Recovers(g) \/ Polls(g) PROVE Moved(h)
  BY <1>5, <1>6 DEF Recovers, Polls, Carrying
<1>7. ASSUME NEW g \in Handoffs,
             \/ Checks(g) \/ Locks(g) \/ Decides(g) \/ Sends(g)
             \/ Concludes(g) \/ SendThrows(g) \/ TimesOut(g)
      PROVE  Moved(h)
  <2>1. CASE Concludes(g)
    <3>1. Goes(g, "over")
      BY <2>1 DEF Concludes
    <3> QED BY <1>5, <3>1 DEF Carrying
  <2>2. CASE ~Concludes(g)
    <3>1. handoff[g].phase \in Carrying
      BY <1>7, <2>2 DEF Checks, Locks, Decides, Sends, SendThrows, TimesOut, At, Carrying
    <3>2. \E phase : Goes(g, phase) /\ phase \in Carrying \cup {"doubt", "over"}
      BY <1>7, <2>2 DEF Checks, Locks, Decides, Sends, SendThrows, TimesOut, Carrying
    <3> QED BY <1>5, <3>1, <3>2 DEF Carrying
  <2> QED BY <2>1, <2>2
<1>8. ASSUME NEW g \in Handoffs, Prepares(g) PROVE Moved(h)
  <2> DEFINE i == handoff[g].slot
             t == handoff[g].token
  <2>1. i \in Slots
    BY <1>8 DEF Prepares, At, HandoffOK, Idle
  <2>2. CASE \E phase \in {"over", "doubt"} : Goes(g, phase)
    BY <1>5, <2>2 DEF Carrying
  <2>3. ASSUME NEW c \in Contents \cup {None},
               handoff' = [handoff EXCEPT ![g].phase = "ready", ![g].content = c],
               rows'[i].native = "prepared" /\ rows'[i].content = c
        PROVE  Moved(h)
    <3>1. /\ handoff'[g] = [handoff[g] EXCEPT !.phase = "ready", !.content = c]
          /\ handoff[g] \in Handoff
          /\ h # g => handoff'[h] = handoff[h]
      BY <2>3 DEF HandoffOK
    <3>2. handoff'[g].phase = "ready" /\ handoff'[g].content = c /\ handoff'[g].slot = i
      BY <3>1 DEF Handoff
    <3>3. Fixed(handoff[g].slot, handoff[g].content)'
      BY <2>3, <3>2 DEF Fixed
    <3> QED BY <1>1, <3>1, <3>2, <3>3 DEF Moved
  <2>4. ASSUME NEW c \in Contents, PrepareInboxHandoff(i, t, c)
        PROVE  rows'[i].native = "prepared" /\ rows'[i].content = c
    <3> DEFINE row == [rows[i] EXCEPT !.native = "prepared", !.content = c, !.heard = @ + 1]
    <3>1. row.native = "prepared" /\ row.content = c /\ Only(i, row)
      BY <2>1, <2>4, RowTyped DEF PrepareInboxHandoff, Row
    <3> HIDE DEF row
    <3> QED BY <2>1, <3>1, OnlyOne
  <2>5. rows[i].content \in Contents \cup {None}
    BY <2>1, RowTyped DEF Row
  <2> QED BY <1>8, <2>2, <2>3, <2>4, <2>5 DEF Prepares, QueueUnchanged, queueVars
<1>9. (\E late \in stray : StrayReturns(late)) \/ SessionStep \/ EveReplays \/ SessionEnds
         \/ UNCHANGED handoffVars \/ UNCHANGED inboxVars => handoff' = handoff
  BY DEF StrayReturns, SessionStep, DropsCopy, RecordsReceipt, BeginsTurn, EveReplays,
         SessionEnds, OnlyEve, handoffVars, inboxVars
<1> QED BY <1>1, <1>3, <1>4, <1>6, <1>7, <1>8, <1>9 DEF InboxNext, HandoffStep

-----------------------------------------------------------------------------
(***************************************************************************)
(* What a step does to the copies and to the session.                      *)
(***************************************************************************)
EveStep ==
    \/ UNCHANGED eveVars
    \/ \E copy \in Copy : Fixed(copy.slot, copy.content) /\ Arrives(copy)
    \/ SessionStep \/ EveReplays \/ SessionEnds

StrayStep ==
    /\ lock' \in {lock, None, "stray"} \cup Handoffs
    /\ \A late \in stray' :
          \/ late \in stray
          \/ \E h \in Handoffs, locks \in BOOLEAN :
                At(h, "sending") /\ late = [copy |-> CopyOf(h), locks |-> locks]

\* What is sent is what was prepared.
LEMMA SentCopy ==
    ASSUME HandoffInv, NEW h \in Handoffs, At(h, "sending")
    PROVE  /\ CopyOf(h) \in Copy
           /\ Fixed(CopyOf(h).slot, CopyOf(h).content)
<1>1. handoff[h].slot \in Slots /\ handoff[h].phase \in Carrying
  BY DEF HandoffInv, Handing, HandoffOK, At, Idle, Carrying
<1>2. Fixed(handoff[h].slot, handoff[h].content)
  BY <1>1 DEF HandoffInv, Agree
<1>3. handoff[h].content \in Contents
  BY <1>1, <1>2 DEF HandoffInv, Outcome, Fixed
<1> QED BY <1>1, <1>2, <1>3 DEF CopyOf, Copy

LEMMA EveSteps ==
    ASSUME HandoffInv, [InboxNext]_inboxVars
    PROVE  EveStep
<1>1. ASSUME NEW h \in Handoffs, At(h, "sending"), Arrives(CopyOf(h)) PROVE EveStep
  BY <1>1, SentCopy DEF EveStep
<1>2. ASSUME NEW late \in stray, Arrives(late.copy) PROVE EveStep
  <2>1. late.copy \in Copy
    BY <1>2 DEF HandoffInv, InboxTypeOK
  <2> QED BY <1>2, <2>1 DEF EveStep, HandoffInv, Agree
<1>3. CASE UNCHANGED eveVars
  BY <1>3 DEF EveStep
<1>4. ASSUME NEW h \in Handoffs, Sends(h) \/ SendThrows(h) PROVE EveStep
  BY <1>1, <1>3, <1>4 DEF Sends, SendThrows
<1>5. ASSUME NEW late \in stray, StrayReturns(late) PROVE EveStep
  BY <1>2, <1>3, <1>5 DEF StrayReturns
<1>6. CASE SessionStep \/ EveReplays \/ SessionEnds
  BY <1>6 DEF EveStep
<1>7. ASSUME NEW h \in Handoffs,
             \/ HandoffClaims(h) \/ Recovers(h) \/ Prepares(h) \/ Checks(h) \/ Locks(h)
             \/ Decides(h) \/ Polls(h) \/ Concludes(h) \/ HandoffEnds(h) \/ TimesOut(h)
             \/ HandoffCrash(h)
      PROVE  UNCHANGED eveVars
  BY <1>7 DEF HandoffClaims, Recovers, Prepares, Checks, Locks, Decides, Polls, Concludes,
              HandoffEnds, TimesOut, HandoffCrash
<1>8. CASE UNCHANGED inboxVars
  BY <1>3, <1>8 DEF inboxVars, eveVars
<1> QED BY <1>3, <1>4, <1>5, <1>6, <1>7, <1>8 DEF InboxNext, HandoffStep

LEMMA StraySteps ==
    ASSUME HandoffOK, [InboxNext]_inboxVars
    PROVE  StrayStep
<1>1. ASSUME NEW h \in Handoffs, TimesOut(h) \/ HandoffCrash(h) PROVE StrayStep
  <2>1. \/ stray' = stray
        \/ At(h, "sending") /\ \E locks \in BOOLEAN : Strays(h, locks)
    BY <1>1 DEF TimesOut, HandoffCrash
  <2>2. lock' \in {lock, None, "stray"}
    BY <1>1 DEF TimesOut, HandoffCrash
  <2> QED BY <2>1, <2>2 DEF StrayStep, Strays
<1>2. ASSUME NEW h \in Handoffs,
             \/ HandoffClaims(h) \/ Recovers(h) \/ Prepares(h) \/ Checks(h) \/ Locks(h)
             \/ Decides(h) \/ Sends(h) \/ Polls(h) \/ Concludes(h) \/ HandoffEnds(h)
             \/ SendThrows(h)
      PROVE  StrayStep
  BY <1>2 DEF HandoffClaims, Recovers, Prepares, Checks, Locks, Decides, Sends, Polls,
              Concludes, HandoffEnds, SendThrows, StrayStep
<1>3. ASSUME NEW late \in stray, StrayReturns(late) PROVE StrayStep
  BY <1>3 DEF StrayReturns, StrayStep
<1>4. CASE UNCHANGED handoffVars \/ UNCHANGED inboxVars
  BY <1>4 DEF handoffVars, inboxVars, StrayStep
<1>5. SessionStep \/ EveReplays \/ SessionEnds => UNCHANGED handoffVars
  BY DEF SessionStep, DropsCopy, RecordsReceipt, BeginsTurn, EveReplays, SessionEnds, OnlyEve
<1> QED BY <1>1, <1>2, <1>3, <1>4, <1>5 DEF InboxNext, HandoffStep

EveTypeOK ==
    /\ receipt \in [Slots -> [session: Nat, content: Contents \cup {None}]]
    /\ session \in 0..MaxSessions /\ alive \in BOOLEAN
    /\ mailbox \in Seq(Copy)
    /\ consumed \subseteq Slots
    /\ begun \in BOOLEAN
    /\ turns \in Seq(Slots)

\* The mailbox keeps copies it had, or gets one that is fixed.
MailboxStep ==
    /\ mailbox' \in Seq(Copy)
    /\ \A m \in 1..Len(mailbox') :
          \/ Fixed(mailbox'[m].slot, mailbox'[m].content)
          \/ \E k \in 1..Len(mailbox) : mailbox'[m] = mailbox[k]

LEMMA MailboxTail ==
    ASSUME mailbox \in Seq(Copy), mailbox # <<>>
    PROVE  /\ Head(mailbox) \in Copy /\ Head(mailbox) = mailbox[1] /\ 1 \in 1..Len(mailbox)
           /\ Tail(mailbox) \in Seq(Copy)
           /\ \A m \in 1..Len(Tail(mailbox)) :
                 \E k \in 1..Len(mailbox) : Tail(mailbox)[m] = mailbox[k]
<1>1. Len(mailbox) \in Nat /\ Len(mailbox) > 0
  OBVIOUS
<1>2. ASSUME NEW m \in 1..Len(Tail(mailbox))
      PROVE  m + 1 \in 1..Len(mailbox) /\ Tail(mailbox)[m] = mailbox[m + 1]
  BY <1>1, <1>2
<1> QED BY <1>1, <1>2

LEMMA MailboxSteps ==
    ASSUME mailbox \in Seq(Copy), TurnOK, EveStep
    PROVE  MailboxStep
<1>1. CASE mailbox' = mailbox
  BY <1>1 DEF MailboxStep
<1>2. CASE mailbox' = <<>>
  BY <1>2 DEF MailboxStep
<1>3. ASSUME NEW copy \in Copy, Fixed(copy.slot, copy.content), Arrives(copy)
      PROVE  MailboxStep
  <2>1. CASE mailbox' = Append(mailbox, copy)
    <3>1. /\ Append(mailbox, copy) \in Seq(Copy) /\ Len(mailbox) \in Nat
          /\ Len(Append(mailbox, copy)) = Len(mailbox) + 1
      OBVIOUS
    <3>2. ASSUME NEW m \in 1..(Len(mailbox) + 1)
          PROVE  \/ Append(mailbox, copy)[m] = copy
                 \/ m \in 1..Len(mailbox) /\ Append(mailbox, copy)[m] = mailbox[m]
      BY <3>1, <3>2
    <3> QED BY <1>3, <2>1, <3>1, <3>2 DEF MailboxStep
  <2>2. CASE mailbox' = <<copy>>
    <3>1. /\ <<copy>> \in Seq(Copy) /\ Len(<<copy>>) = 1
          /\ \A m \in 1..1 : <<copy>>[m] = copy
      OBVIOUS
    <3> QED BY <1>3, <2>2, <3>1 DEF MailboxStep
  <2> QED BY <1>3, <2>1, <2>2 DEF Arrives
<1>4. CASE mailbox # <<>> /\ mailbox' = Tail(mailbox)
  BY <1>4, MailboxTail DEF MailboxStep
<1>5. DropsCopy \/ BeginsTurn => mailbox # <<>> /\ mailbox' = Tail(mailbox)
  BY DEF DropsCopy, BeginsTurn, TurnOK
<1>6. RecordsReceipt \/ EveReplays \/ UNCHANGED eveVars => mailbox' = mailbox
  BY DEF RecordsReceipt, EveReplays, eveVars
<1>7. SessionEnds => mailbox' = <<>>
  BY DEF SessionEnds
<1> QED BY <1>1, <1>2, <1>3, <1>4, <1>5, <1>6, <1>7 DEF EveStep, SessionStep

LEMMA EveTyped ==
    ASSUME InboxTypeOK, TurnOK, EveStep
    PROVE  EveTypeOK'
<1> USE HandoffAssumption
<1>0. EveTypeOK
  BY DEF InboxTypeOK, EveTypeOK
<1>1. mailbox' \in Seq(Copy)
  BY <1>0, MailboxSteps DEF EveTypeOK, MailboxStep
<1>2. CASE UNCHANGED eveVars
  BY <1>0, <1>2 DEF EveTypeOK, eveVars
<1>3. ASSUME NEW copy \in Copy, Arrives(copy) PROVE EveTypeOK'
  <2>0. \/ UNCHANGED <<session, alive, consumed>>
        \/ session < MaxSessions /\ session' = session + 1 /\ alive' = TRUE /\ consumed' = {}
    BY <1>3 DEF Arrives
  <2>1. session' \in 0..MaxSessions /\ alive' \in BOOLEAN /\ consumed' \subseteq Slots
    <3>1. session \in 0..MaxSessions /\ alive \in BOOLEAN /\ consumed \subseteq Slots
      BY <1>0 DEF EveTypeOK
    <3>2. session' \in 0..MaxSessions
      BY <2>0, <3>1
    <3>3. alive' \in BOOLEAN
      BY <2>0, <3>1
    <3>4. consumed' \subseteq Slots
      BY <2>0, <3>1
    <3> QED BY <3>2, <3>3, <3>4
  <2>2. UNCHANGED <<receipt, begun, turns>>
    BY <1>3 DEF Arrives
  <2> QED BY <1>0, <1>1, <2>1, <2>2 DEF EveTypeOK
<1>4. CASE DropsCopy \/ EveReplays \/ SessionEnds
  <2>1. /\ UNCHANGED <<receipt, session, turns>>
        /\ alive' \in BOOLEAN /\ begun' \in BOOLEAN /\ consumed' \subseteq Slots
    BY <1>0, <1>4 DEF DropsCopy, EveReplays, SessionEnds, EveTypeOK
  <2> QED BY <1>0, <1>1, <2>1 DEF EveTypeOK
<1>5. CASE RecordsReceipt
  <2>1. Head(mailbox) \in Copy
    BY <1>0, <1>5, MailboxTail DEF RecordsReceipt, EveTypeOK
  <2>2. [session |-> session, content |-> Head(mailbox).content]
           \in [session: Nat, content: Contents \cup {None}]
    BY <1>0, <2>1 DEF EveTypeOK, Copy
  <2>3. receipt' \in [Slots -> [session: Nat, content: Contents \cup {None}]]
    BY <1>0, <1>5, <2>2 DEF RecordsReceipt, EveTypeOK
  <2>4. UNCHANGED <<session, alive, consumed, turns>> /\ begun' \in BOOLEAN
    BY <1>5 DEF RecordsReceipt
  <2> QED BY <1>0, <1>1, <2>3, <2>4 DEF EveTypeOK
<1>6. CASE BeginsTurn
  <2>1. Head(mailbox) \in Copy
    BY <1>0, <1>6, MailboxTail DEF BeginsTurn, TurnOK, EveTypeOK
  <2>2. Head(mailbox).slot \in Slots
    BY <2>1 DEF Copy
  <2>3. Append(turns, Head(mailbox).slot) \in Seq(Slots)
    BY <1>0, <2>2 DEF EveTypeOK
  <2> QED BY <1>0, <1>1, <1>6, <2>2, <2>3 DEF BeginsTurn, EveTypeOK
<1> QED BY <1>2, <1>3, <1>4, <1>5, <1>6 DEF EveStep, SessionStep

LEMMA TypeKept ==
    ASSUME HandoffInv, [InboxNext]_inboxVars
    PROVE  InboxTypeOK'
<1>1. Handing' /\ EveTypeOK'
  BY HandingKept, EveSteps, EveTyped DEF HandoffInv
<1>2. ASSUME NEW late \in stray' PROVE late \in [copy: Copy, locks: BOOLEAN]
  BY <1>2, StraySteps, SentCopy DEF HandoffInv, Handing, InboxTypeOK, StrayStep
<1>3. lock' \in Handoffs \cup {None, "stray"}
  BY StraySteps DEF HandoffInv, Handing, InboxTypeOK, StrayStep
<1> QED BY <1>1, <1>2, <1>3 DEF Handing, HandoffOK, QueueInv, EveTypeOK, InboxTypeOK

-----------------------------------------------------------------------------
(***************************************************************************)
(* Each part of the invariant is kept.                                     *)
(***************************************************************************)
LEMMA FixedStays ==
    ASSUME QueueInv, [QueueNext]_queueVars, NEW i \in Slots, NEW c, Fixed(i, c)
    PROVE  rows'[i].native = "prepared" /\ rows'[i].content = c
BY StepChanges DEF Fixed, RowChange, LetGo, GivenOut, Readied, Timed, SameContent

LEMMA ReceiptSteps ==
    ASSUME EveStep, InboxTypeOK, NEW i \in Slots
    PROVE  \/ receipt'[i] = receipt[i]
           \/ /\ RecordsReceipt /\ mailbox # <<>> /\ i = Head(mailbox).slot
              /\ receipt'[i] = [session |-> session, content |-> Head(mailbox).content]
<1>1. CASE RecordsReceipt
  <2>1. receipt' = [receipt EXCEPT ![Head(mailbox).slot] =
                      [session |-> session, content |-> Head(mailbox).content]]
    BY <1>1 DEF RecordsReceipt
  <2>2. DOMAIN receipt = Slots /\ mailbox # <<>>
    BY <1>1 DEF RecordsReceipt, InboxTypeOK
  <2> QED BY <1>1, <2>1, <2>2
<1>2. CASE receipt' = receipt
  BY <1>2
<1>3. \/ receipt' = receipt \/ RecordsReceipt
  BY DEF EveStep, Arrives, SessionStep, DropsCopy, BeginsTurn, EveReplays, SessionEnds, eveVars
<1> QED BY <1>1, <1>2, <1>3

LEMMA AgreeKept ==
    ASSUME HandoffInv, [InboxNext]_inboxVars
    PROVE  Agree'
<1>1. ASSUME NEW i \in Slots, NEW c, Fixed(i, c)
      PROVE  rows'[i].native = "prepared" /\ rows'[i].content = c
  BY <1>1, HandingKept, FixedStays DEF HandoffInv, Handing
<1>2. ASSUME NEW h \in Handoffs,
             handoff'[h].phase \in Carrying \/ handoff'[h].content # None
      PROVE  handoff'[h].slot \in Slots /\ Fixed(handoff[h].slot, handoff[h].content)'
  <2>1. Moved(h)
    BY HandoffMoves DEF HandoffInv, Handing
  <2>2. handoff[h].phase \in Carrying \/ handoff[h].content # None
           => /\ handoff[h].slot \in Slots
              /\ rows'[handoff[h].slot].native = "prepared"
              /\ rows'[handoff[h].slot].content = handoff[h].content
    BY <1>1 DEF HandoffInv, Agree
  <2>3. handoff'[h].phase = "ready" => handoff'[h].slot \in Slots
    BY HandingKept DEF HandoffInv, Handing, HandoffOK, Idle
  <2>4. CASE handoff'[h] = handoff[h]
    BY <1>2, <2>2, <2>4 DEF Fixed
  <2> QED BY <1>2, <2>1, <2>2, <2>3, <2>4 DEF Moved, Carrying, Fixed
<1>3. ASSUME NEW m \in 1..Len(mailbox') PROVE Fixed(mailbox[m].slot, mailbox[m].content)'
  <2>1. MailboxStep
    BY EveSteps, MailboxSteps DEF HandoffInv, InboxTypeOK
  <2>2. Fixed(mailbox'[m].slot, mailbox'[m].content)
    BY <1>3, <2>1 DEF MailboxStep, HandoffInv, Agree
  <2>3. mailbox' \in Seq(Copy) => mailbox'[m] \in Copy
    BY <1>3
  <2>4. mailbox'[m].slot \in Slots
    BY <2>1, <2>3 DEF MailboxStep, Copy
  <2> QED BY <1>1, <2>2, <2>4 DEF Fixed
<1>4. ASSUME NEW late \in stray' PROVE Fixed(late.copy.slot, late.copy.content)'
  <2>1. late.copy \in Copy /\ Fixed(late.copy.slot, late.copy.content)
    BY <1>4, StraySteps, SentCopy DEF StrayStep, HandoffInv, Handing, Agree, InboxTypeOK
  <2> QED BY <1>1, <2>1 DEF Copy, Fixed
<1>5. ASSUME NEW i \in Slots, receipt'[i] # NoReceipt PROVE Fixed(i, receipt[i].content)'
  <2>1. CASE receipt'[i] = receipt[i]
    BY <1>1, <1>5, <2>1 DEF HandoffInv, Agree, Fixed
  <2>2. CASE /\ mailbox # <<>> /\ i = Head(mailbox).slot
             /\ receipt'[i] = [session |-> session, content |-> Head(mailbox).content]
    <3>1. Fixed(Head(mailbox).slot, Head(mailbox).content)
      BY <2>2, MailboxTail DEF HandoffInv, Agree, InboxTypeOK
    <3>2. receipt'[i].content = Head(mailbox).content
      BY <2>2
    <3> QED BY <1>1, <2>2, <3>1, <3>2 DEF Fixed
  <2>3. EveStep /\ InboxTypeOK
    BY EveSteps DEF HandoffInv
  <2> QED BY <2>1, <2>2, <2>3, ReceiptSteps
<1> QED BY <1>2, <1>3, <1>4, <1>5 DEF Agree

LEMMA TurnSteps ==
    ASSUME EveStep, turns \in Seq(Slots)
    PROVE  \/ turns' = turns
           \/ BeginsTurn /\ turns' = Append(turns, Head(mailbox).slot)
BY DEF EveStep, Arrives, SessionStep, DropsCopy, RecordsReceipt, BeginsTurn, EveReplays,
       SessionEnds, eveVars

LEMMA AppendedTurn ==
    ASSUME turns \in Seq(Slots), NEW i \in Slots, turns' = Append(turns, i)
    PROVE  /\ \A j : Began(j)' <=> Began(j) \/ j = i
           /\ Len(turns') = Len(turns) + 1 /\ Len(turns) \in Nat
           /\ \A m \in 1..Len(turns) : turns'[m] = turns[m]
           /\ turns'[Len(turns) + 1] = i
<1>1. /\ Len(turns) \in Nat /\ Len(turns') = Len(turns) + 1
      /\ \A m \in 1..Len(turns) : turns'[m] = turns[m]
      /\ turns'[Len(turns) + 1] = i
  OBVIOUS
<1>2. \A m \in 1..(Len(turns) + 1) : m \in 1..Len(turns) \/ m = Len(turns) + 1
  BY <1>1
<1>3. Len(turns) + 1 \in 1..(Len(turns) + 1) /\ 1..Len(turns) \subseteq 1..(Len(turns) + 1)
  BY <1>1
<1>4. ASSUME NEW j PROVE Began(j)' <=> Began(j) \/ j = i
  BY <1>1, <1>2, <1>3 DEF Began
<1> QED BY <1>1, <1>4

LEMMA BeganStays ==
    ASSUME HandoffInv, [InboxNext]_inboxVars, NEW i, Began(i)
    PROVE  Began(i)'
<1>1. EveStep /\ turns \in Seq(Slots) /\ mailbox \in Seq(Copy)
  BY EveSteps DEF HandoffInv, InboxTypeOK
<1>2. CASE turns' = turns
  BY <1>2 DEF Began
<1>3. CASE BeginsTurn /\ turns' = Append(turns, Head(mailbox).slot)
  <2>1. Head(mailbox).slot \in Slots
    BY <1>1, <1>3, MailboxTail DEF HandoffInv, TurnOK, BeginsTurn, Copy
  <2> QED BY <1>1, <1>3, <2>1, AppendedTurn
<1> QED BY <1>1, <1>2, <1>3, TurnSteps

\* The message at the head of a session that wrote its receipt began no turn.
LEMMA HeadIsNew ==
    ASSUME HandoffInv, alive,
           \/ begun
           \/ /\ mailbox # <<>> /\ Head(mailbox).slot \notin consumed
              /\ receipt[Head(mailbox).slot] \in
                    {NoReceipt, [session |-> session, content |-> Head(mailbox).content]}
    PROVE  ~Began(Head(mailbox).slot)
<1> DEFINE i == Head(mailbox).slot
           mine == [session |-> session, content |-> Head(mailbox).content]
<1>1. /\ mailbox # <<>> /\ i \notin consumed /\ receipt[i] \in {NoReceipt, mine}
  BY DEF HandoffInv, TurnOK
<1>2. i \in Slots
  BY <1>1, MailboxTail DEF HandoffInv, InboxTypeOK, Copy
<1>3. mine.session = session
  OBVIOUS
<1> HIDE DEF mine
<1> QED BY <1>1, <1>2, <1>3 DEF HandoffInv, TurnOK

LEMMA TurnKept ==
    ASSUME HandoffInv, [InboxNext]_inboxVars
    PROVE  TurnOK'
<1>1. /\ EveStep /\ TurnOK /\ EveTypeOK
  BY EveSteps DEF HandoffInv, InboxTypeOK, EveTypeOK
<1>2. /\ session \in Nat /\ \A i \in Slots : receipt[i].session \in Nat
  BY <1>1, HandoffAssumption DEF EveTypeOK
<1>3. CASE UNCHANGED eveVars
  BY <1>1, <1>3 DEF TurnOK, Began, eveVars
<1>4. ASSUME NEW copy \in Copy, Arrives(copy) PROVE TurnOK'
  <2>1. CASE alive
    <3>1. mailbox # <<>> => /\ Append(mailbox, copy) # <<>>
                            /\ Head(Append(mailbox, copy)) = Head(mailbox)
      BY <1>1 DEF EveTypeOK
    <3>2. mailbox' = Append(mailbox, copy)
      BY <1>4, <2>1 DEF Arrives
    <3>3. UNCHANGED <<session, alive, consumed, receipt, begun, turns>>
      BY <1>4, <2>1 DEF Arrives
    <3>4. \A i : Began(i)' <=> Began(i)
      BY <3>3 DEF Began
    <3> QED BY <1>1, <3>1, <3>2, <3>3, <3>4 DEF TurnOK
  <2>2. CASE ~alive
    <3>1. /\ UNCHANGED <<receipt, begun, turns>> /\ ~begun
          /\ session' = session + 1 /\ alive' /\ consumed' = {}
      BY <1>1, <1>4, <2>2 DEF Arrives, TurnOK
    <3>2. \A i \in Slots : receipt[i].session < session'
      BY <1>1, <1>2, <3>1 DEF TurnOK
    <3>3. \A i : Began(i)' <=> Began(i)
      BY <3>1 DEF Began
    <3>4. session' > 0 /\ \A i \in Slots : /\ receipt[i].session <= session'
                                            /\ receipt[i].session # session'
      BY <1>2, <3>1, <3>2
    <3> QED BY <1>1, <3>1, <3>3, <3>4 DEF TurnOK
  <2> QED BY <2>1, <2>2
<1>5. CASE DropsCopy \/ EveReplays
  <2>1. UNCHANGED <<receipt, session, alive, consumed, turns>> /\ ~begun'
    BY <1>5 DEF DropsCopy, EveReplays
  <2>2. \A i : Began(i)' <=> Began(i)
    BY <2>1 DEF Began
  <2> QED BY <1>1, <2>1, <2>2 DEF TurnOK
<1>6. CASE SessionEnds
  <2>1. UNCHANGED <<receipt, session, turns>> /\ ~alive' /\ ~begun' /\ consumed' = {}
    BY <1>6 DEF SessionEnds
  <2>2. \A i : Began(i)' <=> Began(i)
    BY <2>1 DEF Began
  <2> QED BY <1>1, <2>1, <2>2 DEF TurnOK
<1>7. CASE RecordsReceipt
  <2> DEFINE k == Head(mailbox).slot
             mine == [session |-> session, content |-> Head(mailbox).content]
  <2>1. /\ UNCHANGED <<session, alive, mailbox, consumed, turns>> /\ alive
        /\ mailbox # <<>> /\ k \notin consumed
        /\ receipt' = [receipt EXCEPT ![k] = mine]
        /\ receipt[k] \in {NoReceipt, mine}
    BY <1>7 DEF RecordsReceipt
  <2>2. k \in Slots /\ ~Began(k)
    BY <1>1, <2>1, HeadIsNew, MailboxTail DEF EveTypeOK, Copy
  <2>3. mine.session = session
    OBVIOUS
  <2>4. receipt'[k] = mine /\ \A i \in Slots : i # k => receipt'[i] = receipt[i]
    BY <1>1, <2>1, <2>2 DEF EveTypeOK
  <2>5. \A i : Began(i)' <=> Began(i)
    BY <2>1 DEF Began
  <2>6. \A i \in Slots : receipt'[i].session <= session
    BY <1>1, <1>2, <2>3, <2>4 DEF TurnOK
  <2>7. receipt'[Head(mailbox').slot] =
           [session |-> session', content |-> Head(mailbox').content]
    BY <2>1, <2>4
  <2>8. \A i \in Slots : Began(i) =>
          /\ receipt'[i] # NoReceipt
          /\ alive /\ receipt'[i].session = session => i \in consumed
    BY <1>1, <2>2, <2>4 DEF TurnOK
  <2> HIDE DEF mine, k
  <2>9. k = Head(mailbox').slot
    BY <2>1 DEF k
  <2> QED BY <1>1, <2>1, <2>5, <2>6, <2>7, <2>8, <2>9 DEF TurnOK
<1>8. CASE BeginsTurn
  <2> DEFINE k == Head(mailbox).slot
  <2>1. /\ alive /\ begun /\ mailbox # <<>>
        /\ receipt[k] = [session |-> session, content |-> Head(mailbox).content]
    BY <1>1, <1>8 DEF BeginsTurn, TurnOK
  <2>2. k \in Slots /\ receipt[k].session > 0
    BY <1>1, <2>1, MailboxTail DEF EveTypeOK, Copy, TurnOK
  <2>3. receipt[k] # NoReceipt
    BY <2>2 DEF NoReceipt
  <2>4. /\ UNCHANGED <<receipt, session, alive>> /\ ~begun'
        /\ consumed' = consumed \cup {k} /\ turns' = Append(turns, k)
    BY <1>8 DEF BeginsTurn
  <2>5. \A i : Began(i)' <=> Began(i) \/ i = k
    BY <1>1, <2>2, <2>4, AppendedTurn DEF EveTypeOK
  <2> HIDE DEF k
  <2> QED BY <1>1, <2>2, <2>3, <2>4, <2>5 DEF TurnOK
<1> QED BY <1>1, <1>3, <1>4, <1>5, <1>6, <1>7, <1>8 DEF EveStep, SessionStep

\* A turn begins for a message that is behind no message that began one later:
\* that one was prepared, so this one was settled by its turn.
LEMMA OrderKept ==
    ASSUME HandoffInv, [InboxNext]_inboxVars
    PROVE  TurnsFollowInbox'
<1> DEFINE k == Head(mailbox).slot
<1>1. EveStep /\ EveTypeOK
  BY EveSteps DEF HandoffInv, InboxTypeOK, EveTypeOK
<1>2. CASE turns' = turns
  BY <1>2 DEF HandoffInv, TurnsFollowInbox
<1>3. CASE BeginsTurn /\ turns' = Append(turns, k)
  <2>1. alive /\ begun /\ mailbox # <<>>
    BY <1>3 DEF BeginsTurn, HandoffInv, TurnOK
  <2>2. k \in Slots /\ ~Began(k) /\ Fixed(k, Head(mailbox).content)
    BY <1>1, <2>1, HeadIsNew, MailboxTail DEF EveTypeOK, Copy, HandoffInv, Agree
  <2>3. ~Settled(rows[k])
    BY <2>2 DEF HandoffInv, Outcome, Settled, Fixed
  <2>4. ASSUME NEW m \in 1..Len(turns) PROVE turns[m] < k
    <3>1. turns[m] \in Slots /\ Began(turns[m])
      BY <1>1, <2>4 DEF EveTypeOK, Began
    <3>2. rows[turns[m]].native # "none"
      BY <3>1 DEF HandoffInv, TurnOK, Agree, Fixed
    <3>3. ~(k < turns[m])
      BY <2>2, <2>3, <3>1, <3>2 DEF HandoffInv, Outcome
    <3> QED BY <2>2, <3>1, <3>3, SlotsAreNumbers
  <2>5. /\ Len(turns) \in Nat /\ Len(turns') = Len(turns) + 1
        /\ \A m \in 1..Len(turns) : turns'[m] = turns[m]
        /\ turns'[Len(turns) + 1] = k
    BY <1>1, <1>3, <2>2, AppendedTurn DEF EveTypeOK
  <2>6. ASSUME NEW m \in 1..Len(turns'), NEW n \in 1..Len(turns'), m < n
        PROVE  turns'[m] < turns'[n]
    <3>1. m \in 1..Len(turns) /\ (n \in 1..Len(turns) \/ n = Len(turns) + 1)
      BY <2>5, <2>6
    <3> QED BY <2>4, <2>5, <2>6, <3>1 DEF HandoffInv, TurnsFollowInbox
  <2> QED BY <2>6 DEF TurnsFollowInbox
<1> QED BY <1>1, <1>2, <1>3, TurnSteps DEF EveTypeOK

LEMMA OutcomeKept ==
    ASSUME HandoffInv, [InboxNext]_inboxVars
    PROVE  Outcome'
<1>1. /\ QueueInv /\ HandoffOK /\ QueueInv' /\ [QueueNext]_queueVars
  BY HandingKept DEF HandoffInv, Handing
<1>2. ASSUME NEW h \in Handoffs, At(h, "found")' PROVE Began(handoff[h].slot)'
  <2>1. Moved(h) /\ handoff'[h].phase = "found"
    BY <1>1, <1>2, HandoffMoves DEF At
  <2>2. handoff'[h].slot = handoff[h].slot /\ Began(handoff[h].slot)
    BY <2>1 DEF Moved, Carrying, Accepted, HandoffInv, Outcome, TurnOK, At
  <2> DEFINE i == handoff[h].slot
  <2>3. Began(i)
    BY <2>2
  <2> HIDE DEF i
  <2>4. \E m \in 1..Len(turns') : turns'[m] = i
    BY <2>3, BeganStays DEF Began
  <2> QED BY <2>2, <2>4 DEF Began, i
<1>3. ASSUME NEW i \in Slots
      PROVE  /\ rows'[i].status = "done" => Began(i)'
             /\ rows'[i].status = "failed" => rows'[i].native # "prepared"
             /\ rows'[i].status # "cancelled"
  <2>1. RowOfStep(i)
    BY <1>1, RowsStep
  <2>2. Began(i) => Began(i)'
    BY BeganStays
  <2> QED BY <2>1, <2>2 DEF RowOfStep, HandoffInv, Outcome
<1>4. ASSUME NEW i \in Slots, rows'[i].native # "none", NEW j \in Slots, j < i
      PROVE  Settled(rows'[j])
  <2>1. CASE rows[i].native = "none"
    <3>1. rows'[i].status = "dispatching"
      BY <1>1, <1>4, <2>1, RowsStep DEF RowOfStep
    <3> QED BY <1>1, <1>4, <3>1 DEF QueueInv, HandedInOrder
  <2>2. CASE rows[i].native # "none"
    <3>1. Settled(rows[j])
      BY <1>4, <2>2 DEF HandoffInv, Outcome
    <3>2. rows'[j].status = rows[j].status
      BY <1>1, <3>1, StepChanges DEF RowChange, LetGo, GivenOut, Readied, Timed
    <3> QED BY <3>1, <3>2 DEF Settled
  <2> QED BY <2>1, <2>2
<1>5. ASSUME NEW i \in Slots, rows'[i].native = "prepared"
      PROVE  rows'[i].content \in Contents
  <2>1. CASE rows[i].native = "prepared"
    BY <1>1, <2>1, FixedStays DEF HandoffInv, Outcome, Fixed
  <2>2. CASE rows[i].native # "prepared"
    BY <1>1, <1>5, <2>2, RowsStep DEF RowOfStep
  <2> QED BY <2>1, <2>2
<1> QED BY <1>2, <1>3, <1>4, <1>5 DEF Outcome

LEMMA HandoffInvHolds == InboxInit => HandoffInv
<1> SUFFICES ASSUME InboxInit PROVE HandoffInv
  OBVIOUS
<1>1. Handing /\ (\A i \in Slots : rows[i] = AbsentRow)
  BY HandoffsStart DEF Handing, InboxInit, QueueInit
<1>2. /\ \A h \in Handoffs : /\ handoff[h].phase = "idle" /\ handoff[h].content = None
      /\ lock = None /\ stray = {} /\ mailbox = <<>> /\ turns = <<>>
      /\ session = 0 /\ ~alive /\ ~begun /\ consumed = {}
      /\ receipt = [i \in Slots |-> NoReceipt]
      /\ alive \in BOOLEAN /\ begun \in BOOLEAN
  BY DEF InboxInit, IdleHandoff
<1>3. NoReceipt \in [session: Nat, content: Contents \cup {None}] /\ NoReceipt.session = 0
  BY DEF NoReceipt
<1>4. EveTypeOK
  BY <1>2, <1>3, HandoffAssumption DEF EveTypeOK
<1>5. InboxTypeOK
  BY <1>1, <1>2, <1>4 DEF InboxTypeOK, EveTypeOK, Handing, QueueInv, HandoffOK
<1>6. \A i : ~Began(i)
  BY <1>2 DEF Began
<1>7. TurnOK
  BY <1>2, <1>3, <1>6 DEF TurnOK
<1>8. Agree
  BY <1>2 DEF Agree, Carrying
<1>9. Outcome
  BY <1>1, <1>2 DEF Outcome, AbsentRow, At
<1>10. TurnsFollowInbox
  BY <1>2 DEF TurnsFollowInbox
<1> QED BY <1>1, <1>5, <1>7, <1>8, <1>9, <1>10 DEF HandoffInv

LEMMA HandoffInvariance == InboxSafety => []HandoffInv
<1>1. HandoffInv /\ [InboxNext]_inboxVars => HandoffInv'
  BY HandingKept, TypeKept, AgreeKept, TurnKept, OutcomeKept, OrderKept DEF HandoffInv
<1> QED BY <1>1, HandoffInvHolds, PTL DEF InboxSafety

-----------------------------------------------------------------------------
(***************************************************************************)
(* What the identity's owner may rely on.                                  *)
(***************************************************************************)

\* Every variable of the handoffs and of the session keeps its type.
THEOREM InboxTyped == InboxSafety => []InboxTypeOK
BY HandoffInvariance, PTL DEF HandoffInv

\* Whatever carries a message, a copy, a receipt, a late send or a handoff,
\* carries what it was first prepared as.
THEOREM HandoffsAgree == InboxSafety => []NoConflictingReplay
<1>1. HandoffInv => NoConflictingReplay
  <2> SUFFICES ASSUME HandoffInv, NEW i \in Slots
               PROVE  /\ receipt[i].content \in {None, rows[i].content}
                      /\ \A m \in 1..Len(mailbox) : mailbox[m].slot = i =>
                            mailbox[m].content = rows[i].content
                      /\ \A late \in stray : late.copy.slot = i =>
                            late.copy.content = rows[i].content
                      /\ \A h \in Handoffs :
                            handoff[h].slot = i /\ handoff[h].content # None =>
                               handoff[h].content = rows[i].content
    BY DEF NoConflictingReplay
  <2>1. receipt[i].content \in {None, rows[i].content}
    BY DEF HandoffInv, Agree, Fixed, NoReceipt
  <2> QED BY <2>1 DEF HandoffInv, Agree, Fixed
<1> QED BY <1>1, HandoffInvariance, PTL

\* However often a message is handed off, sent late or replayed, and whichever
\* session is at its address, it begins one turn, in the order of the inbox.
THEOREM TurnsInOrder == InboxSafety => []TurnsFollowInbox
BY HandoffInvariance, PTL DEF HandoffInv

\* A message the inbox calls accepted was read, in a turn of the session its
\* receipt names, as it was first prepared.
THEOREM AcceptedIsConsumed == InboxSafety => []AcceptedWasConsumed
<1>1. HandoffInv => AcceptedWasConsumed
  <2> SUFFICES ASSUME HandoffInv, NEW i \in Slots, rows[i].status = "done"
               PROVE  Began(i) /\ receipt[i].content = rows[i].content
    BY DEF AcceptedWasConsumed, Began
  <2>1. Began(i)
    BY DEF HandoffInv, Outcome
  <2> QED BY <2>1 DEF HandoffInv, TurnOK, Agree, Fixed
<1> QED BY <1>1, HandoffInvariance, PTL
=============================================================================
