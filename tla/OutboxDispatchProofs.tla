------------------------- MODULE OutboxDispatchProofs -------------------------
(***************************************************************************)
(* Proofs about OutboxDispatch, for any number of messages, drains and     *)
(* lease tokens and any faults: the drains use the queue as it allows, and *)
(* so its theorems hold here; every request that may reach the provider is *)
(* authorized; and the outbox keeps the promise of MessagePromise.         *)
(***************************************************************************)
EXTENDS OutboxDispatch, MessageQueueProofs, FiniteSetTheorems

LeaseOf(d) == [slot |-> drain[d].slot, token |-> drain[d].token]
Idle(d) == drain[d].phase = "idle"

\* A drain that is under way has a lease of its own.
DrainOK ==
    /\ drain \in [Drains -> Drain]
    /\ \A d \in Drains : Idle(d) => drain[d].slot = 0
    /\ \A d \in Drains : ~Idle(d) =>
          /\ drain[d].slot \in Slots /\ drain[d].token \in Tokens
          /\ LeaseOf(d) \in held
    /\ \A d, e \in Drains : d # e /\ ~Idle(d) /\ ~Idle(e)
          => drain[d].token # drain[e].token

Phases == {"idle", "claimed", "valid", "sending", "over"} \cup Answers

-----------------------------------------------------------------------------
(***************************************************************************)
(* The drains and their leases.                                            *)
(***************************************************************************)
LEMMA GoesOn ==
    ASSUME DrainOK, NEW d \in Drains, ~Idle(d), NEW phase \in Phases, phase # "idle",
           Goes(d, phase), held' = held
    PROVE  /\ DrainOK'
           /\ drain'[d].phase = phase
           /\ drain'[d].slot = drain[d].slot /\ drain'[d].token = drain[d].token
           /\ \A e \in Drains : e # d => drain'[e] = drain[e]
<1>1. drain[d] \in Drain
  BY DEF DrainOK
<1>2. /\ [drain[d] EXCEPT !.phase = phase] \in Drain
      /\ [drain[d] EXCEPT !.phase = phase].phase = phase
      /\ [drain[d] EXCEPT !.phase = phase].slot = drain[d].slot
      /\ [drain[d] EXCEPT !.phase = phase].token = drain[d].token
  BY <1>1 DEF Drain, Phases
<1>3. /\ drain' \in [Drains -> Drain]
      /\ drain'[d] = [drain[d] EXCEPT !.phase = phase]
      /\ \A e \in Drains : e # d => drain'[e] = drain[e]
  BY <1>2 DEF Goes, DrainOK
<1>4. \A e \in Drains : /\ drain'[e].slot = drain[e].slot
                        /\ drain'[e].token = drain[e].token
                        /\ Idle(e)' <=> Idle(e)
  BY <1>2, <1>3 DEF Idle
<1>5. DrainOK'
  BY <1>3, <1>4 DEF DrainOK, LeaseOf
<1> QED BY <1>2, <1>3, <1>5

LEMMA GoesWhere ==
    ASSUME DrainOK, NEW d \in Drains, NEW phase, Goes(d, phase)
    PROVE  drain'[d].phase = phase
<1>1. drain'[d] = [drain[d] EXCEPT !.phase = phase] /\ drain[d] \in Drain
  BY DEF Goes, DrainOK
<1> QED BY <1>1 DEF Drain

LEMMA GoesIdle ==
    ASSUME DrainOK, NEW d \in Drains, ~Idle(d), Leaves(d)
    PROVE  /\ DrainOK'
           /\ drain'[d] = IdleDrain
           /\ \A e \in Drains : e # d => drain'[e] = drain[e]
           /\ rows' = rows /\ active' = active
           /\ LeaseOf(d) \in held /\ Forget(LeaseOf(d))
<1>1. /\ drain' = [drain EXCEPT ![d] = IdleDrain] /\ Forget(LeaseOf(d))
      /\ held' = held \ {LeaseOf(d)} /\ LeaseOf(d) \in held
      /\ rows' = rows /\ active' = active
  BY DEF Leaves, Forget, LeaseOf
<1>2. IdleDrain \in Drain /\ IdleDrain.phase = "idle" /\ IdleDrain.slot = 0
  BY DEF IdleDrain, Drain
<1>3. /\ drain' \in [Drains -> Drain] /\ drain'[d] = IdleDrain
      /\ \A e \in Drains : e # d => drain'[e] = drain[e]
  BY <1>1, <1>2 DEF DrainOK
<1>4. ASSUME NEW e \in Drains, ~Idle(e)'
      PROVE  e # d /\ ~Idle(e) /\ LeaseOf(e)' = LeaseOf(e) /\ LeaseOf(e)' \in held'
  <2>1. e # d /\ ~Idle(e) /\ drain'[e] = drain[e]
    BY <1>2, <1>3, <1>4 DEF Idle
  <2>2. LeaseOf(e)' = LeaseOf(e)
    BY <2>1 DEF LeaseOf
  <2>3. LeaseOf(e) \in held /\ LeaseOf(e).token # LeaseOf(d).token
    BY <2>1 DEF DrainOK, LeaseOf
  <2> QED BY <2>1, <2>2, <2>3, <1>1
<1>5. DrainOK'
  BY <1>2, <1>3, <1>4 DEF DrainOK, Idle
<1> QED BY <1>1, <1>3, <1>5

ClaimedDrain(i, t) == [phase |-> "claimed", slot |-> i, token |-> t]

LEMMA Claims ==
    ASSUME DrainOK, NEW d \in Drains, Idle(d), NEW i \in Slots, NEW t \in Tokens,
           Claim(i, t),
           drain' = [drain EXCEPT ![d] = ClaimedDrain(i, t)]
    PROVE  /\ DrainOK'
           /\ drain'[d] = ClaimedDrain(i, t)
           /\ \A e \in Drains : e # d => drain'[e] = drain[e]
           /\ \A e \in Drains : ~Idle(e) => drain[e].token # t
<1> DEFINE new == ClaimedDrain(i, t)
<1>1. new \in Drain /\ new.phase = "claimed" /\ new.slot = i /\ new.token = t
  BY DEF Drain, ClaimedDrain
<1>2. /\ drain' \in [Drains -> Drain] /\ drain'[d] = new
      /\ \A e \in Drains : e # d => drain'[e] = drain[e]
  BY <1>1 DEF DrainOK
<1>3. /\ held' = held \cup {[slot |-> i, token |-> t]}
      /\ \A lease \in held : lease.token # t
  BY DEF Claim, FreshToken
<1>4. \A e \in Drains : ~Idle(e) => drain[e].token # t
  BY <1>3 DEF DrainOK, LeaseOf
<1>5. LeaseOf(d)' = [slot |-> i, token |-> t]
  BY <1>1, <1>2 DEF LeaseOf
<1>6. \A e \in Drains : e # d => (Idle(e)' <=> Idle(e)) /\ LeaseOf(e)' = LeaseOf(e)
  BY <1>2 DEF Idle, LeaseOf
<1>7. ~Idle(d)'
  BY <1>1, <1>2 DEF Idle
<1> HIDE DEF new
<1>8. DrainOK'
  <2>1. \A e \in Drains : Idle(e)' => drain'[e].slot = 0
    BY <1>2, <1>6, <1>7 DEF DrainOK
  <2>2. ASSUME NEW e \in Drains, ~Idle(e)'
        PROVE  /\ drain'[e].slot \in Slots /\ drain'[e].token \in Tokens
               /\ LeaseOf(e)' \in held'
    <3>1. CASE e = d
      BY <3>1, <1>1, <1>2, <1>3, <1>5
    <3>2. CASE e # d
      BY <3>2, <2>2, <1>2, <1>3, <1>6 DEF DrainOK
    <3> QED BY <3>1, <3>2
  <2>3. ASSUME NEW e \in Drains, NEW f \in Drains, e # f, ~Idle(e)', ~Idle(f)'
        PROVE  drain'[e].token # drain'[f].token
    <3>1. CASE e = d
      BY <3>1, <2>3, <1>1, <1>2, <1>4, <1>6
    <3>2. CASE f = d
      BY <3>2, <2>3, <1>1, <1>2, <1>4, <1>6
    <3>3. CASE e # d /\ f # d
      BY <3>3, <2>3, <1>2, <1>6 DEF DrainOK
    <3> QED BY <3>1, <3>2, <3>3
  <2> QED BY <1>2, <2>1, <2>2, <2>3 DEF DrainOK
<1> QED BY <1>2, <1>4, <1>8 DEF new

LEMMA SameDrains == DrainOK /\ drain' = drain /\ held' = held => DrainOK'
BY DEF DrainOK, Idle, LeaseOf

LEMMA RecordsCall ==
    ASSUME DrainOK, NEW d \in Drains, Records(d)
    PROVE  /\ ~Idle(d) /\ Goes(d, "over") /\ held' = held
           /\ QueueNext \/ UNCHANGED queueVars
<1>1. ~Idle(d) /\ Goes(d, "over") /\ drain[d].phase \in Answers
  BY DEF Records, Idle, Answers
<1> DEFINE i == drain[d].slot
           t == drain[d].token
<1>2. /\ i \in Slots /\ t \in Tokens /\ LeaseOf(d) \in held
      /\ LeaseOf(d).slot = i /\ LeaseOf(d).token = t
  BY <1>1 DEF DrainOK, LeaseOf
<1>3. \/ Complete(i, t) \/ Stop(i, t, "failed") \/ Stop(i, t, "uncertain")
      \/ ScheduleRetry(i, t) \/ UNCHANGED queueVars
  BY DEF Records, QueueUnchanged
<1>4. CASE UNCHANGED queueVars
  BY <1>1, <1>4 DEF queueVars
<1>5. CASE \/ Complete(i, t) \/ Stop(i, t, "failed") \/ Stop(i, t, "uncertain")
           \/ ScheduleRetry(i, t)
  <2>1. LeaseCall(i, t)
    BY <1>5 DEF LeaseCall
  <2>2. LeaseCall(LeaseOf(d).slot, LeaseOf(d).token)
    BY <1>2, <2>1
  <2>3. QueueNext
    BY <1>2, <2>2 DEF QueueNext
  <2>4. held' = held
    BY <1>5 DEF Complete, Stop, ScheduleRetry, End, Only
  <2> QED BY <1>1, <2>3, <2>4
<1> QED BY <1>3, <1>4, <1>5

\* The steps of a drain that leave the queue alone, with where they lead.
LEMMA QuietStep ==
    ASSUME NEW d \in Drains,
           Validates(d) \/ Starts(d) \/ Answered(d)
    PROVE  /\ ~Idle(d) /\ UNCHANGED queueVars
           /\ \E phase \in Phases \ {"idle"} : Goes(d, phase)
BY DEF Validates, Starts, Answered, Confirms, Refuses, LosesAnswer, Abandons,
       At, Idle, QueueUnchanged, Phases, Answers

LEMMA DrainsFollow ==
    ASSUME DrainOK, [OutboxNext]_outboxVars
    PROVE  DrainOK' /\ [QueueNext]_queueVars
<1>1. ASSUME NEW d \in Drains, DrainClaims(d) PROVE DrainOK' /\ QueueNext
  <2>1. Idle(d)
    BY <1>1 DEF DrainClaims, At, Idle
  <2>2. CASE \E i \in Slots, t \in Tokens :
             /\ Claim(i, t)
             /\ drain' = [drain EXCEPT ![d] = ClaimedDrain(i, t)]
    BY <2>1, <2>2, Claims DEF QueueNext
  <2>3. CASE ClaimNothing /\ UNCHANGED drain
    BY <2>3, SameDrains DEF ClaimNothing, QueueNext
  <2> QED BY <1>1, <2>2, <2>3 DEF DrainClaims, ClaimedDrain
<1>2. ASSUME NEW d \in Drains, Validates(d) \/ Starts(d) \/ Answered(d)
      PROVE  DrainOK' /\ UNCHANGED queueVars
  BY <1>2, QuietStep, GoesOn DEF queueVars
<1>3. ASSUME NEW d \in Drains, Records(d) PROVE DrainOK' /\ [QueueNext]_queueVars
  <2>1. ~Idle(d) /\ Goes(d, "over") /\ held' = held /\ [QueueNext]_queueVars
    BY <1>3, RecordsCall
  <2>2. "over" \in Phases /\ "over" # "idle"
    BY DEF Phases
  <2> QED BY <2>1, <2>2, GoesOn
<1>4. ASSUME NEW d \in Drains, DrainEnds(d) \/ DrainCrash(d) PROVE DrainOK' /\ QueueNext
  <2>1. ~Idle(d) /\ Leaves(d)
    BY <1>4 DEF DrainEnds, DrainCrash, At, Idle
  <2>2. DrainOK' /\ LeaseOf(d) \in held /\ Forget(LeaseOf(d))
    BY <2>1, GoesIdle
  <2> QED BY <2>2 DEF QueueNext
<1>5. ASSUME NEW i \in Slots, LateRequest(i) PROVE DrainOK' /\ UNCHANGED queueVars
  BY <1>5, SameDrains DEF LateRequest, QueueUnchanged, queueVars
<1>6. ASSUME NEW i \in Slots, Insert(i) \/ Resolve(i) \/ TimeComes(i), UNCHANGED dispatchVars
      PROVE  DrainOK' /\ QueueNext
  BY <1>6, SameDrains DEF dispatchVars, QueueNext, Insert, Resolve, MarkDelivered, Cancel,
                          AuthorizeRetry, TimeComes, Only
<1>7. CASE Revoke /\ UNCHANGED dispatchVars
  BY <1>7, SameDrains DEF dispatchVars, QueueNext, Revoke
<1>8. CASE UNCHANGED outboxVars
  BY <1>8, SameDrains DEF outboxVars, queueVars
<1> QED BY <1>1, <1>2, <1>3, <1>4, <1>5, <1>6, <1>7, <1>8 DEF OutboxNext, DrainStep

LEMMA DrainsStart == OutboxInit => QueueInit /\ DrainOK
BY DEF OutboxInit, DrainOK, IdleDrain, Drain, Idle

\* Whatever the drains, the provider and the crashes do, the queue sees nothing
\* but calls it allows, each under a lease that its caller was given.
THEOREM DrainsUseTheQueue == OutboxSafety => FollowsQueue
<1>1. OutboxInit => QueueInit /\ DrainOK
  BY DrainsStart
<1>2. DrainOK /\ [OutboxNext]_outboxVars => DrainOK' /\ [QueueNext]_queueVars
  BY DrainsFollow
<1> QED BY <1>1, <1>2, PTL DEF OutboxSafety, FollowsQueue, QueueSpec

\* So a superseded drain can record nothing, and the messages are handed out one
\* at a time in their order, among any number of drains.
THEOREM OutboxKeepsQueueInv == OutboxSafety => []QueueInv
BY DrainsUseTheQueue, QueueInvariance, PTL DEF FollowsQueue

THEOREM OutboxSupersedes == OutboxSafety => LostLeaseStaysLost
BY DrainsUseTheQueue, SupersededForGood DEF FollowsQueue

-----------------------------------------------------------------------------
(***************************************************************************)
(* The budget of requests.                                                 *)
(***************************************************************************)
Moving(i) == Cardinality(Movers(i))

ProviderOK == late \in [Slots -> Nat] /\ copies \in [Slots -> Nat]

LEMMA MovingTyped ==
    ASSUME NEW i \in Slots
    PROVE  /\ IsFiniteSet(Movers(i)) /\ Moving(i) \in Nat
           /\ IsFiniteSet(Movers(i)') /\ Moving(i)' \in Nat
<1>1. Movers(i) \in SUBSET Drains /\ Movers(i)' \in SUBSET Drains
  BY DEF Movers
<1>2. IsFiniteSet(Movers(i)) /\ IsFiniteSet(Movers(i)')
  BY <1>1, FS_Subset, DrainsAssumption
<1> QED BY <1>2, FS_CardinalityType DEF Moving

LEMMA PossibleIs ==
    ASSUME NEW i \in Slots
    PROVE  /\ Possible(i) = copies[i] + late[i] + Moving(i)
           /\ Possible(i)' = copies'[i] + late'[i] + Moving(i)'
BY DEF Possible, Moving

\* One drain moves: the movers of a message gain it, lose it or stay.
LEMMA OneMoves ==
    ASSUME NEW d \in Drains, \A e \in Drains : e # d => drain'[e] = drain[e],
           NEW i \in Slots
    PROVE  /\ (d \in Movers(i) <=> d \in Movers(i)') => Moving(i)' = Moving(i)
           /\ d \in Movers(i) /\ d \notin Movers(i)' => Moving(i)' = Moving(i) - 1
           /\ d \notin Movers(i) /\ d \in Movers(i)' => Moving(i)' = Moving(i) + 1
<1>1. \A e \in Drains : e # d => (e \in Movers(i) <=> e \in Movers(i)')
  BY DEF Movers
<1>2. Movers(i) \subseteq Drains /\ Movers(i)' \subseteq Drains
  BY DEF Movers
<1>3. IsFiniteSet(Movers(i))
  BY MovingTyped
<1>4. CASE d \in Movers(i) <=> d \in Movers(i)'
  <2>1. Movers(i)' = Movers(i)
    BY <1>1, <1>2, <1>4
  <2> QED BY <1>4, <2>1 DEF Moving
<1>5. CASE d \in Movers(i) /\ d \notin Movers(i)'
  <2>1. Movers(i)' = Movers(i) \ {d}
    BY <1>1, <1>2, <1>5
  <2> QED BY <1>3, <1>5, <2>1, FS_RemoveElement DEF Moving
<1>6. CASE d \notin Movers(i) /\ d \in Movers(i)'
  <2>1. Movers(i)' = Movers(i) \cup {d}
    BY <1>1, <1>2, <1>6
  <2> QED BY <1>3, <1>6, <2>1, FS_AddElement DEF Moving
<1> QED BY <1>4, <1>5, <1>6

LEMMA NoneMoves == ASSUME drain' = drain, NEW i \in Slots PROVE Moving(i)' = Moving(i)
BY DEF Moving, Movers

\* What a step may do to the budget of a message.
Covered(i) ==
    \/ /\ Possible(i)' <= Possible(i)
       /\ rows'[i].authorized = rows[i].authorized
       /\ Spares(i)' => Spares(i)
    \/ /\ Possible(i)' + 1 <= Possible(i)
       /\ rows'[i].authorized = rows[i].authorized
    \/ /\ Possible(i)' <= Possible(i)
       /\ rows'[i].authorized = rows[i].authorized + 1
    \/ /\ Possible(i)' = Possible(i) + 1
       /\ rows'[i].authorized = rows[i].authorized
       /\ Spares(i) /\ ~Spares(i)'
       /\ rows'[i].status = "dispatching"

LEMMA CoveredSuffices ==
    ASSUME QueueInv, QueueInv', ProviderOK, ProviderOK', RequestsAreAuthorized,
           \A i \in Slots : Covered(i)
    PROVE  RequestsAreAuthorized'
<1> SUFFICES ASSUME NEW i \in Slots
             PROVE  Possible(i)' <= rows'[i].authorized + (IF Spares(i)' THEN 0 ELSE 1)
  BY DEF RequestsAreAuthorized
<1>1. rows[i].authorized \in Nat /\ rows'[i].authorized \in Nat
  BY DEF QueueInv, QueueTypeOK, Row
<1>2. Possible(i) \in Nat /\ Possible(i)' \in Nat
  BY MovingTyped, PossibleIs DEF ProviderOK
<1>3. Possible(i) <= rows[i].authorized + (IF Spares(i) THEN 0 ELSE 1)
  BY DEF RequestsAreAuthorized
<1>4. Covered(i)
  OBVIOUS
<1> QED BY <1>1, <1>2, <1>3, <1>4 DEF Covered

\* Nothing new spares a message whose row stays, if no drain is newly refused.
LEMMA SparesNoMore ==
    ASSUME NEW i \in Slots,
           rows'[i].status = rows[i].status, rows'[i].token = rows[i].token,
           \A e \in Drains : drain'[e].phase \in {"refused", "limited"} /\ drain'[e].slot = i
              => drain'[e] = drain[e]
    PROVE  Spares(i)' => Spares(i)
BY DEF Spares

LEMMA AgedBudget ==
    ASSUME QueueInv, NEW i \in Slots
    PROVE  \/ Aged[i] = rows[i]
           \/ /\ rows[i].status = "dispatching" /\ Aged[i].status = "uncertain"
              /\ Aged[i].token = None /\ Aged[i].authorized = rows[i].authorized
BY RowTyped DEF Aged, Lapsed, Row

\* A row that has no lease spares nothing by its drains.
LEMMA NoLeaseNoSpare ==
    ASSUME DrainOK', NEW i \in Slots, rows'[i].token = None,
           rows'[i].status \notin {"absent", "queued", "failed"}
    PROVE  ~Spares(i)'
BY NoneAssumption DEF Spares, DrainOK, Idle

LEMMA ClaimCovered ==
    ASSUME QueueInv, DrainOK, ProviderOK, NEW d \in Drains, DrainClaims(d), DrainOK',
           NEW i \in Slots
    PROVE  Covered(i)
<1>1. ProviderUnchanged /\ Idle(d)
  BY DEF DrainClaims, At, Idle
<1>2. copies' = copies /\ late' = late
  BY <1>1 DEF ProviderUnchanged
<1>3. ASSUME NEW k \in Slots, NEW t \in Tokens, Claim(k, t),
             drain' = [drain EXCEPT ![d] = ClaimedDrain(k, t)]
      PROVE  Covered(i)
  <2>1. /\ drain'[d] = ClaimedDrain(k, t)
        /\ \A e \in Drains : e # d => drain'[e] = drain[e]
        /\ \A e \in Drains : ~Idle(e) => drain[e].token # t
    BY <1>1, <1>3, Claims, ZenonT(60)
  <2>2. d \notin Movers(i) /\ (d \in Movers(i)' <=> i = k)
    BY <1>1, <2>1 DEF Movers, Idle, ClaimedDrain
  <2>3. Aged \in [Slots -> Row]
    BY QInvIsQueueInv, AgedRows DEF QInv
  <2>4. rows' = [Aged EXCEPT ![k] = Handed(Aged[k], t)]
    <3>1. [Aged EXCEPT ![k] = Handed(@, t)] = [Aged EXCEPT ![k] = Handed(Aged[k], t)]
      BY DEF Aged
    <3> QED BY <1>3, <3>1 DEF Claim
  <2>5. CASE i # k
    <3>1. rows'[i] = Aged[i] /\ Moving(i)' = Moving(i)
      BY <2>1, <2>2, <2>3, <2>4, <2>5, OneMoves
    <3>2. Possible(i)' = Possible(i) /\ Possible(i) \in Nat
      BY <1>2, <3>1, PossibleIs, MovingTyped DEF ProviderOK
    <3>3. Spares(i)' => Spares(i)
      <4>1. CASE Aged[i] = rows[i]
        BY <3>1, <4>1, <2>1, <2>5, SparesNoMore DEF ClaimedDrain
      <4>2. CASE Aged[i].status = "uncertain" /\ Aged[i].token = None
        BY <3>1, <4>2, NoLeaseNoSpare
      <4> QED BY <4>1, <4>2, AgedBudget
    <3> QED BY <3>1, <3>2, <3>3, AgedBudget DEF Covered
  <2>6. CASE i = k
    <3>1. rows'[i] = Handed(Aged[i], t) /\ Moving(i)' = Moving(i) + 1
      BY <2>1, <2>2, <2>3, <2>4, <2>6, OneMoves
    <3>2. Possible(i)' = Possible(i) + 1
      BY <1>2, <3>1, PossibleIs, MovingTyped DEF ProviderOK
    <3>3. Aged[i].status = "queued"
      BY <1>3, <2>6, OutboxAssumption DEF Claim, Claimable, Recoverable
    <3>4. rows[i].status = "queued" /\ Aged[i].authorized = rows[i].authorized
      BY <3>3, AgedBudget
    <3>5. /\ rows'[i].status = "dispatching" /\ rows'[i].token = t
          /\ rows'[i].authorized = rows[i].authorized
      BY <2>3, <3>1, <3>4 DEF Handed, Row
    <3>6. ~Spares(i)'
      <4>1. \A e \in Drains : drain'[e].phase \in {"refused", "limited"}
                                 => drain'[e].token # t
        BY <2>1 DEF Idle, ClaimedDrain
      <4> QED BY <3>5, <4>1 DEF Spares
    <3>7. Spares(i)
      BY <3>4 DEF Spares
    <3> QED BY <3>2, <3>5, <3>6, <3>7 DEF Covered
  <2> QED BY <2>5, <2>6
<1>4. CASE ClaimNothing /\ UNCHANGED drain
  <2>1. Moving(i)' = Moving(i)
    BY <1>4, NoneMoves
  <2>2. Possible(i)' = Possible(i) /\ Possible(i) \in Nat
    BY <1>2, <2>1, PossibleIs, MovingTyped DEF ProviderOK
  <2>3. \/ rows'[i] = Aged[i]
        \/ rows[i].status = "queued" /\ rows'[i] = [rows[i] EXCEPT !.status = "cancelled"]
    BY <1>4 DEF ClaimNothing
  <2>4. CASE rows'[i] = rows[i]
    BY <2>2, <2>4, <1>4, SparesNoMore DEF Covered
  <2>5. CASE /\ rows'[i].status = "uncertain" /\ rows'[i].token = None
             /\ rows'[i].authorized = rows[i].authorized
    BY <2>2, <2>5, NoLeaseNoSpare DEF Covered
  <2>6. CASE rows[i].status = "queued" /\ rows'[i] = [rows[i] EXCEPT !.status = "cancelled"]
    <3>1. rows'[i].authorized = rows[i].authorized
      BY <2>6, RowTyped DEF Row
    <3> QED BY <2>2, <2>6, <3>1 DEF Covered, Spares
  <2> QED BY <2>3, <2>4, <2>5, <2>6, AgedBudget
<1> QED BY <1>3, <1>4 DEF DrainClaims, ClaimedDrain

\* A message whose row stays is covered if the drain that moves is not newly
\* refused for it, or gives up a request.
LEMMA RowStaysCovered ==
    ASSUME ProviderOK, NEW i \in Slots, rows'[i] = rows[i],
           \/ /\ Possible(i)' <= Possible(i)
              /\ \A e \in Drains :
                    drain'[e].phase \in {"refused", "limited"} /\ drain'[e].slot = i
                       => drain'[e] = drain[e]
           \/ Possible(i)' + 1 <= Possible(i)
    PROVE  Covered(i)
BY SparesNoMore DEF Covered

LEMMA QuietCovered ==
    ASSUME DrainOK, ProviderOK, NEW d \in Drains,
           Validates(d) \/ Starts(d) \/ Answered(d),
           NEW i \in Slots
    PROVE  Covered(i)
<1>1. /\ ~Idle(d) /\ rows' = rows /\ held' = held
  BY QuietStep DEF queueVars
<1>2. PICK phase \in Phases \ {"idle"} : Goes(d, phase)
  BY QuietStep
<1>3. /\ drain'[d].phase = phase /\ drain'[d].slot = drain[d].slot
      /\ \A e \in Drains : e # d => drain'[e] = drain[e]
  BY <1>1, <1>2, GoesOn
<1>4. /\ copies[i] \in Nat /\ late[i] \in Nat
      /\ Moving(i) \in Nat /\ Moving(i)' \in Nat
  BY MovingTyped DEF ProviderOK
<1>5. CASE drain[d].slot # i
  <2>1. Moving(i)' = Moving(i)
    BY <1>3, <1>5, OneMoves DEF Movers
  <2>2. copies'[i] = copies[i] /\ late'[i] = late[i]
    BY <1>5 DEF Validates, Starts, Answered, Confirms, Refuses, LosesAnswer, Abandons,
                Taken, ProviderUnchanged, ProviderOK
  <2>3. Possible(i)' <= Possible(i)
    BY <1>4, <2>1, <2>2, PossibleIs
  <2> QED BY <1>1, <1>3, <1>5, <2>3, RowStaysCovered
<1>6. CASE drain[d].slot = i
  <2>1. d \in Movers(i) <=> drain[d].phase \in {"claimed", "valid", "sending"}
    BY <1>6 DEF Movers
  <2>2. d \in Movers(i)' <=> phase \in {"claimed", "valid", "sending"}
    BY <1>3, <1>6 DEF Movers
  <2>3. CASE Validates(d) \/ Starts(d) \/ Refuses(d)
    <3>1. copies' = copies /\ late' = late
      BY <2>3 DEF Validates, Starts, Refuses, ProviderUnchanged
    <3>2. drain[d].phase \in {"claimed", "valid", "sending"}
      BY <2>3 DEF Validates, Starts, Refuses, At
    <3>3. CASE phase \in {"valid", "sending", "over"}
      <4>1. Moving(i)' <= Moving(i)
        BY <1>3, <1>4, <2>1, <2>2, <3>2, OneMoves
      <4>2. Possible(i)' <= Possible(i)
        BY <1>4, <3>1, <4>1, PossibleIs
      <4> QED BY <1>1, <1>3, <3>3, <4>2, RowStaysCovered
    <3>4. CASE phase \in {"refused", "limited"}
      <4>1. Moving(i)' = Moving(i) - 1
        BY <1>3, <2>1, <2>2, <3>2, <3>4, OneMoves
      <4>2. Possible(i)' + 1 <= Possible(i)
        BY <1>4, <3>1, <4>1, PossibleIs
      <4> QED BY <1>1, <4>2, RowStaysCovered
    <3>5. drain'[d].phase \in {"valid", "sending", "over", "refused", "limited"}
      <4>1. \E p \in {"valid", "sending", "over", "refused", "limited"} : Goes(d, p)
        BY <2>3 DEF Validates, Starts, Refuses
      <4> QED BY <4>1, GoesWhere
    <3> QED BY <1>3, <3>3, <3>4, <3>5
  <2>4. CASE Confirms(d) \/ LosesAnswer(d) \/ Abandons(d)
    <3>1. drain[d].phase = "sending" /\ drain'[d].phase \in {"confirmed", "unknown"}
      <4>1. \E p \in {"confirmed", "unknown"} : Goes(d, p)
        BY <2>4 DEF Confirms, LosesAnswer, Abandons
      <4>2. drain[d].phase = "sending"
        BY <2>4 DEF Confirms, LosesAnswer, Abandons, At
      <4> QED BY <4>1, <4>2, GoesWhere
    <3>2. Moving(i)' = Moving(i) - 1
      BY <1>3, <2>1, <2>2, <3>1, OneMoves
    <3>3. copies'[i] + late'[i] = copies[i] + late[i] + 1
      <4>1. CASE Confirms(d) \/ LosesAnswer(d)
        <5>1. late' = late /\ copies' = [copies EXCEPT ![i] = @ + 1]
          BY <4>1, <1>6 DEF Confirms, LosesAnswer, Taken
        <5>2. copies'[i] = copies[i] + 1
          BY <5>1 DEF ProviderOK
        <5> QED BY <5>1, <5>2, <1>4
      <4>2. CASE Abandons(d)
        <5>1. copies' = copies /\ late' = [late EXCEPT ![i] = @ + 1]
          BY <4>2, <1>6 DEF Abandons
        <5>2. late'[i] = late[i] + 1
          BY <5>1 DEF ProviderOK
        <5> QED BY <5>1, <5>2, <1>4
      <4> QED BY <2>4, <4>1, <4>2
    <3>4. copies'[i] \in Nat /\ late'[i] \in Nat
      BY <1>4, <2>4 DEF Confirms, LosesAnswer, Abandons, Taken, ProviderOK
    <3>5. Possible(i)' <= Possible(i)
      BY <1>4, <3>2, <3>3, <3>4, PossibleIs
    <3> QED BY <1>1, <1>3, <3>1, <3>5, RowStaysCovered
  <2> QED BY <2>3, <2>4 DEF Answered
<1> QED BY <1>5, <1>6

LEMMA LateCovered ==
    ASSUME ProviderOK, NEW k \in Slots, LateRequest(k), NEW i \in Slots
    PROVE  Covered(i)
<1>1. rows' = rows /\ drain' = drain
  BY DEF LateRequest, QueueUnchanged, queueVars
<1>2. /\ copies[i] \in Nat /\ late[i] \in Nat /\ Moving(i) \in Nat
      /\ Moving(i)' = Moving(i)
  BY <1>1, NoneMoves, MovingTyped DEF ProviderOK
<1>3. copies'[i] + late'[i] <= copies[i] + late[i] /\ copies'[i] \in Nat /\ late'[i] \in Nat
  <2>1. CASE i = k
    BY <2>1, <1>2 DEF LateRequest, Taken, ProviderOK
  <2>2. CASE i # k
    BY <2>2, <1>2 DEF LateRequest, Taken, ProviderOK
  <2> QED BY <2>1, <2>2
<1>4. Possible(i)' <= Possible(i)
  BY <1>2, <1>3, PossibleIs
<1> QED BY <1>1, <1>4, RowStaysCovered

LEMMA RecordsCovered ==
    ASSUME QueueInv, DrainOK, ProviderOK, NEW d \in Drains, Records(d), DrainOK',
           NEW i \in Slots
    PROVE  Covered(i)
<1>1. ~Idle(d) /\ Goes(d, "over") /\ held' = held
  BY RecordsCall
<1>2. "over" \in Phases /\ "over" # "idle"
  BY DEF Phases
<1>3. /\ drain'[d].phase = "over" /\ drain'[d].slot = drain[d].slot
      /\ \A e \in Drains : e # d => drain'[e] = drain[e]
  BY <1>1, <1>2, GoesOn
<1>4. copies' = copies /\ late' = late /\ drain[d].phase \in Answers
  BY DEF Records, ProviderUnchanged
<1>5. Moving(i)' = Moving(i)
  BY <1>3, <1>4, OneMoves DEF Movers, Answers
<1>6. Possible(i)' = Possible(i) /\ Possible(i) \in Nat
  BY <1>4, <1>5, PossibleIs, MovingTyped DEF ProviderOK
<1>7. CASE rows'[i] = rows[i]
  BY <1>3, <1>6, <1>7, RowStaysCovered
<1> DEFINE t == drain[d].token
<1>8. ASSUME drain[d].slot = i, LeaseLive(i, t),
             \/ At(d, "confirmed") /\ Complete(i, t)
             \/ At(d, "refused") /\ Stop(i, t, "failed")
             \/ At(d, "limited") /\ ScheduleRetry(i, t)
             \/ At(d, "unknown") /\ Stop(i, t, "uncertain")
      PROVE  Covered(i)
  <2>1. rows[i] \in Row /\ rows[i].token = t
    BY <1>8, RowTyped DEF LeaseLive
  <2>2. CASE \E status \in {"done", "uncertain"} : End(i, t, status)
    <3> PICK status \in {"done", "uncertain"} : End(i, t, status)
      BY <2>2
    <3>1. rows'[i] = Ends(rows[i], status)
      BY OnlyOne DEF End
    <3>2. /\ rows'[i].status = status /\ rows'[i].token = None
          /\ rows'[i].authorized = rows[i].authorized
      BY <2>1, <3>1 DEF Ends, Row
    <3>3. ~Spares(i)'
      BY <3>2, NoLeaseNoSpare
    <3> QED BY <1>6, <3>2, <3>3 DEF Covered
  <2>3. CASE (At(d, "refused") \/ At(d, "limited")) /\ rows'[i].authorized = rows[i].authorized
    <3>1. Spares(i)
      BY <1>8, <2>1, <2>3 DEF Spares, At
    <3> QED BY <1>6, <2>3, <3>1 DEF Covered
  <2>4. Stop(i, t, "failed") => rows'[i].authorized = rows[i].authorized
    <3>1. Stop(i, t, "failed") => Only(i, Ends(rows[i], "failed"))
      BY DEF Stop, End
    <3>2. Ends(rows[i], "failed").authorized = rows[i].authorized
      BY <2>1, EndsRow DEF Status
    <3> QED BY <3>1, <3>2, OnlyOne
  <2>5. ScheduleRetry(i, t) => rows'[i].authorized = rows[i].authorized
    <3>1. [rows[i] EXCEPT !.status = "queued", !.token = None, !.until = "future"].authorized
             = rows[i].authorized
      BY <2>1 DEF Row
    <3> QED BY <3>1, OnlyOne DEF ScheduleRetry
  <2> QED BY <1>8, <2>2, <2>3, <2>4, <2>5 DEF Complete, Stop
<1>9. CASE drain[d].slot # i
  <2>1. rows' = rows \/ \E row : Only(drain[d].slot, row)
    BY DEF Records, QueueUnchanged, queueVars, Complete, Stop, End, ScheduleRetry
  <2>2. drain[d].slot \in Slots
    BY <1>1 DEF DrainOK
  <2>3. rows'[i] = rows[i]
    BY <1>9, <2>1, <2>2, OnlyOne
  <2> QED BY <1>7, <2>3
<1>10. CASE drain[d].slot = i
  <2>1. CASE LeaseLive(i, t)
    BY <1>8, <1>10, <2>1 DEF Records
  <2>2. CASE ~LeaseLive(i, t)
    BY <1>7, <1>10, <2>2 DEF Records, QueueUnchanged, queueVars
  <2> QED BY <2>1, <2>2
<1> QED BY <1>9, <1>10

LEMMA LeavesCovered ==
    ASSUME DrainOK, ProviderOK, NEW d \in Drains, DrainEnds(d) \/ DrainCrash(d),
           NEW i \in Slots
    PROVE  Covered(i)
<1>1. ~Idle(d) /\ Leaves(d)
  BY DEF DrainEnds, DrainCrash, At, Idle
<1>2. /\ drain'[d] = IdleDrain /\ rows' = rows
      /\ \A e \in Drains : e # d => drain'[e] = drain[e]
  BY <1>1, GoesIdle
<1>3. d \notin Movers(i)' /\ drain'[d].phase = "idle"
  BY <1>2 DEF Movers, IdleDrain
<1>4. /\ copies[i] \in Nat /\ late[i] \in Nat
      /\ Moving(i) \in Nat /\ Moving(i)' \in Nat
  BY MovingTyped DEF ProviderOK
<1>5. copies' = copies
  BY DEF DrainEnds, DrainCrash, ProviderUnchanged
<1>6. CASE late'[i] = late[i]
  <2>1. Moving(i)' <= Moving(i)
    BY <1>2, <1>3, <1>4, OneMoves
  <2>2. Possible(i)' <= Possible(i)
    BY <1>4, <1>5, <1>6, <2>1, PossibleIs
  <2> QED BY <1>2, <1>3, <2>2, RowStaysCovered
<1>7. CASE At(d, "sending") /\ drain[d].slot = i /\ late'[i] = late[i] + 1
  <2>1. Moving(i)' = Moving(i) - 1
    BY <1>2, <1>3, <1>7, OneMoves DEF Movers, At
  <2>2. Possible(i)' <= Possible(i)
    BY <1>4, <1>5, <1>7, <2>1, PossibleIs
  <2> QED BY <1>2, <1>3, <2>2, RowStaysCovered
<1>8. \/ late' = late
      \/ At(d, "sending") /\ late' = [late EXCEPT ![drain[d].slot] = @ + 1]
  BY DEF DrainEnds, DrainCrash, ProviderUnchanged
<1>9. CASE late' = late
  BY <1>6, <1>9
<1>10. CASE At(d, "sending") /\ late' = [late EXCEPT ![drain[d].slot] = @ + 1]
  BY <1>6, <1>7, <1>10 DEF ProviderOK
<1> QED BY <1>8, <1>9, <1>10

LEMMA QueueCovered ==
    ASSUME QueueInv, DrainOK', ProviderOK, NEW k \in Slots,
           Insert(k) \/ Resolve(k) \/ TimeComes(k), UNCHANGED dispatchVars,
           NEW i \in Slots
    PROVE  Covered(i)
<1>1. copies' = copies /\ late' = late /\ drain' = drain
  BY DEF dispatchVars
<1>2. Possible(i)' = Possible(i) /\ Possible(i) \in Nat
  BY <1>1, NoneMoves, PossibleIs, MovingTyped DEF ProviderOK
<1>3. CASE i # k
  <2>1. \E row : Only(k, row)
    BY DEF Insert, Resolve, MarkDelivered, Cancel, AuthorizeRetry, TimeComes
  <2>2. rows'[i] = rows[i]
    BY <1>3, <2>1, OnlyOne
  <2> QED BY <1>1, <1>2, <2>2, RowStaysCovered
<1>4. CASE i = k
  <2>1. rows[i] \in Row
    BY RowTyped
  <2>2. CASE Insert(i)
    <3>1. rows[i].status = "absent" /\ rows[i] = AbsentRow
      BY <2>2 DEF Insert, QueueInv, RowInv
    <3>2. rows'[i] = [AbsentRow EXCEPT !.status = "queued"]
      BY <2>2, OnlyOne DEF Insert
    <3>3. rows'[i].authorized = rows[i].authorized
      BY <3>1, <3>2 DEF AbsentRow
    <3> QED BY <1>2, <3>1, <3>3 DEF Covered, Spares
  <2>3. CASE MarkDelivered(i) \/ Cancel(i)
    <3> PICK status \in {"done", "cancelled"} : Only(i, Ends(rows[i], status))
      BY <2>3 DEF MarkDelivered, Cancel
    <3>1. rows'[i] = Ends(rows[i], status)
      BY OnlyOne
    <3>2. /\ rows'[i].status = status /\ rows'[i].token = None
          /\ rows'[i].authorized = rows[i].authorized
      BY <2>1, <3>1, EndsRow DEF Status
    <3> QED BY <1>2, <3>2, NoLeaseNoSpare DEF Covered
  <2>4. CASE AuthorizeRetry(i)
    <3> DEFINE ended == Ends(rows[i], "queued")
    <3>1. ended \in Row /\ ended.authorized = rows[i].authorized
      BY <2>1, EndsRow DEF Status
    <3>2. rows'[i] = [ended EXCEPT !.authorized = @ + 1]
      BY <2>4, OnlyOne DEF AuthorizeRetry
    <3> HIDE DEF ended
    <3>3. rows'[i].authorized = rows[i].authorized + 1
      BY <3>1, <3>2 DEF Row
    <3> QED BY <1>2, <3>3 DEF Covered
  <2>5. CASE TimeComes(i)
    <3>1. rows'[i] = [rows[i] EXCEPT !.until = "reached"]
      BY <2>5, OnlyOne DEF TimeComes
    <3>2. /\ rows'[i].status = rows[i].status /\ rows'[i].token = rows[i].token
          /\ rows'[i].authorized = rows[i].authorized
      BY <2>1, <3>1 DEF Row
    <3> QED BY <1>1, <1>2, <3>2, SparesNoMore DEF Covered
  <2> QED BY <1>4, <2>2, <2>3, <2>4, <2>5 DEF Resolve
<1> QED BY <1>3, <1>4

LEMMA StillCovered ==
    ASSUME ProviderOK, rows' = rows, drain' = drain, late' = late, copies' = copies,
           NEW i \in Slots
    PROVE  Covered(i)
<1>1. Possible(i)' = Possible(i) /\ Possible(i) \in Nat
  BY NoneMoves, PossibleIs, MovingTyped DEF ProviderOK
<1> QED BY <1>1, RowStaysCovered

LEMMA StepCovered ==
    ASSUME QueueInv, DrainOK, ProviderOK, [OutboxNext]_outboxVars, NEW i \in Slots
    PROVE  Covered(i)
<1>1. DrainOK'
  BY DrainsFollow
<1>2. ASSUME NEW d \in Drains, DrainClaims(d) PROVE Covered(i)
  BY <1>1, <1>2, ClaimCovered
<1>3. ASSUME NEW d \in Drains, Validates(d) \/ Starts(d) \/ Answered(d) PROVE Covered(i)
  BY <1>3, QuietCovered
<1>4. ASSUME NEW d \in Drains, Records(d) PROVE Covered(i)
  BY <1>1, <1>4, RecordsCovered
<1>5. ASSUME NEW d \in Drains, DrainEnds(d) \/ DrainCrash(d) PROVE Covered(i)
  BY <1>5, LeavesCovered
<1>6. ASSUME NEW k \in Slots, LateRequest(k) PROVE Covered(i)
  BY <1>6, LateCovered
<1>7. ASSUME NEW k \in Slots, Insert(k) \/ Resolve(k) \/ TimeComes(k), UNCHANGED dispatchVars
      PROVE  Covered(i)
  BY <1>1, <1>7, QueueCovered
<1>8. CASE Revoke /\ UNCHANGED dispatchVars
  BY <1>8, StillCovered DEF Revoke, dispatchVars
<1>9. CASE UNCHANGED outboxVars
  BY <1>9, StillCovered DEF outboxVars
<1> QED BY <1>2, <1>3, <1>4, <1>5, <1>6, <1>7, <1>8, <1>9 DEF OutboxNext, DrainStep

LEMMA ProviderStays ==
    ASSUME DrainOK, ProviderOK, [OutboxNext]_outboxVars
    PROVE  ProviderOK'
<1>1. \A d \in Drains : ~Idle(d) => drain[d].slot \in Slots
  BY DEF DrainOK
<1>2. ASSUME NEW d \in Drains,
             Confirms(d) \/ LosesAnswer(d) \/ Abandons(d) \/ DrainCrash(d)
      PROVE  ProviderOK'
  <2>1. drain[d].slot \in Slots
    BY <1>1, <1>2 DEF Confirms, LosesAnswer, Abandons, DrainCrash, At, Idle
  <2> QED BY <1>2, <2>1 DEF Confirms, LosesAnswer, Abandons, DrainCrash, Taken, ProviderOK
<1>3. ASSUME NEW i \in Slots, LateRequest(i) PROVE ProviderOK'
  BY <1>3 DEF LateRequest, Taken, ProviderOK
<1>4. CASE UNCHANGED <<late, copies>>
  BY <1>4 DEF ProviderOK
<1> QED BY <1>2, <1>3, <1>4
        DEF OutboxNext, DrainStep, DrainClaims, Validates, Starts, Answered, Refuses,
            Records, DrainEnds, ProviderUnchanged, dispatchVars, outboxVars

LEMMA BudgetStarts ==
    OutboxInit => QueueInv /\ DrainOK /\ ProviderOK /\ RequestsAreAuthorized
<1> SUFFICES ASSUME OutboxInit
             PROVE  QueueInv /\ DrainOK /\ ProviderOK /\ RequestsAreAuthorized
  OBVIOUS
<1>1. QueueInv /\ DrainOK
  BY DrainsStart, InitHolds
<1>2. ProviderOK
  BY DEF OutboxInit, ProviderOK
<1>3. ASSUME NEW i \in Slots
      PROVE  Possible(i) <= rows[i].authorized + (IF Spares(i) THEN 0 ELSE 1)
  <2>1. Movers(i) = {}
    BY DEF OutboxInit, Movers, IdleDrain
  <2>2. Moving(i) = 0
    BY <2>1, FS_EmptySet DEF Moving
  <2>3. rows[i].authorized = 0 /\ Spares(i)
    BY DEF OutboxInit, QueueInit, AbsentRow, Spares
  <2>4. copies[i] = 0 /\ late[i] = 0
    BY DEF OutboxInit
  <2>5. Possible(i) = 0
    BY <2>2, <2>4, PossibleIs
  <2> QED BY <2>3, <2>5
<1>4. RequestsAreAuthorized
  BY <1>3, Zenon DEF RequestsAreAuthorized
<1> QED BY <1>1, <1>2, <1>4

Budget == QueueInv /\ DrainOK /\ ProviderOK /\ RequestsAreAuthorized

LEMMA BudgetKept == Budget /\ [OutboxNext]_outboxVars => Budget'
<1> SUFFICES ASSUME Budget, [OutboxNext]_outboxVars PROVE Budget'
  OBVIOUS
<1>1. DrainOK' /\ QueueInv' /\ ProviderOK'
  BY DrainsFollow, StepKeeps, ProviderStays DEF Budget
<1>2. \A i \in Slots : Covered(i)
  BY StepCovered DEF Budget
<1> QED BY <1>1, <1>2, CoveredSuffices DEF Budget

\* For any number of drains, with every fault: the requests of a message that
\* reached the provider or may still reach it never exceed its first sending
\* and its authorized retries, and a queued or refused message has one left.
THEOREM EveryRequestIsAuthorized == OutboxSafety => []RequestsAreAuthorized
<1>1. OutboxInit => Budget
  BY BudgetStarts DEF Budget
<1>2. Budget => RequestsAreAuthorized
  BY DEF Budget
<1> QED BY <1>1, <1>2, BudgetKept, PTL DEF OutboxSafety

\* No answer, loss, timeout or crash leaves a drain, or the provider's count of a
\* message, outside its type: a late request is one that somebody made.
THEOREM OutboxTyped == OutboxSafety => []OutboxTypeOK
<1>1. OutboxInit => Budget
  BY BudgetStarts DEF Budget
<1>2. Budget => OutboxTypeOK
  BY DEF Budget, OutboxTypeOK, QueueInv, DrainOK, ProviderOK
<1> QED BY <1>1, <1>2, BudgetKept, PTL DEF OutboxSafety

-----------------------------------------------------------------------------
(***************************************************************************)
(* OutboxDispatch implements MessagePromise, for any number of messages,   *)
(* drains and lease tokens and any faults.  Besides the budget of requests *)
(* the proof needs that whatever may reach the provider stands behind      *)
(* settled messages, and that a drain only believes what the provider did. *)
(***************************************************************************)
Behind == \A i \in Slots : Possible(i) > 0 =>
             \A j \in Slots : j < i => Settled(rows[j])

ConfirmedTaken ==
    \A d \in Drains : drain[d].phase = "confirmed" => copies[drain[d].slot] > 0

Promising == Budget /\ Behind /\ ConfirmedTaken

-----------------------------------------------------------------------------
(***************************************************************************)
(* The invariant.                                                          *)
(***************************************************************************)
LEMMA SettledStays ==
    ASSUME QueueInv, DrainOK, [OutboxNext]_outboxVars, NEW i \in Slots, Settled(rows[i])
    PROVE  Settled(rows'[i])
<1>1. RowChange(i)
  BY DrainsFollow, StepChanges
<1>2. rows'[i].status = rows[i].status
  BY <1>1 DEF RowChange, LetGo, GivenOut, Readied, Timed
<1> QED BY <1>2 DEF Settled

LEMMA BehindKept ==
    ASSUME Budget, Behind, [OutboxNext]_outboxVars
    PROVE  Behind'
<1>1. Budget'
  BY BudgetKept
<1> SUFFICES ASSUME NEW i \in Slots, Possible(i)' > 0, NEW j \in Slots, j < i
             PROVE  Settled(rows'[j])
  BY DEF Behind
<1>2. Possible(i) \in Nat /\ Possible(i)' \in Nat
  BY <1>1, MovingTyped, PossibleIs DEF Budget, ProviderOK
<1>3. Covered(i)
  BY StepCovered DEF Budget
<1>4. CASE Possible(i) > 0
  <2>1. Settled(rows[j])
    BY <1>4 DEF Behind
  <2> QED BY <2>1, SettledStays DEF Budget
<1>5. CASE ~(Possible(i) > 0)
  <2>1. rows'[i].status = "dispatching"
    BY <1>2, <1>3, <1>5 DEF Covered
  <2> QED BY <1>1, <2>1 DEF Budget, QueueInv, HandedInOrder
<1> QED BY <1>4, <1>5

\* Only the provider's answer makes a drain believe it.
LEMMA OnlyConfirms ==
    ASSUME DrainOK, [OutboxNext]_outboxVars, NEW e \in Drains,
           drain'[e].phase = "confirmed"
    PROVE  drain'[e] = drain[e] \/ Confirms(e)
<1>1. ASSUME NEW d \in Drains, DrainClaims(d) PROVE drain'[e] = drain[e]
  <2>1. CASE UNCHANGED drain
    BY <2>1
  <2>2. ASSUME NEW i \in Slots, NEW t \in Tokens, Claim(i, t),
               drain' = [drain EXCEPT ![d] = ClaimedDrain(i, t)]
        PROVE  drain'[e] = drain[e]
    <3>1. Idle(d)
      BY <1>1 DEF DrainClaims, At, Idle
    <3>2. /\ drain'[d] = ClaimedDrain(i, t)
          /\ \A f \in Drains : f # d => drain'[f] = drain[f]
      BY <2>2, <3>1, Claims, ZenonT(60)
    <3> QED BY <3>2 DEF ClaimedDrain
  <2> QED BY <1>1, <2>1, <2>2 DEF DrainClaims, ClaimedDrain
<1>2. ASSUME NEW d \in Drains, NEW phase \in Phases \ {"idle", "confirmed"},
             ~Idle(d), held' = held, Goes(d, phase)
      PROVE  drain'[e] = drain[e]
  <2>1. drain'[d].phase = phase /\ \A f \in Drains : f # d => drain'[f] = drain[f]
    BY <1>2, GoesOn
  <2> QED BY <1>2, <2>1
<1>3. ASSUME NEW d \in Drains, Validates(d) \/ Starts(d) \/ Answered(d), ~Confirms(d)
      PROVE  drain'[e] = drain[e]
  <2>1. ~Idle(d) /\ held' = held
    BY <1>3, QuietStep DEF queueVars
  <2>2. \E phase \in Phases \ {"idle", "confirmed"} : Goes(d, phase)
    BY <1>3 DEF Validates, Starts, Answered, Refuses, LosesAnswer, Abandons, Phases, Answers
  <2> QED BY <1>2, <2>1, <2>2
<1>4. ASSUME NEW d \in Drains, Confirms(d) PROVE drain'[e] = drain[e] \/ Confirms(e)
  <2>1. CASE d = e
    BY <1>4, <2>1
  <2>2. CASE d # e
    BY <1>4, <2>2 DEF Confirms, Goes, DrainOK
  <2> QED BY <2>1, <2>2
<1>5. ASSUME NEW d \in Drains, Records(d) PROVE drain'[e] = drain[e]
  <2>1. ~Idle(d) /\ Goes(d, "over") /\ held' = held
    BY <1>5, RecordsCall
  <2> QED BY <1>2, <2>1 DEF Phases
<1>6. ASSUME NEW d \in Drains, DrainEnds(d) \/ DrainCrash(d) PROVE drain'[e] = drain[e]
  <2>1. ~Idle(d) /\ Leaves(d)
    BY <1>6 DEF DrainEnds, DrainCrash, At, Idle
  <2>2. drain'[d] = IdleDrain /\ \A f \in Drains : f # d => drain'[f] = drain[f]
    BY <2>1, GoesIdle
  <2> QED BY <2>2 DEF IdleDrain
<1>7. CASE UNCHANGED drain
  BY <1>7
<1> QED BY <1>1, <1>3, <1>4, <1>5, <1>6, <1>7
        DEF OutboxNext, DrainStep, LateRequest, dispatchVars, outboxVars

LEMMA CopiesGrow ==
    ASSUME ProviderOK, [OutboxNext]_outboxVars, NEW i \in Slots
    PROVE  copies'[i] >= copies[i]
<1>1. \A k : Taken(k) => copies'[i] >= copies[i]
  BY DEF Taken, ProviderOK
<1>2. UNCHANGED copies => copies'[i] >= copies[i]
  BY DEF ProviderOK
<1> QED BY <1>1, <1>2
        DEF OutboxNext, DrainClaims, DrainStep, Validates, Starts, Answered, Confirms,
            Refuses, LosesAnswer, Abandons, Records, DrainEnds, DrainCrash, LateRequest,
            ProviderUnchanged, dispatchVars, outboxVars

LEMMA ConfirmedKept ==
    ASSUME Budget, ConfirmedTaken, [OutboxNext]_outboxVars
    PROVE  ConfirmedTaken'
<1> SUFFICES ASSUME NEW d \in Drains, drain'[d].phase = "confirmed"
             PROVE  copies'[drain'[d].slot] > 0
  BY DEF ConfirmedTaken
<1> USE DEF Budget
<1>1. CASE drain'[d] = drain[d]
  <2>1. drain[d].slot \in Slots /\ copies[drain[d].slot] > 0
    BY <1>1 DEF ConfirmedTaken, DrainOK, Idle
  <2>2. copies'[drain[d].slot] >= copies[drain[d].slot]
    BY <2>1, CopiesGrow
  <2>3. copies[drain[d].slot] \in Nat /\ copies'[drain[d].slot] \in Nat
    BY <2>1, ProviderStays DEF ProviderOK
  <2> QED BY <1>1, <2>1, <2>2, <2>3
<1>2. CASE Confirms(d)
  <2>1. ~Idle(d) /\ held' = held /\ Goes(d, "confirmed") /\ Taken(drain[d].slot)
    BY <1>2 DEF Confirms, At, Idle, QueueUnchanged, queueVars
  <2>2. "confirmed" \in Phases /\ "confirmed" # "idle"
    BY DEF Phases, Answers
  <2>3. drain'[d].slot = drain[d].slot /\ drain[d].slot \in Slots
    BY <2>1, <2>2, GoesOn DEF DrainOK
  <2>4. copies'[drain[d].slot] = copies[drain[d].slot] + 1 /\ copies[drain[d].slot] \in Nat
    BY <2>1, <2>3 DEF Taken, ProviderOK
  <2> QED BY <2>3, <2>4
<1> QED BY <1>1, <1>2, OnlyConfirms

LEMMA PromisingKept == Promising /\ [OutboxNext]_outboxVars => Promising'
BY BudgetKept, BehindKept, ConfirmedKept DEF Promising

LEMMA PromisingStarts == OutboxInit => Promising
<1> SUFFICES ASSUME OutboxInit PROVE Promising
  OBVIOUS
<1>1. Budget
  BY BudgetStarts DEF Budget
<1>2. ConfirmedTaken
  BY DEF OutboxInit, IdleDrain, ConfirmedTaken
<1>3. ASSUME NEW i \in Slots PROVE ~(Possible(i) > 0)
  <2>1. rows[i].authorized = 0 /\ Spares(i)
    BY DEF OutboxInit, QueueInit, AbsentRow, Spares
  <2>2. Possible(i) <= 0 /\ Possible(i) \in Nat
    BY <1>1, <2>1, MovingTyped, PossibleIs DEF Budget, RequestsAreAuthorized, ProviderOK
  <2> QED BY <2>2
<1> QED BY <1>1, <1>2, <1>3 DEF Promising, Behind

-----------------------------------------------------------------------------
(***************************************************************************)
(* Every step keeps the promise, message by message.                       *)
(***************************************************************************)
Promised(i) ==
    \/ Promise!Post(i) \/ Promise!Reach(i) \/ Promise!Confirm(i) \/ Promise!GiveUp(i)
    \/ Promise!Doubt(i) \/ Promise!Judge(i) \/ Promise!Authorize(i) \/ Promise!Still(i)

LEMMA Fates ==
    ASSUME NEW row
    PROVE  /\ row.status = "absent" <=> FateOf(row) = "absent"
           /\ row.status \in {"queued", "dispatching"} => FateOf(row) = "open"
           /\ row.status = "uncertain" => FateOf(row) = "doubt"
           /\ row.status = "done" => FateOf(row) = "sent"
           /\ row.status \in {"failed", "cancelled"} => FateOf(row) = row.status
<1>1. CASE row.status \in {"absent", "queued", "dispatching", "uncertain", "done"}
  BY <1>1 DEF FateOf
<1>2. CASE row.status \notin {"absent", "queued", "dispatching", "uncertain", "done"}
  <2>1. FateOf(row) = row.status
    BY <1>2 DEF FateOf
  <2> QED BY <1>2, <2>1
<1> QED BY <1>1, <1>2

LEMMA StillPromised ==
    ASSUME NEW i \in Slots, copies'[i] = copies[i],
           FateOf(rows'[i]) = FateOf(rows[i]), rows'[i].authorized = rows[i].authorized
    PROVE  Promised(i)
BY DEF Promised, Promise!Still, Promise!Same

\* A message is taken: a request was spared for it.
LEMMA ReachPromised ==
    ASSUME Promising, NEW i \in Slots, rows' = rows,
           copies'[i] = copies[i] + 1, late[i] > 0 \/ Moving(i) > 0
    PROVE  Promised(i)
<1> USE DEF Promising, Budget
<1>1. /\ rows[i] \in Row /\ copies[i] \in Nat /\ late[i] \in Nat /\ Moving(i) \in Nat
      /\ rows[i].authorized \in Nat
  BY RowTyped, MovingTyped DEF ProviderOK, Row
<1>2. Possible(i) \in Nat /\ Possible(i) >= copies[i] + 1
  BY <1>1, PossibleIs
<1>3. Possible(i) <= rows[i].authorized + (IF Spares(i) THEN 0 ELSE 1)
  BY DEF RequestsAreAuthorized
<1>4. copies[i] <= rows[i].authorized
  BY <1>1, <1>2, <1>3
<1>5. rows[i].status # "absent"
  <2> SUFFICES ASSUME rows[i].status = "absent" PROVE FALSE
    OBVIOUS
  <2>1. Spares(i) /\ rows[i].authorized = 0
    BY DEF Spares, QueueInv, RowInv, AbsentRow
  <2> QED BY <1>1, <1>2, <1>3, <2>1
<1>6. \A j \in Slots : j < i => Settled(rows[j])
  <2>1. Possible(i) > 0
    BY <1>1, <1>2
  <2> QED BY <2>1, Zenon DEF Behind
<1>7. \A j \in Slots : Settled(rows[j]) => FateOf(rows[j]) \in {"sent", "failed", "cancelled"}
  BY Fates DEF Settled
<1>8. Promise!Reach(i)
  BY <1>4, <1>5, <1>6, <1>7, Fates
     DEF Promise!Reach, Promise!Same, Promise!Over, Promise!Messages, Slots
<1> QED BY <1>8 DEF Promised

\* A message that spares a request was not taken beyond its retries.
LEMMA SparedCopies ==
    ASSUME Promising, NEW i \in Slots, Spares(i)
    PROVE  copies[i] <= rows[i].authorized
<1> USE DEF Promising, Budget
<1>1. /\ copies[i] \in Nat /\ late[i] \in Nat /\ Moving(i) \in Nat
      /\ rows[i].authorized \in Nat
  BY RowTyped, MovingTyped DEF ProviderOK, Row
<1>2. Possible(i) <= rows[i].authorized + (IF Spares(i) THEN 0 ELSE 1)
  BY Zenon DEF RequestsAreAuthorized
<1>3. Possible(i) <= rows[i].authorized + 0
  BY <1>2
<1>4. Possible(i) = copies[i] + late[i] + Moving(i)
  BY PossibleIs
<1> HIDE DEF Promising, Budget
<1> QED BY <1>1, <1>3, <1>4

LEMMA AgedPromised ==
    ASSUME QueueInv, NEW i \in Slots, copies'[i] = copies[i], rows'[i] = Aged[i]
    PROVE  Promised(i)
<1>1. CASE Aged[i] = rows[i]
  BY <1>1, StillPromised
<1>2. CASE /\ rows[i].status = "dispatching" /\ Aged[i].status = "uncertain"
           /\ Aged[i].authorized = rows[i].authorized
  BY <1>2, Fates DEF Promised, Promise!Doubt, Promise!Turns, Promise!Same
<1> QED BY <1>1, <1>2, AgedBudget

LEMMA CancelPromised ==
    ASSUME Promising, NEW i \in Slots, copies'[i] = copies[i],
           rows[i].status = "queued", rows'[i] = [rows[i] EXCEPT !.status = "cancelled"]
    PROVE  Promised(i)
<1>1. rows[i] \in Row
  BY RowTyped DEF Promising, Budget
<1>2. rows'[i].status = "cancelled" /\ rows'[i].authorized = rows[i].authorized
  BY <1>1 DEF Row
<1>3. copies[i] <= rows[i].authorized
  BY SparedCopies DEF Spares
<1>4. FateOf(rows[i]) = "open" /\ FateOf(rows'[i]) = "cancelled"
  BY <1>2, Fates
<1> QED BY <1>2, <1>3, <1>4 DEF Promised, Promise!GiveUp, Promise!Turns, Promise!Same

LEMMA ClaimPromised ==
    ASSUME Promising, NEW d \in Drains, DrainClaims(d), NEW i \in Slots
    PROVE  Promised(i)
<1> USE DEF Promising, Budget
<1>1. copies' = copies
  BY DEF DrainClaims, ProviderUnchanged
<1>2. ASSUME NEW k \in Slots, NEW t \in Tokens, Claim(k, t)
      PROVE  Promised(i)
  <2>1. Aged \in [Slots -> Row]
    BY QInvIsQueueInv, AgedRows DEF QInv
  <2>2. rows' = [Aged EXCEPT ![k] = Handed(Aged[k], t)]
    <3>1. [Aged EXCEPT ![k] = Handed(@, t)] = [Aged EXCEPT ![k] = Handed(Aged[k], t)]
      BY DEF Aged
    <3> QED BY <1>2, <3>1 DEF Claim
  <2>3. CASE i # k
    <3>1. rows'[i] = Aged[i]
      BY <2>1, <2>2, <2>3
    <3> QED BY <1>1, <3>1, AgedPromised
  <2>4. CASE i = k
    <3>1. rows'[i] = Handed(Aged[i], t)
      BY <2>1, <2>2, <2>4
    <3>2. Aged[i].status = "queued"
      BY <1>2, <2>4, OutboxAssumption DEF Claim, Claimable, Recoverable
    <3>3. rows[i].status = "queued" /\ Aged[i].authorized = rows[i].authorized
      BY <3>2, AgedBudget
    <3>4. rows'[i].status = "dispatching" /\ rows'[i].authorized = rows[i].authorized
      BY <2>1, <3>1, <3>3 DEF Handed, Row
    <3>5. FateOf(rows'[i]) = FateOf(rows[i])
      BY <3>3, <3>4, Fates
    <3> QED BY <1>1, <3>4, <3>5, StillPromised
  <2> QED BY <2>3, <2>4
<1>3. CASE ClaimNothing
  <2>1. \/ rows'[i] = Aged[i]
        \/ rows[i].status = "queued" /\ rows'[i] = [rows[i] EXCEPT !.status = "cancelled"]
    BY <1>3 DEF ClaimNothing
  <2> QED BY <1>1, <2>1, AgedPromised, CancelPromised
<1> QED BY <1>2, <1>3 DEF DrainClaims

LEMMA RecordsPromised ==
    ASSUME Promising, NEW d \in Drains, Records(d), NEW i \in Slots
    PROVE  Promised(i)
<1> USE DEF Promising, Budget
<1> DEFINE t == drain[d].token
<1>1. copies' = copies /\ ~Idle(d) /\ drain[d].slot \in Slots
  BY RecordsCall DEF Records, ProviderUnchanged, DrainOK
<1>2. CASE rows'[i] = rows[i]
  BY <1>1, <1>2, StillPromised
<1>3. ASSUME NEW status \in {"done", "failed", "uncertain"},
             LeaseLive(i, t), Only(i, Ends(rows[i], status))
      PROVE  /\ rows'[i].authorized = rows[i].authorized
             /\ FateOf(rows[i]) = "open" /\ rows'[i].status = status
  <2>1. rows'[i] = Ends(rows[i], status) /\ rows[i].status = "dispatching"
    BY <1>3, OnlyOne DEF LeaseLive
  <2>2. rows'[i].status = status /\ rows'[i].authorized = rows[i].authorized
    BY <2>1, RowTyped, EndsRow DEF Status
  <2> QED BY <2>1, <2>2, Fates
<1>4. ASSUME drain[d].slot = i, At(d, "confirmed"), Complete(i, t) PROVE Promised(i)
  <2>1. LeaseLive(i, t) /\ Only(i, Ends(rows[i], "done"))
    BY <1>4 DEF Complete, End
  <2>2. /\ rows'[i].authorized = rows[i].authorized
        /\ FateOf(rows[i]) = "open" /\ rows'[i].status = "done"
    BY <1>3, <2>1
  <2>3. copies[i] > 0
    BY <1>4 DEF ConfirmedTaken, At
  <2>4. FateOf(rows'[i]) = "sent"
    BY <2>2, Fates
  <2> QED BY <1>1, <2>2, <2>3, <2>4
          DEF Promised, Promise!Confirm, Promise!Turns, Promise!Same
<1>5. ASSUME drain[d].slot = i, At(d, "refused"), Stop(i, t, "failed") PROVE Promised(i)
  <2>1. LeaseLive(i, t) /\ Only(i, Ends(rows[i], "failed"))
    BY <1>5 DEF Stop, End
  <2>2. /\ rows'[i].authorized = rows[i].authorized
        /\ FateOf(rows[i]) = "open" /\ rows'[i].status = "failed"
    BY <1>3, <2>1
  <2>3. Spares(i)
    BY <1>5, <2>1 DEF Spares, At, LeaseLive
  <2>4. copies[i] <= rows[i].authorized
    BY <2>3, SparedCopies
  <2>5. FateOf(rows'[i]) = "failed"
    BY <2>2, Fates
  <2> QED BY <1>1, <2>2, <2>4, <2>5
          DEF Promised, Promise!GiveUp, Promise!Turns, Promise!Same
<1>6. ASSUME Stop(i, t, "uncertain") PROVE Promised(i)
  <2>1. LeaseLive(i, t) /\ Only(i, Ends(rows[i], "uncertain"))
    BY <1>6 DEF Stop, End
  <2>2. /\ rows'[i].authorized = rows[i].authorized
        /\ FateOf(rows[i]) = "open" /\ rows'[i].status = "uncertain"
    BY <1>3, <2>1
  <2>3. FateOf(rows'[i]) = "doubt"
    BY <2>2, Fates
  <2> QED BY <1>1, <2>2, <2>3 DEF Promised, Promise!Doubt, Promise!Turns, Promise!Same
<1>7. ASSUME ScheduleRetry(i, t) PROVE Promised(i)
  <2>1. /\ rows[i].status = "dispatching" /\ rows[i] \in Row
        /\ rows'[i] = [rows[i] EXCEPT !.status = "queued", !.token = None, !.until = "future"]
    BY <1>7, OnlyOne, RowTyped DEF ScheduleRetry, LeaseLive
  <2>2. rows'[i].status = "queued" /\ rows'[i].authorized = rows[i].authorized
    BY <2>1 DEF Row
  <2>3. FateOf(rows'[i]) = FateOf(rows[i])
    BY <2>1, <2>2, Fates
  <2> QED BY <1>1, <2>2, <2>3, StillPromised
<1>8. CASE drain[d].slot = i
  <2>1. \/ At(d, "confirmed") /\ Complete(i, t)
        \/ At(d, "refused") /\ Stop(i, t, "failed")
        \/ ScheduleRetry(i, t)
        \/ Stop(i, t, "uncertain")
        \/ rows'[i] = rows[i]
    BY <1>8 DEF Records, QueueUnchanged, queueVars
  <2> QED BY <1>2, <1>4, <1>5, <1>6, <1>7, <1>8, <2>1
<1>9. CASE drain[d].slot # i
  <2>1. rows' = rows \/ \E row : Only(drain[d].slot, row)
    BY DEF Records, QueueUnchanged, queueVars, Complete, Stop, End, ScheduleRetry
  <2>2. rows'[i] = rows[i]
    BY <1>1, <1>9, <2>1, OnlyOne
  <2> QED BY <1>2, <2>2
<1> QED BY <1>8, <1>9

LEMMA QueuePromised ==
    ASSUME Promising, NEW k \in Slots, Insert(k) \/ Resolve(k) \/ TimeComes(k),
           copies' = copies, NEW i \in Slots
    PROVE  Promised(i)
<1> USE DEF Promising, Budget
<1>1. CASE i # k
  <2>1. \E row : Only(k, row)
    BY DEF Insert, Resolve, MarkDelivered, Cancel, AuthorizeRetry, TimeComes
  <2>2. rows'[i] = rows[i]
    BY <1>1, <2>1, OnlyOne
  <2> QED BY <2>2, StillPromised
<1>2. CASE Insert(i)
  <2>1. /\ rows[i] = AbsentRow /\ rows'[i] = [AbsentRow EXCEPT !.status = "queued"]
        /\ \A j \in Slots : j < i => rows[j].status # "absent"
    BY <1>2, OnlyOne DEF Insert, QueueInv, RowInv
  <2>2. /\ rows[i].status = "absent" /\ rows'[i].status = "queued"
        /\ rows'[i].authorized = rows[i].authorized
    BY <2>1 DEF AbsentRow
  <2>3. FateOf(rows[i]) = "absent" /\ FateOf(rows'[i]) = "open"
    BY <2>2, Fates
  <2>4. \A j \in Slots : j < i => FateOf(rows[j]) # "absent"
    BY <2>1, Fates
  <2>5. Promise!Post(i)
    BY <2>2, <2>3, <2>4
       DEF Promise!Post, Promise!Turns, Promise!Same, Promise!Messages, Slots
  <2> QED BY <2>5 DEF Promised
<1>3. ASSUME NEW status \in {"done", "cancelled"}, rows[i].status = "uncertain",
             Only(i, Ends(rows[i], status))
      PROVE  Promised(i)
  <2>1. rows'[i].status = status /\ rows'[i].authorized = rows[i].authorized
    BY <1>3, OnlyOne, RowTyped, EndsRow DEF Status
  <2>2. FateOf(rows[i]) = "doubt" /\ FateOf(rows'[i]) \in {"sent", "cancelled"}
    BY <1>3, <2>1, Fates
  <2> QED BY <2>1, <2>2 DEF Promised, Promise!Judge, Promise!Turns, Promise!Same
<1>4. CASE AuthorizeRetry(i)
  <2> DEFINE ended == Ends(rows[i], "queued")
  <2>1. /\ ended \in Row /\ ended.authorized = rows[i].authorized
        /\ ended.status = "queued"
    BY RowTyped, EndsRow DEF Status
  <2>2. rows'[i] = [ended EXCEPT !.authorized = @ + 1] /\ rows[i].status = "uncertain"
    BY <1>4, OnlyOne DEF AuthorizeRetry
  <2> HIDE DEF ended
  <2>3. rows'[i].authorized = rows[i].authorized + 1 /\ rows'[i].status = "queued"
    BY <2>1, <2>2 DEF Row
  <2>4. FateOf(rows[i]) = "doubt" /\ FateOf(rows'[i]) = "open"
    BY <2>2, <2>3, Fates
  <2> QED BY <2>3, <2>4 DEF Promised, Promise!Authorize, Promise!Turns, Promise!Same
<1>5. CASE TimeComes(i)
  <2>1. rows'[i] = [rows[i] EXCEPT !.until = "reached"] /\ rows[i] \in Row
    BY <1>5, OnlyOne, RowTyped DEF TimeComes
  <2>2. rows'[i].status = rows[i].status /\ rows'[i].authorized = rows[i].authorized
    BY <2>1 DEF Row
  <2>3. FateOf(rows'[i]) = FateOf(rows[i])
    BY <2>2 DEF FateOf
  <2> QED BY <2>2, <2>3, StillPromised
<1> QED BY <1>1, <1>2, <1>3, <1>4, <1>5 DEF Resolve, MarkDelivered, Cancel

LEMMA TakenPromised ==
    ASSUME Promising, rows' = rows, NEW i \in Slots,
           \/ copies' = copies
           \/ \E k \in Slots : Taken(k) /\ (late[k] > 0 \/ Moving(k) > 0)
    PROVE  Promised(i)
<1>1. CASE copies'[i] = copies[i]
  BY <1>1, StillPromised
<1>2. ASSUME NEW k \in Slots, Taken(k), late[k] > 0 \/ Moving(k) > 0
      PROVE  Promised(i)
  <2>1. CASE i = k
    <3>1. copies'[i] = copies[i] + 1
      BY <1>2, <2>1 DEF Taken, Promising, Budget, ProviderOK
    <3> QED BY <1>2, <2>1, <3>1, ReachPromised
  <2>2. CASE i # k
    BY <1>1, <1>2, <2>2 DEF Taken, Promising, Budget, ProviderOK
  <2> QED BY <2>1, <2>2
<1> QED BY <1>1, <1>2

LEMMA StepPromised ==
    ASSUME Promising, [OutboxNext]_outboxVars, NEW i \in Slots
    PROVE  Promised(i)
<1>1. ASSUME NEW d \in Drains, DrainClaims(d) PROVE Promised(i)
  BY <1>1, ClaimPromised
<1>2. ASSUME NEW d \in Drains, Records(d) PROVE Promised(i)
  BY <1>2, RecordsPromised
<1>3. ASSUME NEW d \in Drains, Confirms(d) \/ LosesAnswer(d) PROVE Promised(i)
  <2> DEFINE k == drain[d].slot
  <2>1. At(d, "sending") /\ rows' = rows /\ Taken(k)
    BY <1>3 DEF Confirms, LosesAnswer, QueueUnchanged, queueVars
  <2>2. k \in Slots /\ d \in Movers(k)
    BY <2>1 DEF Movers, At, Promising, Budget, DrainOK, Idle
  <2>3. Moving(k) > 0
    <3>1. IsFiniteSet(Movers(k)) /\ Moving(k) \in Nat /\ Movers(k) # {}
      BY <2>2, MovingTyped
    <3>2. Moving(k) # 0
      BY <3>1, FS_EmptySet DEF Moving
    <3> QED BY <3>1, <3>2
  <2> QED BY <2>1, <2>2, <2>3, TakenPromised
<1>4. ASSUME NEW k \in Slots, LateRequest(k) PROVE Promised(i)
  <2>1. rows' = rows /\ late[k] > 0 /\ (Taken(k) \/ copies' = copies)
    BY <1>4 DEF LateRequest, QueueUnchanged, queueVars
  <2> QED BY <2>1, TakenPromised
<1>5. ASSUME NEW k \in Slots, Insert(k) \/ Resolve(k) \/ TimeComes(k), UNCHANGED dispatchVars
      PROVE  Promised(i)
  BY <1>5, QueuePromised DEF dispatchVars
<1>6. CASE rows' = rows /\ copies' = copies
  BY <1>6, TakenPromised
<1> QED BY <1>1, <1>2, <1>3, <1>4, <1>5, <1>6
        DEF OutboxNext, DrainStep, Validates, Starts, Answered, Refuses, Abandons, DrainEnds,
            DrainCrash, Leaves, Forget, Revoke, QueueUnchanged, queueVars, ProviderUnchanged,
            dispatchVars, outboxVars

\* For any number of messages and drains, through every fault, the outbox keeps
\* the promise of MessagePromise: at most one copy and one more per authorized
\* retry, in order, settled once, sent and failed honestly.
THEOREM OutboxPromiseKept == OutboxSafety => KeepsMessagePromise
<1>1. OutboxInit => Promise!PromiseInit
  <2> SUFFICES ASSUME OutboxInit PROVE Promise!PromiseInit
    OBVIOUS
  <2>1. \A i \in Slots : FateOf(rows[i]) = "absent" /\ rows[i].authorized = 0
    BY Fates DEF OutboxInit, QueueInit, AbsentRow
  <2>2. copies = [i \in Slots |-> 0]
    BY DEF OutboxInit
  <2> QED BY <2>1, <2>2 DEF Promise!PromiseInit, Promise!Messages, Slots
<1>2. Promising /\ [OutboxNext]_outboxVars => [Promise!PromiseNext]_(Promise!promise)
  BY StepPromised DEF Promised, Promise!PromiseNext, Promise!Messages, Slots
<1> QED BY <1>1, <1>2, PromisingStarts, PromisingKept, PTL
        DEF OutboxSafety, KeepsMessagePromise, Promise!PromiseSpec
===============================================================================
