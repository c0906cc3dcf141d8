----------------------------- MODULE RoomsProofs -----------------------------
(***************************************************************************)
(* Proofs about the conversations of trust and about team rooms.           *)
(***************************************************************************)
EXTENDS NetworkTrust, MatrixAudience, FiniteSetTheorems, TLAPS

(***************************************************************************)
(* NetworkTrust, for any transactions at the same time, any grants and any *)
(* messages: TrustInv is inductive, and what the runs check follows from   *)
(* it.  The rows a transaction has locked, and where it is, say what no    *)
(* other transaction can have changed since.                               *)
(***************************************************************************)

Transaction == [do: Kinds \cup {"none"}, at: Steps, grant: Grants \cup {None},
                of: Events \cup Pair \cup {None}, seen: SUBSET Grants,
                share: SUBSET Rows, own: SUBSET Rows]
Event == [state: EventStates, grant: Grants \cup {None}]

\* Whoever owns a row is alone with it.
LocksInv == \A p, t \in Transactions : p # t => tx[p].own \cap (tx[t].own \cup tx[t].share) = {}

\* The only grant a transaction locks is the one it is about.
LocksItsGrant(x) == \A g \in Grants : Grant(g) \in x.own \cup x.share => x.grant = g

\* A transaction that ends trust has found grants that were issued; all of them, if it owns
\* the edge.
Clearing(x) == x.do \in {"end", "block"} /\ x.at = "grants" =>
    /\ \A g \in x.seen \cap Grants : conversation[g] # "none"
    /\ Edge \in x.own => Unrevoked \subseteq x.seen

\* The bot is opened by one transaction at a time, for the grant that is live if one is, and
\* its conversation is created while the edge is shared.
Opening(x) == x.do = "open" =>
    /\ Bot \in x.own
    /\ x.at = "grants" => \A g \in Grants : Grant(g) \notin x.own \cup x.share
    /\ x.at \in {"authority", "trust", "room"} =>
         x.grant \in Grants /\ Grant(x.grant) \in x.own /\ Live \subseteq {x.grant}
    /\ x.at \in {"trust", "room"} => Edge \in x.share
    /\ x.at = "room" => conversation[x.grant] = "none"

\* A use is of a message of its conversation, which stays open while it is shared.
Using(x) ==
    /\ x.at = "found" => x.do \in Uses
    /\ x.at = "said" => x.do \in {"send", "answer"}
    /\ x.do = "invite" => x.of \in Pair
    /\ x.do \in Uses => x.grant \in Grants
    /\ x.do \in Uses /\ x.at = "conversation" => x.grant \in Open /\ Conversation(x.grant) \in x.share
    /\ x.do \in Uses \ {"close"} => x.of \in Events
    /\ x.do \in {"receive", "answer"} => event[x.of].grant = x.grant
    /\ x.do = "receive" => event[x.of].state = "sent"
    /\ x.do = "answer" => event[x.of].state \notin {"none", "sent"}

Placed(x) == LocksItsGrant(x) /\ Clearing(x) /\ Opening(x) /\ Using(x)

OneReceiver == \A p, t \in Transactions : tx[p].do = "receive" /\ tx[t].do = "receive" => p = t
OneIsLive == \A g, h \in Live : g = h

RowsInv == OneIsLive /\ GrantsNeedTrust /\ ClosedIsQuiet /\ ClosedRoomsAreLeft

TrustInv ==
    /\ TrustTypeOK /\ LocksInv /\ OneReceiver /\ RowsInv
    /\ \A p \in Transactions : Placed(tx[p])

-----------------------------------------------------------------------------
(***************************************************************************)
(* Rows and locks                                                           *)
(***************************************************************************)

\* Rows of different kinds are different rows.
LEMMA RowsDiffer ==
  /\ Edge # Bot /\ {Edge, Bot} \subseteq Rows
  /\ \A g \in Grants : Grant(g) \in Rows /\ Conversation(g) \in Rows
  /\ \A who \in Pair : Invite(who) \in Rows
  /\ \A g : Grant(g) \notin {Edge, Bot} /\ Conversation(g) \notin {Edge, Bot}
  /\ \A g, h : Grant(g) # Conversation(h) /\ Grant(g) # Invite(h)
  /\ \A g, h : Conversation(g) # Invite(h)
  /\ \A who : Invite(who) \notin {Edge, Bot}
  /\ \A g, h : Grant(g) = Grant(h) => g = h
  /\ \A g, h : Conversation(g) = Conversation(h) => g = h
BY DEF Rows, Edge, Bot, Grant, Conversation, Invite

LEMMA IdlePlaced == Idle \in Transaction /\ Placed(Idle)
BY DEF Idle, Transaction, Kinds, Steps, Uses, Placed, LocksItsGrant, Clearing, Opening, Using

LEMMA InitTrustInv == TrustInit => TrustInv
<1> SUFFICES ASSUME TrustInit PROVE TrustInv
  OBVIOUS
<1>1. tx \in [Transactions -> Transaction] /\ \A p \in Transactions : tx[p] = Idle /\ Placed(tx[p])
  BY IdlePlaced DEF TrustInit
<1>2. event \in [Events -> Event] /\ \A e \in Events : event[e].state = "none"
  BY DEF TrustInit, Event, EventStates
<1>3. TrustTypeOK
  BY <1>1, <1>2 DEF TrustInit, TrustTypeOK, Transaction, Event
<1>4. LocksInv /\ OneReceiver
  BY <1>1 DEF LocksInv, OneReceiver, Idle
<1>5. Unrevoked = {} /\ Live = {} /\ Open = {} /\ \A g \in Grants : conversation[g] = "none"
  BY DEF TrustInit, Unrevoked, Live, Open
<1>6. RowsInv
  BY <1>2, <1>5 DEF RowsInv, OneIsLive, GrantsNeedTrust, ClosedIsQuiet, ClosedRoomsAreLeft
<1> QED
  BY <1>1, <1>3, <1>4, <1>6 DEF TrustInv

\* What one transaction becomes, the locks it takes being free, leaves the invariant to be
\* shown of the rows and of where the transactions are.
LEMMA MovePreserves ==
  ASSUME TrustInv, NEW p \in Transactions, NEW x \in Transaction, tx' = [tx EXCEPT ![p] = x],
         \A row \in x.own : row \in tx[p].own \/ MayOwn(p, row),
         \A row \in x.share : row \in tx[p].share \/ MayShare(p, row),
         x.do = "receive" => tx[p].do = "receive" \/ \A t \in Transactions : tx[t].do # "receive",
         TrustTypeOK', RowsInv', Placed(tx[p])', \A t \in Others(p) : Placed(tx[t])'
  PROVE  TrustInv'
<1>0. tx \in [Transactions -> Transaction] /\ LocksInv /\ OneReceiver
  BY DEF TrustInv, TrustTypeOK, Transaction
<1>1. tx'[p] = x /\ \A t \in Others(p) : tx'[t] = tx[t]
  BY <1>0 DEF Others
<1>2. \A t \in Others(p) : x.own \cap (tx[t].own \cup tx[t].share) = {} /\ tx[t].own \cap (x.own \cup x.share) = {}
  BY <1>0 DEF LocksInv, MayOwn, MayShare, Others
<1>3. LocksInv'
  BY <1>0, <1>1, <1>2 DEF LocksInv, Others
<1>4. OneReceiver'
  BY <1>0, <1>1 DEF OneReceiver, Others
<1>5. \A t \in Transactions : Placed(tx[t])'
  BY DEF Others
<1> QED
  BY <1>3, <1>4, <1>5 DEF TrustInv

\* Where a transaction is stays true of rows that changed as its locks allow.
LEMMA StaysPlaced ==
  ASSUME NEW t \in Transactions, Placed(tx[t]), tx'[t] = tx[t],
         \A g \in Grants : conversation[g] # "none" => conversation'[g] # "none",
         tx[t].do \in {"end", "block"} /\ Edge \in tx[t].own => Unrevoked' \subseteq Unrevoked,
         tx[t].do = "open" => /\ Live' \subseteq Live
                              /\ \A g \in Grants : conversation[g] = "none" => conversation'[g] = "none",
         tx[t].do \in Uses /\ tx[t].at = "conversation" => tx[t].grant \in Open',
         tx[t].do \in {"receive", "answer"} => event'[tx[t].of].grant = event[tx[t].of].grant,
         tx[t].do = "receive" => event'[tx[t].of].state = "sent",
         tx[t].do = "answer" => event'[tx[t].of].state \notin {"none", "sent"}
  PROVE  Placed(tx[t])'
<1>1. LocksItsGrant(tx[t])'
  BY DEF Placed, LocksItsGrant
<1>2. Clearing(tx[t])'
  BY DEF Placed, Clearing
<1>3. Opening(tx[t])'
  BY DEF Placed, Opening
<1>4. Using(tx[t])'
  BY DEF Placed, Using, Uses
<1> QED
  BY <1>1, <1>2, <1>3, <1>4 DEF Placed

-----------------------------------------------------------------------------
(***************************************************************************)
(* Steps that change nothing but the transaction                            *)
(***************************************************************************)

\* The rest of the invariant is about the rows.
LEMMA StepPreserves ==
  ASSUME TrustInv, NEW p \in Transactions, NEW x \in Transaction, tx' = [tx EXCEPT ![p] = x],
         UNCHANGED <<rowVars, room, spoken>>, Placed(x),
         \A row \in x.own : row \in tx[p].own \/ MayOwn(p, row),
         \A row \in x.share : row \in tx[p].share \/ MayShare(p, row),
         x.do = "receive" => tx[p].do = "receive" \/ \A t \in Transactions : tx[t].do # "receive"
  PROVE  TrustInv'
<1>0. tx \in [Transactions -> Transaction]
  BY DEF TrustInv, TrustTypeOK, Transaction
<1>1. tx'[p] = x /\ tx' \in [Transactions -> Transaction] /\ \A t \in Others(p) : tx'[t] = tx[t]
  BY <1>0 DEF Others
<1>2. TrustTypeOK'
  BY <1>1 DEF TrustInv, TrustTypeOK, rowVars, Transaction
<1>3. RowsInv'
  BY DEF TrustInv, RowsInv, OneIsLive, GrantsNeedTrust, ClosedIsQuiet, ClosedRoomsAreLeft, Live, Unrevoked,
         Open, rowVars
<1>4. \A y \in Transaction : Placed(y) <=> /\ LocksItsGrant(y) /\ Clearing(y)' /\ Opening(y)' /\ Using(y)'
  BY DEF Placed, Clearing, Opening, Using, Live, Unrevoked, Open, rowVars
<1>5. Placed(tx[p])'
  BY <1>1, <1>4 DEF Placed, LocksItsGrant
<1>6. \A t \in Others(p) : Placed(tx[t])'
  BY <1>0, <1>1, <1>4 DEF Placed, LocksItsGrant, TrustInv, Others
<1> QED
  BY <1>2, <1>3, <1>5, <1>6, MovePreserves

\* A transaction that ends leaves nothing behind.
LEMMA AbortsPreserve ==
  ASSUME TrustInv, NEW p \in Transactions, Ends(p), UNCHANGED <<rowVars, room, spoken>>
  PROVE  TrustInv'
<1>1. tx' = [tx EXCEPT ![p] = Idle] /\ Idle.own = {} /\ Idle.share = {} /\ Idle.do = "none"
  BY DEF Ends, Idle
<1> QED
  BY <1>1, IdlePlaced, StepPreserves

\* The first statements.
LEMMA BeginsPreserve ==
  ASSUME TrustInv, NEW p \in Transactions, UNCHANGED <<rowVars, room, spoken>>,
         NEW kind \in Kinds, NEW step \in Steps, NEW g \in Grants \cup {None},
         NEW of \in Events \cup Pair \cup {None}, NEW owns \in SUBSET Rows,
         Begins(p, kind, step, g, of, owns), \A row \in owns : MayOwn(p, row),
         \A h : Grant(h) \notin owns,
         step \in {"invites", "edge", "grants", "found"},
         kind \in {"end", "block"} => step # "grants",
         kind = "open" => step = "grants" /\ Bot \in owns,
         step = "found" => kind \in Uses,
         kind = "invite" => of \in Pair,
         kind \in Uses => g \in Grants,
         kind \in Uses \ {"close"} => of \in Events,
         kind \in {"receive", "answer"} => event[of].grant = g,
         kind = "receive" => event[of].state = "sent" /\ \A t \in Transactions : tx[t].do # "receive",
         kind = "answer" => event[of].state \notin {"none", "sent"}
  PROVE  TrustInv'
<1> DEFINE x == [Idle EXCEPT !.do = kind, !.at = step, !.grant = g, !.of = of, !.own = owns]
<1>1. /\ x.do = kind /\ x.at = step /\ x.grant = g /\ x.of = of
      /\ x.own = owns /\ x.share = {}
  BY DEF Idle
<1>2. x \in Transaction
  BY IdlePlaced DEF Transaction
<1>3. tx' = [tx EXCEPT ![p] = x]
  BY DEF Begins
<1> HIDE DEF x
<1>4. Placed(x)
  BY <1>1 DEF Placed, LocksItsGrant, Clearing, Opening, Using
<1> QED
  BY <1>1, <1>2, <1>3, <1>4, StepPreserves

LEMMA FirstStatementsPreserve ==
  ASSUME TrustInv, NEW p \in Transactions,
         AsksTrust(p) \/ RepliesToTrust(p) \/ DropsInvites(p) \/ Resolves(p) \/ Finds(p)
  PROVE  TrustInv'
<1>0. /\ Kinds = {"send", "receive", "answer", "close", "invite", "reply", "end", "block", "open"}
      /\ {"invites", "edge", "grants", "found"} \subseteq Steps /\ invites \subseteq Pair
  BY DEF Kinds, Uses, Steps, TrustInv, TrustTypeOK
<1>1. CASE AsksTrust(p)
  <2> PICK who \in Pair : Begins(p, "invite", "invites", None, who, {})
    BY <1>1 DEF AsksTrust
  <2> QED
    BY <1>0, <1>1, BeginsPreserve DEF AsksTrust, Uses
<1>2. CASE RepliesToTrust(p)
  <2> PICK who \in invites : MayOwn(p, Invite(who)) /\ Begins(p, "reply", "edge", None, who, {Invite(who)})
    BY <1>2 DEF RepliesToTrust
  <2>1. {Invite(who)} \in SUBSET Rows /\ \A h : Grant(h) \notin {Invite(who)}
    BY <1>0, RowsDiffer
  <2> QED
    BY <1>0, <1>2, <2>1, BeginsPreserve DEF RepliesToTrust, Uses
<1>3. CASE DropsInvites(p)
  <2> DEFINE rows == {Invite(who) : who \in invites}
  <2> PICK kind \in {"end", "block"} : Begins(p, kind, "invites", None, None, rows)
    BY <1>3 DEF DropsInvites
  <2>1. rows \in SUBSET Rows /\ (\A h : Grant(h) \notin rows) /\ \A row \in rows : MayOwn(p, row)
    BY <1>0, <1>3, RowsDiffer DEF DropsInvites
  <2> HIDE DEF rows
  <2> QED
    BY <1>0, <1>3, <2>1, BeginsPreserve DEF DropsInvites, Uses
<1>4. CASE Resolves(p)
  <2>1. {Bot} \in SUBSET Rows /\ \A h : Grant(h) \notin {Bot}
    BY RowsDiffer
  <2> QED
    BY <1>0, <1>4, <2>1, BeginsPreserve DEF Resolves, Uses
<1>5. CASE Finds(p)
  <2>0. {} \in SUBSET Rows /\ Open \subseteq Grants /\ UNCHANGED <<rowVars, room, spoken>>
    BY <1>5 DEF Open, Finds
  <2>1. CASE \E e \in Events, g \in Open : event[e].state = "none" /\ Begins(p, "send", "found", g, e, {})
    BY <1>0, <2>0, <2>1, BeginsPreserve DEF Uses
  <2>2. CASE \E e \in Events :
               /\ event[e].state = "sent" /\ event[e].grant \in Open
               /\ \A t \in Transactions : tx[t].do # "receive"
               /\ Begins(p, "receive", "found", event[e].grant, e, {})
    BY <1>0, <2>0, <2>2, BeginsPreserve DEF Uses
  <2>3. CASE \E e \in Events :
               /\ event[e].state = "done" /\ event[e].grant \in Open
               /\ Begins(p, "answer", "found", event[e].grant, e, {})
    BY <1>0, <2>0, <2>3, BeginsPreserve DEF Uses
  <2>4. CASE \E g \in Open : Begins(p, "close", "found", g, None, {})
    BY <1>0, <2>0, <2>4, BeginsPreserve DEF Uses
  <2> QED
    BY <1>5, <2>1, <2>2, <2>3, <2>4 DEF Finds
<1> QED
  BY <1>1, <1>2, <1>3, <1>4, <1>5

\* The next statements: what a transaction becomes of y.
Gone(x, y, step, shares, owns) ==
    /\ x.do = y.do /\ x.at = step /\ x.grant = y.grant /\ x.of = y.of /\ x.seen = y.seen
    /\ x.share = y.share \cup shares /\ x.own = y.own \cup owns

LEMMA GoesPreserve ==
  ASSUME TrustInv, NEW p \in Transactions, UNCHANGED <<rowVars, room, spoken>>,
         NEW step \in Steps, NEW shares \in SUBSET Rows, NEW owns \in SUBSET Rows,
         Goes(p, step, shares, owns),
         \A row \in owns : MayOwn(p, row), \A row \in shares : MayShare(p, row),
         \A x \in Transaction : Gone(x, tx[p], step, shares, owns) => Placed(x)
  PROVE  TrustInv'
<1> DEFINE x == [tx[p] EXCEPT !.at = step, !.share = tx[p].share \cup shares, !.own = tx[p].own \cup owns]
<1>1. tx[p] \in Transaction
  BY DEF TrustInv, TrustTypeOK, Transaction
<1>2. x \in Transaction
  BY <1>1 DEF Transaction
<1>3. Gone(x, tx[p], step, shares, owns)
  BY <1>1 DEF Transaction, Gone
<1>4. tx' = [tx EXCEPT ![p] = x]
  BY DEF Goes
<1> HIDE DEF x
<1> QED
  BY <1>2, <1>3, <1>4, StepPreserves DEF Gone

LEMMA NextStatementsPreserve ==
  ASSUME TrustInv, NEW p \in Transactions,
         DropsEdge(p) \/ Secures(p) \/ SharesGrant(p) \/ SharesTrust(p) \/ SharesConversation(p)
  PROVE  TrustInv'
<1>0. /\ {"edge", "trust", "authority", "conversation"} \subseteq Steps
      /\ Placed(tx[p])
  BY DEF Steps, TrustInv
<1>1. CASE DropsEdge(p)
  <2> DEFINE owns == IF trusted THEN {Edge} ELSE {}
  <2>1. owns \in SUBSET Rows /\ (\A row \in owns : MayOwn(p, row)) /\ \A g : Grant(g) \notin owns
    BY <1>1, RowsDiffer DEF DropsEdge
  <2>2. Goes(p, "edge", {}, owns) /\ tx[p].do \in {"end", "block"} /\ UNCHANGED <<rowVars, room, spoken>>
    BY <1>1 DEF DropsEdge
  <2> HIDE DEF owns
  <2>3. \A x \in Transaction : Gone(x, tx[p], "edge", {}, owns) => Placed(x)
    BY <1>0, <2>1, <2>2 DEF Gone, Placed, LocksItsGrant, Clearing, Opening, Using, Uses
  <2> QED
    BY <1>0, <2>1, <2>2, <2>3, GoesPreserve
<1>2. CASE Secures(p)
  <2>1. {Edge} \in SUBSET Rows /\ {} \in SUBSET Rows /\ \A g : Grant(g) # Edge
    BY RowsDiffer
  <2>2. /\ Goes(p, "trust", {Edge}, {}) /\ tx[p].do = "open" /\ tx[p].at = "authority"
        /\ MayShare(p, Edge) /\ UNCHANGED <<rowVars, room, spoken>>
    BY <1>2 DEF Secures, Is
  <2>3. \A x \in Transaction : Gone(x, tx[p], "trust", {Edge}, {}) => Placed(x)
    BY <1>0, <2>1, <2>2 DEF Gone, Placed, LocksItsGrant, Clearing, Opening, Using, Uses
  <2> QED
    BY <1>0, <2>1, <2>2, <2>3, GoesPreserve
<1>3. CASE SharesGrant(p)
  <2>1. /\ tx[p].at = "found" /\ MayShare(p, Grant(tx[p].grant)) /\ MayShare(p, Bot)
        /\ Goes(p, "authority", {Grant(tx[p].grant), Bot}, {}) /\ UNCHANGED <<rowVars, room, spoken>>
    BY <1>3 DEF SharesGrant
  <2>2. tx[p].do \in Uses /\ tx[p].grant \in Grants
    BY <1>0, <2>1 DEF Placed, Using
  <2>3. {Grant(tx[p].grant), Bot} \in SUBSET Rows /\ {} \in SUBSET Rows
    BY <2>2, RowsDiffer
  <2>4. \A x \in Transaction : Gone(x, tx[p], "authority", {Grant(tx[p].grant), Bot}, {}) => Placed(x)
    BY <1>0, <2>2, RowsDiffer DEF Gone, Placed, LocksItsGrant, Clearing, Opening, Using, Uses
  <2> QED
    BY <1>0, <2>1, <2>3, <2>4, GoesPreserve
<1>4. CASE SharesTrust(p)
  <2>1. {Edge} \in SUBSET Rows /\ {} \in SUBSET Rows /\ \A g : Grant(g) # Edge
    BY RowsDiffer
  <2>2. /\ Goes(p, "trust", {Edge}, {}) /\ tx[p].do \in Uses
        /\ MayShare(p, Edge) /\ UNCHANGED <<rowVars, room, spoken>>
    BY <1>4 DEF SharesTrust
  <2>3. \A x \in Transaction : Gone(x, tx[p], "trust", {Edge}, {}) => Placed(x)
    BY <1>0, <2>1, <2>2 DEF Gone, Placed, LocksItsGrant, Clearing, Opening, Using, Uses
  <2> QED
    BY <1>0, <2>1, <2>2, <2>3, GoesPreserve
<1>5. CASE SharesConversation(p)
  <2>1. /\ tx[p].do \in Uses /\ tx[p].grant \in Open /\ MayShare(p, Conversation(tx[p].grant))
        /\ Goes(p, "conversation", {Conversation(tx[p].grant)}, {}) /\ UNCHANGED <<rowVars, room, spoken>>
    BY <1>5 DEF SharesConversation
  <2>2. {Conversation(tx[p].grant)} \in SUBSET Rows /\ {} \in SUBSET Rows
    BY <2>1, RowsDiffer DEF Open
  <2>3. \A x \in Transaction : Gone(x, tx[p], "conversation", {Conversation(tx[p].grant)}, {}) => Placed(x)
    BY <1>0, <2>1, RowsDiffer DEF Gone, Placed, LocksItsGrant, Clearing, Opening, Using, Uses
  <2> QED
    BY <1>0, <2>1, <2>2, <2>3, GoesPreserve
<1> QED
  BY <1>1, <1>2, <1>3, <1>4, <1>5

\* The grants that a transaction which ends trust finds are all there are.
LEMMA FindsGrantsPreserves ==
  ASSUME TrustInv, NEW p \in Transactions, FindsGrants(p)
  PROVE  TrustInv'
<1> DEFINE x == [tx[p] EXCEPT !.at = "grants", !.seen = Unrevoked]
<1>1. /\ tx[p] \in Transaction /\ Placed(tx[p]) /\ Unrevoked \subseteq Grants
      /\ \A g \in Unrevoked : conversation[g] # "none"
  BY DEF TrustInv, TrustTypeOK, Transaction, Unrevoked
<1>2. x \in Transaction
  BY <1>1 DEF Transaction, Steps
<1>3. /\ x.do = tx[p].do /\ x.at = "grants" /\ x.grant = tx[p].grant
      /\ x.seen = Unrevoked /\ x.share = tx[p].share /\ x.own = tx[p].own
  BY <1>1 DEF Transaction
<1>4. tx' = [tx EXCEPT ![p] = x] /\ tx[p].do \in {"end", "block"} /\ UNCHANGED <<rowVars, room, spoken>>
  BY DEF FindsGrants
<1> HIDE DEF x
<1>5. Placed(x)
  BY <1>1, <1>3, <1>4 DEF Placed, LocksItsGrant, Clearing, Opening, Using, Uses
<1> QED
  BY <1>2, <1>3, <1>4, <1>5, StepPreserves

\* Whoever opens the bot uses the grant that is live, or one that nobody knows.
LEMMA IssuesPreserves ==
  ASSUME TrustInv, NEW p \in Transactions, Issues(p)
  PROVE  TrustInv'
<1>0. /\ tx[p] \in Transaction /\ Placed(tx[p]) /\ OneIsLive /\ Live \subseteq Grants
      /\ \A t \in Transactions : LocksItsGrant(tx[t])
  BY DEF TrustInv, TrustTypeOK, Transaction, RowsInv, Live, Placed
<1> PICK g \in Grants :
      /\ \/ g \in Live /\ MayOwn(p, Grant(g))
         \/ Live = {} /\ grants[g] = "none" /\ room[g] = "none" /\ \A t \in Transactions : tx[t].grant # g
      /\ tx' = [tx EXCEPT ![p].at = "authority", ![p].grant = g, ![p].own = @ \cup {Grant(g)}]
  BY DEF Issues
<1>1. Live \subseteq {g}
  BY <1>0 DEF OneIsLive
<1>2. MayOwn(p, Grant(g))
  BY <1>0 DEF MayOwn, Others, LocksItsGrant
<1>3. tx[p].do = "open" /\ tx[p].at = "grants" /\ UNCHANGED <<rowVars, room, spoken>>
  BY DEF Issues, Is
<1>4. \A h \in Grants : Grant(h) \notin tx[p].own \cup tx[p].share
  BY <1>0, <1>3 DEF Placed, Opening
<1> DEFINE x == [tx[p] EXCEPT !.at = "authority", !.grant = g, !.own = tx[p].own \cup {Grant(g)}]
<1>5. x \in Transaction
  <2>1. Grant(g) \in Rows /\ "authority" \in Steps
    BY RowsDiffer DEF Steps
  <2> QED
    BY <1>0, <2>1 DEF Transaction
<1>6. /\ x.do = "open" /\ x.at = "authority" /\ x.grant = g /\ x.of = tx[p].of
      /\ x.share = tx[p].share /\ x.own = tx[p].own \cup {Grant(g)}
  BY <1>0, <1>3 DEF Transaction
<1>7. tx' = [tx EXCEPT ![p] = x]
  OBVIOUS
<1> HIDE DEF x
<1>8. LocksItsGrant(x)
  BY <1>4, <1>6, RowsDiffer DEF LocksItsGrant
<1>9. Opening(x)
  BY <1>0, <1>1, <1>3, <1>6 DEF Placed, Opening
<1>10. Clearing(x) /\ Using(x)
  BY <1>6 DEF Clearing, Using, Uses
<1> QED
  BY <1>2, <1>3, <1>5, <1>6, <1>7, <1>8, <1>9, <1>10, StepPreserves DEF Placed

-----------------------------------------------------------------------------
(***************************************************************************)
(* Steps that change rows                                                   *)
(***************************************************************************)

\* A transaction that commits leaves the others and the rows to be looked at; so does a
\* statement that is a transaction of its own.
LEMMA CommitPreserves ==
  ASSUME TrustInv, NEW p \in Transactions, Ends(p),
         tx' \in [Transactions -> Transaction] => TrustTypeOK', RowsInv',
         \A t \in Others(p) : tx'[t] = tx[t] => Placed(tx[t])'
  PROVE  TrustInv'
<1>0. tx \in [Transactions -> Transaction]
  BY DEF TrustInv, TrustTypeOK, Transaction
<1>1. tx' = [tx EXCEPT ![p] = Idle] /\ Idle.own = {} /\ Idle.share = {} /\ Idle.do = "none"
  BY DEF Ends, Idle
<1>2. tx'[p] = Idle /\ tx' \in [Transactions -> Transaction] /\ \A t \in Others(p) : tx'[t] = tx[t]
  BY <1>0, <1>1, IdlePlaced DEF Others
<1>3. Placed(tx[p])'
  BY <1>2 DEF Idle, Uses, Placed, LocksItsGrant, Clearing, Opening, Using
<1> QED
  BY <1>1, <1>2, <1>3, IdlePlaced, MovePreserves

LEMMA RowsPreserve ==
  ASSUME TrustInv, UNCHANGED tx, TrustTypeOK', RowsInv', \A t \in Transactions : Placed(tx[t])'
  PROVE  TrustInv'
BY DEF TrustInv, LocksInv, OneReceiver

\* What the triggers do.
LEMMA ClosesGives ==
  ASSUME TrustTypeOK, NEW gs \in SUBSET Grants, Closes(gs)
  PROVE  /\ conversation' \in [Grants -> {"none", "open", "closed"}]
         /\ \A g \in Grants : conversation'[g] = IF g \in gs \cap Open THEN "closed" ELSE conversation[g]
         /\ Open' = Open \ gs /\ retirements' = retirements \cup (gs \cap Open)
         /\ event' \in [Events -> Event]
         /\ \A e \in Events :
              /\ event'[e].grant = event[e].grant
              /\ \/ event[e].state = "active" /\ event'[e].state = "canceled"
                 \/ event'[e].state = event[e].state /\ (event[e].state = "active" => event[e].grant \notin gs)
<1>1. /\ conversation' \in [Grants -> {"none", "open", "closed"}]
      /\ \A g \in Grants : conversation'[g] = IF g \in gs \cap Open THEN "closed" ELSE conversation[g]
  BY DEF TrustTypeOK, Closes
<1>2. Open' = Open \ gs
  BY <1>1 DEF Open
<1>3. event \in [Events -> Event]
  BY DEF TrustTypeOK, Event
<1>4. ASSUME NEW e \in Events
      PROVE  /\ event'[e] \in Event /\ event'[e].grant = event[e].grant
             /\ \/ event[e].state = "active" /\ event'[e].state = "canceled"
                \/ event'[e].state = event[e].state /\ (event[e].state = "active" => event[e].grant \notin gs)
  <2>1. event'[e] = IF event[e].grant \in gs /\ event[e].state = "active"
                    THEN [event[e] EXCEPT !.state = "canceled"] ELSE event[e]
    BY DEF Closes
  <2>2. event[e] \in Event /\ "canceled" \in EventStates
    BY <1>3 DEF EventStates
  <2> QED
    BY <2>1, <2>2 DEF Event
<1>5. event' \in [Events -> Event]
  BY <1>4 DEF Closes
<1> QED
  BY <1>1, <1>2, <1>4, <1>5 DEF Closes

\* Closing conversations that nobody uses, with their grants or without, keeps what is said
\* of the rows and of whoever goes on.
LEMMA ClosingKeeps ==
  ASSUME TrustInv, NEW gs \in SUBSET Grants, Closes(gs), UNCHANGED room,
         grants' \in [Grants -> {"none", "live", "expired", "revoked"}],
         \A g \in Grants : grants'[g] = "none" <=> grants[g] = "none",
         Unrevoked' \subseteq Unrevoked, Live' \subseteq Live,
         \A g \in Open \ gs : grants'[g] = grants[g],
         Unrevoked' # {} => trusted'
  PROVE  /\ RowsInv'
         /\ \A g \in Grants : grants'[g] = "none" <=> conversation'[g] = "none"
         /\ retirements' \subseteq {g \in Grants : conversation'[g] = "closed"}
         /\ \A t \in Transactions :
              /\ tx'[t] = tx[t]
              /\ tx[t].do \in Uses /\ tx[t].at = "conversation" => tx[t].grant \notin gs
              => Placed(tx[t])'
<1>0. TrustTypeOK /\ RowsInv /\ \A t \in Transactions : Placed(tx[t])
  BY DEF TrustInv
<1>1. /\ \A g \in Grants : conversation'[g] = IF g \in gs \cap Open THEN "closed" ELSE conversation[g]
      /\ Open' = Open \ gs /\ retirements' = retirements \cup (gs \cap Open)
  BY <1>0, ClosesGives
<1>2. \A e \in Events :
        /\ event'[e].grant = event[e].grant
        /\ \/ event[e].state = "active" /\ event'[e].state = "canceled"
           \/ event'[e].state = event[e].state /\ (event[e].state = "active" => event[e].grant \notin gs)
  BY <1>0, ClosesGives
<1>3. OneIsLive' /\ GrantsNeedTrust'
  BY <1>0 DEF RowsInv, OneIsLive, GrantsNeedTrust
<1>4. ClosedIsQuiet'
  <2>1. \A g \in Open' : grants'[g] # "revoked"
    BY <1>0, <1>1 DEF RowsInv, ClosedIsQuiet
  <2>2. \A e \in Events : event'[e].state = "active" => event'[e].grant \in Open'
    BY <1>0, <1>1, <1>2 DEF RowsInv, ClosedIsQuiet
  <2> QED
    BY <2>1, <2>2 DEF ClosedIsQuiet
<1>5. ClosedRoomsAreLeft'
  BY <1>0, <1>1 DEF RowsInv, ClosedRoomsAreLeft
<1>6. /\ \A g \in Grants : grants'[g] = "none" <=> conversation'[g] = "none"
      /\ retirements' \subseteq {g \in Grants : conversation'[g] = "closed"}
  BY <1>0, <1>1 DEF TrustTypeOK, Open
<1>7. ASSUME NEW t \in Transactions, tx'[t] = tx[t],
             tx[t].do \in Uses /\ tx[t].at = "conversation" => tx[t].grant \notin gs
      PROVE  Placed(tx[t])'
  <2>1. Using(tx[t])
    BY <1>0 DEF Placed
  <2>2. tx[t].do \in Uses /\ tx[t].at = "conversation" => tx[t].grant \in Open'
    BY <1>1, <1>7, <2>1 DEF Using
  <2>3. \A g \in Grants : conversation[g] = "none" <=> conversation'[g] = "none"
    BY <1>1 DEF Open
  <2>4. tx[t].do \in {"receive", "answer"} => event'[tx[t].of].grant = event[tx[t].of].grant
    BY <1>2, <2>1 DEF Using, Uses
  <2>5. /\ tx[t].do = "receive" => event'[tx[t].of].state = "sent"
        /\ tx[t].do = "answer" => event'[tx[t].of].state \notin {"none", "sent"}
    BY <1>2, <2>1 DEF Using, Uses
  <2> QED
    BY <1>0, <1>7, <2>2, <2>3, <2>4, <2>5, StaysPlaced
<1> QED
  BY <1>3, <1>4, <1>5, <1>6, <1>7 DEF RowsInv

\* A conversation in use is open, and its row is shared.
LEMMA InUse ==
  ASSUME TrustInv, NEW t \in Transactions, tx[t].do \in Uses, tx[t].at = "conversation"
  PROVE  tx[t].grant \in Open /\ Conversation(tx[t].grant) \in tx[t].share
BY DEF TrustInv, Placed, Using

\* What a revocation makes of the grants.
LEMMA RevokesGives ==
  ASSUME TrustTypeOK, NEW gs \in SUBSET Grants, RevokesAll(gs), \A g \in gs : conversation[g] # "none"
  PROVE  /\ Closes(gs) /\ grants' \in [Grants -> {"none", "live", "expired", "revoked"}]
         /\ \A g \in Grants : grants'[g] = IF g \in gs THEN "revoked" ELSE grants[g]
         /\ \A g \in Grants : grants'[g] = "none" <=> grants[g] = "none"
         /\ Unrevoked' = Unrevoked \ gs /\ Live' = Live \ gs
<1>1. /\ grants' \in [Grants -> {"none", "live", "expired", "revoked"}]
      /\ \A g \in Grants : grants'[g] = IF g \in gs THEN "revoked" ELSE grants[g]
  BY DEF RevokesAll, TrustTypeOK
<1>2. Unrevoked' = Unrevoked \ gs /\ Live' = Live \ gs
  BY <1>1 DEF Unrevoked, Live
<1> QED
  BY <1>1, <1>2 DEF RevokesAll, TrustTypeOK

\* Trust that ends takes its grants with it, if it owned the edge; otherwise it was not
\* there when the transaction looked for it, and whoever restored it since keeps it.
LEMMA ClearsTrustPreserves ==
  ASSUME TrustInv, NEW p \in Transactions, ClearsTrust(p)
  PROVE  TrustInv'
<1> DEFINE gs == tx[p].seen
<1>0. TrustTypeOK /\ tx[p] \in Transaction /\ Placed(tx[p]) /\ RowsInv
  BY DEF TrustInv, TrustTypeOK, Transaction
<1>1. /\ tx[p].do \in {"end", "block"} /\ tx[p].at = "grants" /\ MayRevoke(p, gs) /\ RevokesAll(gs)
      /\ invites' \subseteq invites /\ trusted' = (trusted /\ Edge \notin tx[p].own)
      /\ blocked' = (blocked \/ tx[p].do = "block") /\ Ends(p) /\ UNCHANGED <<published, room, spoken>>
  BY DEF ClearsTrust
<1>2. gs \in SUBSET Grants
  BY <1>0 DEF Transaction
<1>3. \A g \in gs : conversation[g] # "none"
  BY <1>0, <1>1, <1>2 DEF Placed, Clearing
<1>4. Unrevoked' # {} => trusted'
  <2>1. Unrevoked' = Unrevoked \ gs
    BY <1>0, <1>1, <1>2, <1>3, RevokesGives
  <2>2. CASE Edge \in tx[p].own
    BY <1>0, <1>1, <2>1, <2>2 DEF Placed, Clearing
  <2>3. CASE Edge \notin tx[p].own
    BY <1>0, <1>1, <2>1, <2>3 DEF RowsInv, GrantsNeedTrust
  <2> QED
    BY <2>2, <2>3
<1>5. /\ Closes(gs) /\ grants' \in [Grants -> {"none", "live", "expired", "revoked"}]
      /\ \A g \in Grants : grants'[g] = "none" <=> grants[g] = "none"
      /\ Unrevoked' \subseteq Unrevoked /\ Live' \subseteq Live /\ \A g \in Open \ gs : grants'[g] = grants[g]
  BY <1>0, <1>1, <1>2, <1>3, RevokesGives DEF Open
<1>6. \A t \in Others(p) : tx[t].do \in Uses /\ tx[t].at = "conversation" => tx[t].grant \notin gs
  BY <1>1, InUse DEF MayRevoke, MayOwn, Others
<1> HIDE DEF gs
<1>7. RowsInv' /\ \A t \in Others(p) : tx'[t] = tx[t] => Placed(tx[t])'
  BY <1>1, <1>2, <1>4, <1>5, <1>6, ClosingKeeps DEF Others
<1>8. tx' \in [Transactions -> Transaction] => TrustTypeOK'
  <2>1. {trusted', blocked', published'} \subseteq BOOLEAN
    BY <1>0, <1>1 DEF TrustTypeOK
  <2>2. /\ conversation' \in [Grants -> {"none", "open", "closed"}] /\ event' \in [Events -> Event]
    BY <1>0, <1>2, <1>5, ClosesGives
  <2>3. /\ \A g \in Grants : grants'[g] = "none" <=> conversation'[g] = "none"
        /\ retirements' \subseteq {g \in Grants : conversation'[g] = "closed"}
    BY <1>1, <1>2, <1>4, <1>5, ClosingKeeps
  <2> QED
    BY <1>0, <1>1, <1>5, <2>1, <2>2, <2>3 DEF TrustTypeOK, Transaction, Event
<1> QED
  BY <1>1, <1>7, <1>8, CommitPreserves

\* A close that owns the rows it revokes.
LEMMA ClosesRoomPreserves ==
  ASSUME TrustInv, NEW p \in Transactions, ClosesRoom(p)
  PROVE  TrustInv'
<1> DEFINE gs == {tx[p].grant}
<1>0. TrustTypeOK /\ RowsInv
  BY DEF TrustInv
<1>1. /\ tx[p].do = "close" /\ tx[p].at = "conversation" /\ MayRevoke(p, gs) /\ RevokesAll(gs) /\ Ends(p)
      /\ UNCHANGED <<invites, trusted, blocked, published, room, spoken>>
  BY DEF ClosesRoom, Is
<1>2. tx[p].grant \in Open
  BY <1>1, InUse DEF Uses
<1>3. gs \in SUBSET Grants /\ \A g \in gs : conversation[g] # "none"
  BY <1>2 DEF Open
<1>4. \A t \in Others(p) : tx[t].do \in Uses /\ tx[t].at = "conversation" => tx[t].grant \notin gs
  BY <1>1, InUse DEF MayRevoke, MayOwn, Others
<1> HIDE DEF gs
<1>5. /\ Closes(gs) /\ grants' \in [Grants -> {"none", "live", "expired", "revoked"}]
      /\ \A g \in Grants : grants'[g] = "none" <=> grants[g] = "none"
      /\ Unrevoked' \subseteq Unrevoked /\ Live' \subseteq Live /\ \A g \in Open \ gs : grants'[g] = grants[g]
  BY <1>0, <1>1, <1>3, RevokesGives DEF Open
<1>6. Unrevoked' # {} => trusted'
  BY <1>0, <1>1, <1>5 DEF RowsInv, GrantsNeedTrust
<1>7. /\ RowsInv' /\ \A t \in Others(p) : tx'[t] = tx[t] => Placed(tx[t])'
      /\ \A g \in Grants : grants'[g] = "none" <=> conversation'[g] = "none"
      /\ retirements' \subseteq {g \in Grants : conversation'[g] = "closed"}
  BY <1>1, <1>3, <1>4, <1>5, <1>6, ClosingKeeps DEF Others
<1>8. /\ conversation' \in [Grants -> {"none", "open", "closed"}] /\ event' \in [Events -> Event]
  BY <1>0, <1>3, <1>5, ClosesGives
<1>9. tx' \in [Transactions -> Transaction] => TrustTypeOK'
  BY <1>0, <1>1, <1>5, <1>7, <1>8 DEF TrustTypeOK, Transaction, Event
<1> QED
  BY <1>1, <1>7, <1>9, CommitPreserves

\* The owner's revocation, and what the homeserver tells of who left.
LEMMA RevocationsPreserve ==
  ASSUME TrustInv, NEW g \in Grants, RevokesGrant(g) \/ IsLeft(g)
  PROVE  TrustInv'
<1> DEFINE gs == {g}
<1>0. TrustTypeOK /\ RowsInv
  BY DEF TrustInv
<1>1. /\ g \in Unrevoked \/ g \in Open
      /\ Revocable(g) /\ RevokesAll(gs) /\ UNCHANGED <<invites, trusted, blocked, published, room, spoken, tx>>
  BY DEF RevokesGrant, IsLeft
<1>2. gs \in SUBSET Grants /\ \A h \in gs : conversation[h] # "none"
  BY <1>0, <1>1 DEF Open, Unrevoked, TrustTypeOK
<1>3. \A t \in Transactions : tx[t].do \in Uses /\ tx[t].at = "conversation" => tx[t].grant \notin gs
  BY <1>1, InUse DEF Revocable, Unlocked
<1> HIDE DEF gs
<1>4. /\ Closes(gs) /\ grants' \in [Grants -> {"none", "live", "expired", "revoked"}]
      /\ \A h \in Grants : grants'[h] = "none" <=> grants[h] = "none"
      /\ Unrevoked' \subseteq Unrevoked /\ Live' \subseteq Live /\ \A h \in Open \ gs : grants'[h] = grants[h]
  BY <1>0, <1>1, <1>2, RevokesGives DEF Open
<1>5. Unrevoked' # {} => trusted'
  BY <1>0, <1>1, <1>4 DEF RowsInv, GrantsNeedTrust
<1>6. /\ RowsInv' /\ \A t \in Transactions : Placed(tx[t])'
      /\ \A h \in Grants : grants'[h] = "none" <=> conversation'[h] = "none"
      /\ retirements' \subseteq {h \in Grants : conversation'[h] = "closed"}
  BY <1>1, <1>2, <1>3, <1>4, <1>5, ClosingKeeps
<1>7. /\ conversation' \in [Grants -> {"none", "open", "closed"}] /\ event' \in [Events -> Event]
  BY <1>0, <1>2, <1>4, ClosesGives
<1>8. TrustTypeOK'
  BY <1>0, <1>1, <1>4, <1>6, <1>7 DEF TrustTypeOK, Event
<1> QED
  BY <1>1, <1>6, <1>8, RowsPreserve

\* The sweep closes conversations and leaves their grants.
LEMMA SweepsPreserves ==
  ASSUME TrustInv, Sweeps
  PROVE  TrustInv'
<1> DEFINE gs == {g \in Open : grants[g] # "live" \/ ~published}
<1>0. TrustTypeOK /\ RowsInv
  BY DEF TrustInv
<1>1. /\ \A g \in gs : Unlocked(Conversation(g))
      /\ Closes(gs) /\ UNCHANGED <<invites, trusted, blocked, published, grants, room, spoken, tx>>
  BY DEF Sweeps
<1>2. gs \in SUBSET Grants
  BY DEF Open
<1>3. \A t \in Transactions : tx[t].do \in Uses /\ tx[t].at = "conversation" => tx[t].grant \notin gs
  BY <1>1, InUse DEF Unlocked
<1> HIDE DEF gs
<1>4. /\ grants' \in [Grants -> {"none", "live", "expired", "revoked"}]
      /\ \A h \in Grants : grants'[h] = "none" <=> grants[h] = "none"
      /\ Unrevoked' \subseteq Unrevoked /\ Live' \subseteq Live /\ \A h \in Open \ gs : grants'[h] = grants[h]
  BY <1>0, <1>1 DEF Unrevoked, Live, TrustTypeOK
<1>5. Unrevoked' # {} => trusted'
  BY <1>0, <1>1, <1>4 DEF RowsInv, GrantsNeedTrust
<1>6. /\ RowsInv' /\ \A t \in Transactions : Placed(tx[t])'
      /\ \A h \in Grants : grants'[h] = "none" <=> conversation'[h] = "none"
      /\ retirements' \subseteq {h \in Grants : conversation'[h] = "closed"}
  BY <1>1, <1>2, <1>3, <1>4, <1>5, ClosingKeeps
<1>7. /\ conversation' \in [Grants -> {"none", "open", "closed"}] /\ event' \in [Events -> Event]
  BY <1>0, <1>1, <1>2, ClosesGives
<1>8. TrustTypeOK'
  BY <1>0, <1>1, <1>4, <1>6, <1>7 DEF TrustTypeOK, Event
<1> QED
  BY <1>1, <1>6, <1>8, RowsPreserve

\* Steps that leave grants, conversations and messages as they are.
LEMMA SamePlaces ==
  ASSUME TrustInv, UNCHANGED <<grants, conversation, event>>
  PROVE  \A t \in Transactions : tx'[t] = tx[t] => Placed(tx[t])'
BY DEF TrustInv, Placed, LocksItsGrant, Clearing, Opening, Using, Unrevoked, Live, Open

LEMMA SameRows ==
  ASSUME TrustInv, UNCHANGED <<grants, conversation, event, retirements, room>>, trusted => trusted'
  PROVE  RowsInv'
BY DEF TrustInv, RowsInv, OneIsLive, GrantsNeedTrust, ClosedIsQuiet, ClosedRoomsAreLeft, Unrevoked, Live, Open

LEMMA InvitationsPreserve ==
  ASSUME TrustInv, NEW p \in Transactions, Invites(p) \/ AnswersTrust(p)
  PROVE  TrustInv'
<1>0. TrustTypeOK /\ Placed(tx[p])
  BY DEF TrustInv
<1>1. /\ Ends(p) /\ UNCHANGED <<blocked, published, grants, conversation, retirements, room, event, spoken>>
      /\ trusted' \in {trusted, TRUE}
      /\ \/ Is(p, "invite", "invites") /\ invites' = invites \cup {tx[p].of}
         \/ invites' = invites \ {tx[p].of}
  BY DEF Invites, AnswersTrust
<1>2. invites' \subseteq Pair
  BY <1>0, <1>1 DEF TrustTypeOK, Is, Placed, Using
<1>3. tx' \in [Transactions -> Transaction] => TrustTypeOK'
  BY <1>0, <1>1, <1>2 DEF TrustTypeOK, Transaction
<1>4. RowsInv'
  <2>1. trusted => trusted'
    BY DEF Invites, AnswersTrust
  <2> QED
    BY <1>1, <2>1, SameRows
<1>5. \A t \in Others(p) : tx'[t] = tx[t] => Placed(tx[t])'
  BY <1>1, SamePlaces DEF Others
<1> QED
  BY <1>1, <1>3, <1>4, <1>5, CommitPreserves

LEMMA SavesBotPreserves ==
  ASSUME TrustInv, SavesBot
  PROVE  TrustInv'
<1>1. published' \in BOOLEAN
      /\ UNCHANGED <<invites, trusted, blocked, grants, conversation, retirements, room, event, spoken, tx>>
  BY DEF SavesBot, TrustInv, TrustTypeOK
<1>2. TrustTypeOK'
  BY <1>1 DEF TrustInv, TrustTypeOK
<1> QED
  BY <1>1, <1>2, SamePlaces, SameRows, RowsPreserve

LEMMA RetiresPreserves ==
  ASSUME TrustInv, NEW g \in Grants, Retires(g)
  PROVE  TrustInv'
<1>0. TrustTypeOK /\ RowsInv
  BY DEF TrustInv
<1>1. /\ room' = [room EXCEPT ![g] = "left"] /\ retirements' \in {retirements, retirements \ {g}}
      /\ UNCHANGED <<invites, trusted, blocked, published, grants, conversation, event, spoken, tx>>
  BY DEF Retires
<1>2. room'[g] = "left" /\ \A h \in Grants \ {g} : room'[h] = room[h]
  BY <1>0, <1>1 DEF TrustTypeOK
<1>3. ClosedRoomsAreLeft'
  BY <1>0, <1>1, <1>2 DEF RowsInv, ClosedRoomsAreLeft
<1>4. RowsInv'
  BY <1>0, <1>1, <1>3 DEF RowsInv, OneIsLive, GrantsNeedTrust, ClosedIsQuiet, Unrevoked, Live, Open
<1>5. TrustTypeOK'
  BY <1>0, <1>1 DEF TrustTypeOK
<1> QED
  BY <1>1, <1>4, <1>5, SamePlaces, RowsPreserve

LEMMA ExpiresPreserves ==
  ASSUME TrustInv, NEW g \in Grants, Expires(g)
  PROVE  TrustInv'
<1>0. TrustTypeOK /\ RowsInv /\ \A t \in Transactions : Placed(tx[t])
  BY DEF TrustInv
<1>1. /\ g \in Live /\ grants' = [grants EXCEPT ![g] = "expired"]
      /\ UNCHANGED <<invites, trusted, blocked, published, conversation, retirements, room, event, spoken, tx>>
  BY DEF Expires
<1>2. /\ grants' \in [Grants -> {"none", "live", "expired", "revoked"}]
      /\ grants'[g] = "expired" /\ \A h \in Grants \ {g} : grants'[h] = grants[h]
  BY <1>0, <1>1 DEF TrustTypeOK
<1>3. Unrevoked' = Unrevoked /\ Live' \subseteq Live /\ Open' = Open
  BY <1>1, <1>2 DEF Unrevoked, Live, Open
<1>4. TrustTypeOK'
  BY <1>0, <1>1, <1>2 DEF TrustTypeOK, Live
<1>5. RowsInv'
  BY <1>0, <1>1, <1>2, <1>3 DEF RowsInv, OneIsLive, GrantsNeedTrust, ClosedIsQuiet, ClosedRoomsAreLeft
<1>6. \A t \in Transactions : Placed(tx[t])'
  BY <1>0, <1>1, <1>3 DEF Placed, LocksItsGrant, Clearing, Opening, Using
<1> QED
  BY <1>1, <1>4, <1>5, <1>6, RowsPreserve

\* A conversation is created for the grant of the one transaction that opens the bot, while
\* the edge is shared and nobody is ending trust.
LEMMA OpensPreserves ==
  ASSUME TrustInv, NEW p \in Transactions, Opens(p)
  PROVE  TrustInv'
<1> DEFINE g == tx[p].grant
<1>0. /\ TrustTypeOK /\ RowsInv /\ LocksInv /\ \A t \in Transactions : Placed(tx[t])
  BY DEF TrustInv
<1>1. /\ tx[p].do = "open" /\ tx[p].at = "room" /\ Trusting /\ Ends(p)
      /\ grants' = [grants EXCEPT ![g] = "live"] /\ conversation' = [conversation EXCEPT ![g] = "open"]
      /\ UNCHANGED <<invites, trusted, blocked, published, retirements, room, event, spoken>>
  BY DEF Opens, Is
<1>2. /\ g \in Grants /\ Live \subseteq {g} /\ conversation[g] = "none"
      /\ Bot \in tx[p].own /\ Edge \in tx[p].share
  BY <1>0, <1>1 DEF Placed, Opening
<1>3. /\ grants' \in [Grants -> {"none", "live", "expired", "revoked"}]
      /\ grants'[g] = "live" /\ \A h \in Grants \ {g} : grants'[h] = grants[h]
      /\ conversation' \in [Grants -> {"none", "open", "closed"}]
      /\ conversation'[g] = "open" /\ \A h \in Grants \ {g} : conversation'[h] = conversation[h]
  BY <1>0, <1>1, <1>2 DEF TrustTypeOK
<1> HIDE DEF g
<1>4. Live' = {g} /\ Open' = Open \cup {g}
  BY <1>2, <1>3 DEF Live, Open
<1>5. tx' \in [Transactions -> Transaction] => TrustTypeOK'
  BY <1>0, <1>1, <1>2, <1>3 DEF TrustTypeOK, Transaction
<1>6. RowsInv'
  <2>1. OneIsLive' /\ GrantsNeedTrust'
    BY <1>1, <1>4 DEF OneIsLive, GrantsNeedTrust, Trusting
  <2>2. ClosedIsQuiet'
    BY <1>0, <1>1, <1>3, <1>4 DEF RowsInv, ClosedIsQuiet
  <2>3. ClosedRoomsAreLeft'
    BY <1>0, <1>1, <1>3 DEF RowsInv, ClosedRoomsAreLeft
  <2> QED
    BY <2>1, <2>2, <2>3 DEF RowsInv
<1>7. ASSUME NEW t \in Others(p), tx'[t] = tx[t] PROVE Placed(tx[t])'
  <2>1. t \in Transactions /\ Placed(tx[t]) /\ Bot \notin tx[t].own /\ Edge \notin tx[t].own
    BY <1>0, <1>2 DEF LocksInv, Others
  <2>2. tx[t].do # "open"
    BY <2>1 DEF Placed, Opening
  <2>3. \A h \in Grants : conversation[h] # "none" => conversation'[h] # "none"
    BY <1>3
  <2>4. tx[t].do \in Uses /\ tx[t].at = "conversation" => tx[t].grant \in Open'
    BY <1>4, <2>1 DEF Placed, Using
  <2>5. /\ tx[t].do = "receive" => event'[tx[t].of].state = "sent"
        /\ tx[t].do = "answer" => event'[tx[t].of].state \notin {"none", "sent"}
    BY <1>1, <2>1 DEF Placed, Using
  <2> QED
    BY <1>1, <1>7, <2>1, <2>2, <2>3, <2>4, <2>5, StaysPlaced
<1> QED
  BY <1>1, <1>5, <1>6, <1>7, CommitPreserves

\* A message moves on: to be worked on in a conversation that is open, or to an end.
LEMMA BecomesKeeps ==
  ASSUME TrustInv, NEW e \in Events, NEW s \in EventStates \ {"none", "sent"}, Becomes(e, s),
         UNCHANGED <<trusted, grants, conversation, retirements, room>>,
         s = "active" => event[e].grant \in Open
  PROVE  /\ event' \in [Events -> Event] /\ RowsInv'
         /\ \A t \in Transactions :
              tx'[t] = tx[t] /\ (tx[t].do = "receive" => tx[t].of # e) => Placed(tx[t])'
<1>0. event \in [Events -> Event] /\ RowsInv /\ \A t \in Transactions : Placed(tx[t])
  BY DEF TrustInv, TrustTypeOK, Event
<1>1. event' = [event EXCEPT ![e] = [event[e] EXCEPT !.state = s]]
  BY DEF Becomes
<1>2. [event[e] EXCEPT !.state = s] \in Event
  BY <1>0 DEF Event
<1>3. event' \in [Events -> Event] /\ event'[e].state = s /\ event'[e].grant = event[e].grant
  BY <1>0, <1>1, <1>2 DEF Event
<1>4. \A d \in Events \ {e} : event'[d] = event[d]
  BY <1>0, <1>1
<1>5. Unrevoked' = Unrevoked /\ Live' = Live /\ Open' = Open
  BY DEF Unrevoked, Live, Open
<1>6. ClosedIsQuiet'
  BY <1>0, <1>3, <1>4, <1>5 DEF RowsInv, ClosedIsQuiet
<1>7. RowsInv'
  BY <1>0, <1>5, <1>6 DEF RowsInv, OneIsLive, GrantsNeedTrust, ClosedRoomsAreLeft
<1>8. ASSUME NEW t \in Transactions, tx'[t] = tx[t], tx[t].do = "receive" => tx[t].of # e
      PROVE  Placed(tx[t])'
  <2>1. Using(tx[t])
    BY <1>0 DEF Placed
  <2>2. tx[t].do \in {"receive", "answer"} => event'[tx[t].of].grant = event[tx[t].of].grant
    BY <1>3, <1>4, <2>1 DEF Using, Uses
  <2>3. tx[t].do = "receive" => event'[tx[t].of].state = "sent"
    BY <1>4, <1>8, <2>1 DEF Using, Uses
  <2>4. tx[t].do = "answer" => event'[tx[t].of].state \notin {"none", "sent"}
    BY <1>3, <1>4, <2>1 DEF Using, Uses
  <2>5. tx[t].do \in Uses /\ tx[t].at = "conversation" => tx[t].grant \in Open'
    BY <1>5, <2>1 DEF Using
  <2> QED
    BY <1>0, <1>5, <1>8, <2>2, <2>3, <2>4, <2>5, StaysPlaced
<1> QED
  BY <1>3, <1>7, <1>8

\* Whoever receives a message, or records its answer, is the one who has it.
LEMMA MessagesPreserve ==
  ASSUME TrustInv, NEW p \in Transactions, Refuses(p) \/ Receives(p) \/ Records(p)
  PROVE  TrustInv'
<1>0. TrustTypeOK /\ OneReceiver /\ \A t \in Transactions : Using(tx[t])
  BY DEF TrustInv, Placed
<1>1. /\ Ends(p) /\ UNCHANGED <<invites, trusted, blocked, published, grants, conversation, retirements, room, spoken>>
      /\ {"refused", "active", "answered"} \subseteq EventStates \ {"none", "sent"}
  BY DEF Refuses, Receives, Records, EventStates
<1>2. CASE Records(p) /\ tx[p].do # "answer"
  <2>1. event' = event
    BY <1>2 DEF Records
  <2>2. tx' \in [Transactions -> Transaction] => TrustTypeOK'
    BY <1>0, <1>1, <2>1 DEF TrustTypeOK, Transaction
  <2>3. RowsInv' /\ \A t \in Others(p) : tx'[t] = tx[t] => Placed(tx[t])'
    BY <1>1, <2>1, SamePlaces, SameRows DEF Others
  <2> QED
    BY <1>1, <2>2, <2>3, CommitPreserves
<1>3. CASE Refuses(p) \/ Receives(p) \/ (Records(p) /\ tx[p].do = "answer")
  <2>1. /\ tx[p].do \in {"receive", "answer"} /\ tx[p].of \in Events
        /\ \A t \in Others(p) : tx[t].do = "receive" => tx[t].of # tx[p].of
    <3>1. tx[p].do \in {"receive", "answer"}
      BY <1>3 DEF Refuses, Receives, Records, Is
    <3>2. \A t \in Others(p) : tx[t].do = "receive" /\ tx[p].do = "receive" => FALSE
      BY <1>0 DEF OneReceiver, Others
    <3>3. \A t \in Others(p) : tx[t].do = "receive" /\ tx[p].do = "answer" => tx[t].of # tx[p].of
      BY <1>0 DEF Using, Others
    <3> QED
      BY <1>0, <3>1, <3>2, <3>3 DEF Using, Uses
  <2>2. \/ Becomes(tx[p].of, "refused") \/ Becomes(tx[p].of, "answered")
        \/ Becomes(tx[p].of, "active") /\ event[tx[p].of].grant \in Open
    <3>1. CASE Receives(p)
      BY <1>0, <3>1 DEF Receives, Is, Using, Uses
    <3> QED
      BY <1>3, <3>1 DEF Refuses, Records
  <2>3. /\ event' \in [Events -> Event] /\ RowsInv'
        /\ \A t \in Others(p) : tx'[t] = tx[t] => Placed(tx[t])'
    <3>1. UNCHANGED <<trusted, grants, conversation, retirements, room>>
      BY <1>1
    <3>2. CASE Becomes(tx[p].of, "refused")
      BY <1>1, <2>1, <3>1, <3>2, BecomesKeeps DEF Others
    <3>3. CASE Becomes(tx[p].of, "answered")
      BY <1>1, <2>1, <3>1, <3>3, BecomesKeeps DEF Others
    <3>4. CASE Becomes(tx[p].of, "active") /\ event[tx[p].of].grant \in Open
      BY <1>1, <2>1, <3>1, <3>4, BecomesKeeps DEF Others
    <3> QED
      BY <2>2, <3>2, <3>3, <3>4
  <2>4. tx' \in [Transactions -> Transaction] => TrustTypeOK'
    BY <1>0, <1>1, <2>3 DEF TrustTypeOK, Transaction, Event
  <2> QED
    BY <1>1, <2>3, <2>4, CommitPreserves
<1> QED
  BY <1>2, <1>3

\* Messages that no transaction has.
LEMMA LooseMessagesPreserve ==
  ASSUME TrustInv, NEW e \in Events, Ignores(e) \/ Finishes(e)
  PROVE  TrustInv'
<1>0. TrustTypeOK /\ \A t \in Transactions : Using(tx[t])
  BY DEF TrustInv, Placed
<1>1. /\ UNCHANGED <<invites, trusted, blocked, published, grants, conversation, retirements, room, spoken, tx>>
      /\ {"refused", "done"} \subseteq EventStates \ {"none", "sent"}
      /\ Becomes(e, "refused") \/ Becomes(e, "done")
  BY DEF Ignores, Finishes, EventStates
<1>2. \A t \in Transactions : tx[t].do = "receive" => tx[t].of # e
  BY <1>0 DEF Ignores, Finishes, Using
<1>3. /\ event' \in [Events -> Event] /\ RowsInv'
      /\ \A t \in Transactions : Placed(tx[t])'
  <2>1. UNCHANGED <<trusted, grants, conversation, retirements, room>> /\ \A t \in Transactions : tx'[t] = tx[t]
    BY <1>1
  <2>2. CASE Becomes(e, "refused")
    BY <1>1, <1>2, <2>1, <2>2, BecomesKeeps
  <2>3. CASE Becomes(e, "done")
    BY <1>1, <1>2, <2>1, <2>3, BecomesKeeps
  <2> QED
    BY <1>1, <2>2, <2>3
<1>4. TrustTypeOK'
  BY <1>0, <1>1, <1>3 DEF TrustTypeOK, Event
<1> QED
  BY <1>1, <1>3, <1>4, RowsPreserve

-----------------------------------------------------------------------------
(***************************************************************************)
(* Steps that ask something of the homeserver, and go on                    *)
(***************************************************************************)

LEMMA GoesAs ==
  ASSUME TrustInv, NEW p \in Transactions, NEW step \in Steps, Goes(p, step, {}, {})
  PROVE  \E x \in Transaction : Gone(x, tx[p], step, {}, {}) /\ tx' = [tx EXCEPT ![p] = x] /\ tx'[p] = x
<1> DEFINE x == [tx[p] EXCEPT !.at = step, !.share = tx[p].share \cup {}, !.own = tx[p].own \cup {}]
<1>1. tx \in [Transactions -> Transaction] /\ tx[p] \in Transaction
  BY DEF TrustInv, TrustTypeOK, Transaction
<1>2. x \in Transaction
  BY <1>1 DEF Transaction
<1>3. Gone(x, tx[p], step, {}, {})
  BY <1>1 DEF Transaction, Gone
<1>4. tx' = [tx EXCEPT ![p] = x] /\ tx'[p] = x
  BY <1>1 DEF Goes
<1> QED
  BY <1>2, <1>3, <1>4

\* The room of a conversation that is not there yet.
LEMMA CreatesRoomPreserves ==
  ASSUME TrustInv, NEW p \in Transactions, CreatesRoom(p)
  PROVE  TrustInv'
<1>0. TrustTypeOK /\ RowsInv /\ Placed(tx[p]) /\ tx \in [Transactions -> Transaction]
  BY DEF TrustInv, TrustTypeOK, Transaction
<1>1. /\ tx[p].do = "open" /\ tx[p].at = "trust" /\ conversation[tx[p].grant] = "none"
      /\ room' = [room EXCEPT ![tx[p].grant] = "joined"] /\ Goes(p, "room", {}, {}) /\ "room" \in Steps
      /\ UNCHANGED <<invites, trusted, blocked, published, grants, conversation, retirements, event, spoken>>
  BY DEF CreatesRoom, Is, Steps, rowVars
<1>2. PICK x \in Transaction :
        Gone(x, tx[p], "room", {}, {}) /\ tx' = [tx EXCEPT ![p] = x] /\ tx'[p] = x
  BY <1>1, GoesAs
<1>3. tx' \in [Transactions -> Transaction] /\ \A t \in Others(p) : tx'[t] = tx[t]
  BY <1>0, <1>2 DEF Others
<1>4. room' \in [Grants -> {"none", "joined", "left"}] /\ \A g \in Grants : g # tx[p].grant => room'[g] = room[g]
  BY <1>0, <1>1 DEF TrustTypeOK
<1>5. TrustTypeOK'
  BY <1>0, <1>1, <1>3, <1>4 DEF TrustTypeOK, Transaction
<1>6. ClosedRoomsAreLeft'
  BY <1>0, <1>1, <1>4 DEF RowsInv, ClosedRoomsAreLeft
<1>7. RowsInv'
  BY <1>0, <1>1, <1>6 DEF RowsInv, OneIsLive, GrantsNeedTrust, ClosedIsQuiet, Unrevoked, Live, Open
<1>8. Placed(tx[p])'
  BY <1>0, <1>1, <1>2 DEF Gone, Placed, LocksItsGrant, Clearing, Opening, Using, Uses, Live
<1>9. \A t \in Others(p) : Placed(tx[t])'
  BY <1>1, <1>3, SamePlaces DEF Others
<1> QED
  BY <1>1, <1>2, <1>5, <1>7, <1>8, <1>9, MovePreserves DEF Gone

\* A message that was not sent before, and an answer to one.
LEMMA SaysPreserve ==
  ASSUME TrustInv, NEW p \in Transactions, Sends(p) \/ Speaks(p)
  PROVE  TrustInv'
<1>0. /\ TrustTypeOK /\ RowsInv /\ tx \in [Transactions -> Transaction] /\ event \in [Events -> Event]
      /\ \A t \in Transactions : Placed(tx[t])
  BY DEF TrustInv, TrustTypeOK, Transaction, Event
<1>1. /\ tx[p].do \in {"send", "answer"} /\ tx[p].at = "conversation" /\ Goes(p, "said", {}, {}) /\ "said" \in Steps
      /\ UNCHANGED <<invites, trusted, blocked, published, grants, conversation, retirements, room>>
      /\ spoken' \in {spoken, spoken \cup {tx[p].of}}
  BY DEF Sends, Speaks, Is, Steps, rowVars
<1>2. PICK x \in Transaction :
        Gone(x, tx[p], "said", {}, {}) /\ tx' = [tx EXCEPT ![p] = x] /\ tx'[p] = x
  BY <1>1, GoesAs
<1>3. tx' \in [Transactions -> Transaction] /\ \A t \in Others(p) : tx'[t] = tx[t]
  BY <1>0, <1>2 DEF Others
<1>4. tx[p].of \in Events /\ tx[p].grant \in Grants
  BY <1>0, <1>1 DEF Placed, Using, Uses
<1>5. /\ event' \in [Events -> Event]
      /\ \A e \in Events : \/ event'[e] = event[e]
                           \/ event[e].state = "none" /\ event'[e].state = "sent"
  <2>1. CASE event' = event
    BY <1>0, <2>1
  <2>2. CASE /\ event[tx[p].of].state = "none"
             /\ event' = [event EXCEPT ![tx[p].of] = [state |-> "sent", grant |-> tx[p].grant]]
    <3>1. [state |-> "sent", grant |-> tx[p].grant] \in Event
      BY <1>4 DEF Event, EventStates
    <3> QED
      BY <1>0, <2>2, <3>1
  <2> QED
    BY <2>1, <2>2 DEF Sends, Speaks, rowVars
<1>6. TrustTypeOK'
  BY <1>0, <1>1, <1>3, <1>4, <1>5 DEF TrustTypeOK, Transaction, Event
<1>7. ClosedIsQuiet'
  BY <1>0, <1>1, <1>5 DEF RowsInv, ClosedIsQuiet, Open
<1>8. RowsInv'
  BY <1>0, <1>1, <1>7 DEF RowsInv, OneIsLive, GrantsNeedTrust, ClosedRoomsAreLeft, Unrevoked, Live, Open
<1>9. \A t \in Transactions : tx[t].do \in {"receive", "answer"} => event'[tx[t].of] = event[tx[t].of]
  BY <1>0, <1>5 DEF Placed, Using, Uses
<1>10. \A t \in Others(p) : Placed(tx[t])'
  BY <1>0, <1>1, <1>3, <1>9
     DEF Others, Placed, LocksItsGrant, Clearing, Opening, Using, Uses, Unrevoked, Live, Open
<1>11. Placed(tx[p])'
  BY <1>0, <1>1, <1>2, <1>9 DEF Gone, Placed, LocksItsGrant, Clearing, Opening, Using, Uses
<1> QED
  BY <1>1, <1>2, <1>6, <1>8, <1>10, <1>11, MovePreserves DEF Gone

-----------------------------------------------------------------------------
(***************************************************************************)
(* The theorems                                                             *)
(***************************************************************************)

\* TrustInv is inductive.
THEOREM TrustInvInductive ==
  /\ TrustInit => TrustInv
  /\ TrustInv /\ [TrustNext]_trustVars => TrustInv'
<1>1. ASSUME TrustInv, NEW p \in Transactions,
             \/ Aborts(p) \/ AsksTrust(p) \/ Invites(p) \/ RepliesToTrust(p) \/ AnswersTrust(p)
             \/ DropsInvites(p) \/ DropsEdge(p) \/ FindsGrants(p) \/ ClearsTrust(p)
             \/ Resolves(p) \/ Issues(p) \/ Secures(p) \/ Reopens(p) \/ CreatesRoom(p) \/ Opens(p)
             \/ Finds(p) \/ SharesGrant(p) \/ SharesTrust(p) \/ SharesConversation(p)
             \/ Refuses(p) \/ Receives(p) \/ Sends(p) \/ Speaks(p) \/ Records(p) \/ ClosesRoom(p)
      PROVE  TrustInv'
  <2>1. CASE Aborts(p) \/ Reopens(p)
    BY <1>1, <2>1, AbortsPreserve DEF Aborts, Reopens
  <2>2. CASE AsksTrust(p) \/ RepliesToTrust(p) \/ DropsInvites(p) \/ Resolves(p) \/ Finds(p)
    BY <1>1, <2>2, FirstStatementsPreserve
  <2>3. CASE DropsEdge(p) \/ Secures(p) \/ SharesGrant(p) \/ SharesTrust(p) \/ SharesConversation(p)
    BY <1>1, <2>3, NextStatementsPreserve
  <2>4. CASE FindsGrants(p) \/ ClearsTrust(p) \/ Issues(p) \/ Opens(p)
    BY <1>1, <2>4, FindsGrantsPreserves, ClearsTrustPreserves, IssuesPreserves, OpensPreserves
  <2>5. CASE Invites(p) \/ AnswersTrust(p)
    BY <1>1, <2>5, InvitationsPreserve
  <2>6. CASE CreatesRoom(p) \/ Sends(p) \/ Speaks(p)
    BY <1>1, <2>6, CreatesRoomPreserves, SaysPreserve
  <2>7. CASE Refuses(p) \/ Receives(p) \/ Records(p) \/ ClosesRoom(p)
    BY <1>1, <2>7, MessagesPreserve, ClosesRoomPreserves
  <2> QED
    BY <1>1, <2>1, <2>2, <2>3, <2>4, <2>5, <2>6, <2>7
<1>2. ASSUME TrustInv, NEW g \in Grants, RevokesGrant(g) \/ IsLeft(g) \/ Retires(g) \/ Expires(g)
      PROVE  TrustInv'
  BY <1>2, RevocationsPreserve, RetiresPreserves, ExpiresPreserves
<1>3. ASSUME TrustInv, UNCHANGED trustVars PROVE TrustInv'
  BY <1>3, SamePlaces, SameRows, RowsPreserve DEF trustVars, TrustInv, TrustTypeOK
<1> QED
  BY <1>1, <1>2, <1>3, InitTrustInv, LooseMessagesPreserve, SavesBotPreserves, SweepsPreserves DEF TrustNext

\* What the runs check is part of TrustInv.
LEMMA TrustInvImpliesSafe ==
  TrustInv => TrustTypeOK /\ GrantsNeedTrust /\ OneLiveGrant /\ ClosedIsQuiet /\ ClosedRoomsAreLeft
<1> SUFFICES ASSUME TrustInv PROVE OneLiveGrant
  BY DEF TrustInv, RowsInv
<1>1. Live = {} \/ \E g \in Live : Live = {g}
  BY DEF TrustInv, RowsInv, OneIsLive
<1>2. CASE Live = {}
  <2> Cardinality(Live) = 0
    BY <1>2, FS_EmptySet
  <2> QED
    BY DEF OneLiveGrant
<1>3. CASE \E g \in Live : Live = {g}
  <2> Cardinality(Live) = 1
    BY <1>3, FS_Singleton
  <2> QED
    BY DEF OneLiveGrant
<1> QED
  BY <1>1, <1>2, <1>3

\* Whatever runs at the same time and wherever it aborts: no grant outlives the trust it was
\* issued under, one is live at a time, and a conversation that is closed is quiet and its
\* room is left, or will be.
THEOREM TrustSafe ==
  TrustSpec => [](TrustTypeOK /\ GrantsNeedTrust /\ OneLiveGrant /\ ClosedIsQuiet /\ ClosedRoomsAreLeft)
<1>1. TrustInv /\ [TrustNext]_trustVars => TrustInv'
  BY TrustInvInductive
<1> QED
  BY <1>1, TrustInvInductive, TrustInvImpliesSafe, PTL DEF TrustSpec

\* An answer is spoken into a conversation that is open, between people who trust each
\* other, under a grant that is not revoked.
LEMMA SpeaksTrusted ==
  TrustInv /\ [TrustNext]_trustVars => AnswersAreTrusted
<1> SUFFICES ASSUME TrustInv, [TrustNext]_trustVars, NEW e \in spoken' \ spoken
             PROVE  trusted /\ event[e].grant \in Open /\ grants[event[e].grant] # "revoked"
  BY DEF AnswersAreTrusted
<1>1. PICK p \in Transactions : Speaks(p)
  BY DEF TrustNext, trustVars, rowVars, Aborts, AsksTrust, Invites, RepliesToTrust, AnswersTrust, DropsInvites,
         DropsEdge, FindsGrants, ClearsTrust, Resolves, Issues, Secures, Reopens, CreatesRoom, Opens, Finds,
         SharesGrant, SharesTrust, SharesConversation, Refuses, Receives, Sends, Records, ClosesRoom,
         RevokesGrant, IsLeft, Retires, Expires, Ignores, Finishes, SavesBot, Sweeps
<1>2. e = tx[p].of /\ tx[p].do = "answer" /\ tx[p].at = "conversation" /\ Trusting
  BY <1>1 DEF Speaks, Is
<1>3. event[e].grant \in Open
  BY <1>2 DEF TrustInv, Placed, Using, Uses
<1> QED
  BY <1>2, <1>3 DEF Trusting, TrustInv, RowsInv, ClosedIsQuiet

THEOREM AnswersTrusted == TrustSpec => [][AnswersAreTrusted]_trustVars
<1>1. TrustInv /\ [TrustNext]_trustVars => TrustInv'
  BY TrustInvInductive
<1> QED
  BY <1>1, TrustInvInductive, SpeaksTrusted, PTL DEF TrustSpec

-----------------------------------------------------------------------------
(***************************************************************************)
(* MatrixAudience, for any number of people: whoever may be in the room is *)
(* known to its rows, to the departures, or is the trace of a join nobody  *)
(* recorded: it failed, or a late one met a late invitation.               *)
(***************************************************************************)

\* An epoch that is over does not come back, and names the members while it lasts.
EpochsInv == answer # NoAnswer =>
    answer.epoch <= epoch /\ (answer.epoch = epoch => answer.members = Joined)

ForgottenInv == \A p \in deleted : p \notin access /\ member[p] = "none"

LateInv == IsFiniteSet(late) /\ Cardinality(late) <= MaxLate

RoomInv == AudienceTypeOK /\ EpochsInv /\ ForgottenInv /\ LateInv

\* Somebody knows that p may be in the room: its rows, the departures, or nobody but us.
Known(p) == p \in Noted \cup lost

Inside(p) == native[p] = "join" \/ (native[p] = "invite" /\ <<"join", p>> \in late)
KnownInv == \A p \in People : Inside(p) => Known(p)

-----------------------------------------------------------------------------
\* What a row becomes.
LEMMA RowMoves ==
    ASSUME AudienceTypeOK, NEW p \in People, NEW s \in {"none", "joined", "left", "removed"},
           NEW owed \in BOOLEAN, owed => s # "none", RowIs(p, s, owed)
    PROVE  /\ member' \in [People -> {"none", "joined", "left", "removed"}]
           /\ pending' \subseteq {q \in People : member'[q] # "none"}
           /\ lost' \subseteq People
           /\ member'[p] = s /\ (owed => p \in pending')
           /\ \A q \in People \ {p} : member'[q] = member[q]
           /\ \A q \in People \ {p} : q \in pending' <=> q \in pending
           /\ \A q \in People \ {p} : q \in lost' <=> q \in lost
<1>1. member' = [member EXCEPT ![p] = s] /\ lost' = lost \ {p}
  BY DEF RowIs
<1>2. pending' = IF owed THEN pending \cup {p} ELSE pending \ {p}
  BY DEF RowIs
<1>3. member \in [People -> {"none", "joined", "left", "removed"}] /\ lost \subseteq People
      /\ pending \subseteq {q \in People : member[q] # "none"}
  BY DEF AudienceTypeOK
<1> QED
  BY <1>1, <1>2, <1>3

LEMMA Requested ==
    ASSUME AudienceConstants, LateInv, NEW l, Cardinality(late) < MaxLate
    PROVE  IsFiniteSet(late \cup {l}) /\ Cardinality(late \cup {l}) <= MaxLate
<1>1. IsFiniteSet(late) /\ MaxLate \in Nat /\ Cardinality(late) \in Nat
  BY FS_CardinalityType DEF LateInv, AudienceConstants
<1>2. IsFiniteSet(late \cup {l}) /\ Cardinality(late \cup {l}) \in {Cardinality(late), Cardinality(late) + 1}
  BY <1>1, FS_AddElement
<1> QED
  BY <1>1, <1>2

LEMMA CarriedOut ==
    ASSUME AudienceConstants, LateInv, NEW l \in late
    PROVE  IsFiniteSet(late \ {l}) /\ Cardinality(late \ {l}) <= MaxLate
<1>1. IsFiniteSet(late) /\ MaxLate \in Nat /\ Cardinality(late) \in Nat
  BY FS_CardinalityType DEF LateInv, AudienceConstants
<1>2. IsFiniteSet(late \ {l}) /\ Cardinality(late \ {l}) = Cardinality(late) - 1
        /\ Cardinality(late \ {l}) \in Nat
  BY <1>1, FS_RemoveElement, FS_CardinalityType
<1> QED
  BY <1>1, <1>2 DEF LateInv

\* What the homeserver makes of the person of a request.
Native == {"never", "invite", "join", "leave", "ban"}
NativeMoves(p) ==
    /\ native' \in [People -> Native] /\ pushed' \subseteq People
    /\ late' \subseteq {"invite", "join", "leave"} \X People
    /\ LateInv'
    /\ \A q \in People : q # p => native'[q] = native[q]

LEMMA JoinsMove ==
    ASSUME AudienceConstants, AudienceTypeOK, LateInv, NEW p \in People, Joins(p)
    PROVE  NativeMoves(p) /\ late' = late
BY DEF AudienceTypeOK, LateInv, Joins, NativeIs, NativeMoves, Native

LEMMA JoinFailsMove ==
    ASSUME AudienceConstants, AudienceTypeOK, LateInv, NEW p \in People, JoinFails(p)
    PROVE  /\ NativeMoves(p)
           /\ \A q \in People \ {p} : <<"join", q>> \in late' <=> <<"join", q>> \in late
<1>1. native \in [People -> Native] /\ late \subseteq {"invite", "join", "leave"} \X People
      /\ pushed \subseteq People
  BY DEF AudienceTypeOK, Native
<1>2. CASE JoinIsLost(p)
  BY <1>2, JoinsMove DEF JoinIsLost
<1>3. ASSUME NEW request \in {"invite", "join"}, JoinIsLate(p, request)
      PROVE  /\ NativeMoves(p)
             /\ \A q \in People \ {p} : <<"join", q>> \in late' <=> <<"join", q>> \in late
  <2>1. late' = late \cup {<<request, p>>} /\ Cardinality(late) < MaxLate
        /\ NativeIs(p, IF request = "join" THEN "invite" ELSE native[p])
    BY <1>3 DEF JoinIsLate
  <2>2. LateInv'
    BY <2>1, Requested DEF LateInv
  <2>3. native' \in [People -> Native] /\ pushed' \subseteq People
        /\ \A q \in People : q # p => native'[q] = native[q]
    BY <1>1, <2>1 DEF NativeIs, Native
  <2>4. late' \subseteq {"invite", "join", "leave"} \X People
    BY <1>1, <2>1
  <2>5. \A q \in People \ {p} : <<"join", q>> \in late' <=> <<"join", q>> \in late
    BY <2>1
  <2> QED
    BY <2>2, <2>3, <2>4, <2>5 DEF NativeMoves
<1> QED
  BY <1>2, <1>3 DEF JoinFails

LEMMA DepartsMove ==
    ASSUME AudienceConstants, AudienceTypeOK, LateInv, NEW p \in People, Departs(p)
    PROVE  NativeMoves(p) /\ late' = late /\ native'[p] \notin {"invite", "join"}
<1>1. native \in [People -> Native] /\ pushed \subseteq People
  BY DEF AudienceTypeOK, Native
<1>2. Effect("leave", native[p]) \in Native \ {"invite", "join"}
  BY <1>1 DEF Effect, Native
<1> QED
  BY <1>1, <1>2 DEF AudienceTypeOK, LateInv, Departs, NativeIs, NativeMoves

LEMMA DepartureFailsMove ==
    ASSUME AudienceConstants, AudienceTypeOK, LateInv, NEW p \in People, DepartureFails(p)
    PROVE  /\ NativeMoves(p)
           /\ \A q \in People : <<"join", q>> \in late' <=> <<"join", q>> \in late
<1>1. CASE Departs(p)
  BY <1>1, DepartsMove
<1>2. CASE /\ Cardinality(late) < MaxLate
           /\ late' = late \cup {<<"leave", p>>} /\ UNCHANGED <<native, pushed>>
  <2>1. LateInv'
    BY <1>2, Requested DEF LateInv
  <2>2. late' \subseteq {"invite", "join", "leave"} \X People
    BY <1>2 DEF AudienceTypeOK
  <2> QED
    BY <1>2, <2>1, <2>2 DEF NativeMoves, AudienceTypeOK, Native
<1> QED
  BY <1>1, <1>2 DEF DepartureFails
-----------------------------------------------------------------------------
\* Steps that change no answer: the epoch goes on where the members change.
LEMMA RoomKept ==
    ASSUME AudienceConstants, RoomInv, answer' = answer,
           access' \subseteq People, deleted' \subseteq People, open' \in BOOLEAN, epoch' \in Epochs,
           member' \in [People -> {"none", "joined", "left", "removed"}],
           pending' \subseteq {p \in People : member'[p] # "none"}, lost' \subseteq People,
           departures' \subseteq deleted', native' \in [People -> Native], LateInv',
           late' \subseteq {"invite", "join", "leave"} \X People, pushed' \subseteq People,
           epoch' = epoch + 1 \/ (epoch' = epoch /\ Joined' = Joined), ForgottenInv'
    PROVE  RoomInv'
<1>1. AudienceTypeOK'
  BY DEF RoomInv, AudienceTypeOK, Native
<1>2. EpochsInv'
  <2>1. epoch \in Nat /\ (answer # NoAnswer => answer.epoch \in Nat)
    BY DEF RoomInv, AudienceTypeOK, Epochs
  <2> QED
    BY <2>1 DEF RoomInv, EpochsInv
<1> QED
  BY <1>1, <1>2 DEF RoomInv

\* Steps that change rows only: the person of the row stays known.
LEMMA MemberRowsPreserve ==
    ASSUME AudienceConstants, RoomInv, NEW p \in People,
           \/ OpensRoom(p) \/ LosesRoom(p)
           \/ \E s \in {"left", "removed"} : IsDeparted(p, s)
    PROVE  RoomInv' /\ (KnownInv => KnownInv')
<1>1. PICK s \in {"joined", "left", "removed"} :
          /\ RowIs(p, s, TRUE) /\ Advances /\ p \notin deleted
          /\ UNCHANGED <<access, deleted, open, departures, native, late, pushed, answer>>
  BY DEF OpensRoom, LosesRoom, IsDeparted, RoomInv, ForgottenInv, Joined
<1>2. /\ member' \in [People -> {"none", "joined", "left", "removed"}]
      /\ pending' \subseteq {q \in People : member'[q] # "none"}
      /\ lost' \subseteq People /\ p \in pending'
      /\ \A q \in People \ {p} : member'[q] = member[q]
      /\ \A q \in People \ {p} : q \in pending' <=> q \in pending
      /\ \A q \in People \ {p} : q \in lost' <=> q \in lost
  BY <1>1, RowMoves DEF RoomInv
<1>3. epoch' = epoch + 1 /\ epoch' \in Epochs
  BY <1>1 DEF Advances, RoomInv, AudienceTypeOK, Epochs, AudienceConstants
<1>4. ForgottenInv'
  BY <1>1, <1>2 DEF ForgottenInv, RoomInv, AudienceTypeOK
<1>5. RoomInv'
  BY <1>1, <1>2, <1>3, <1>4, RoomKept DEF RoomInv, AudienceTypeOK, LateInv, Native
<1>6. \A q \in People : (Inside(q)' => Inside(q)) /\ (Known(q) => Known(q)')
  BY <1>1, <1>2 DEF Inside, Known, Noted, Joined
<1> QED
  BY <1>5, <1>6 DEF KnownInv

\* A row settled in the room: the person is a member.
LEMMA JoinsPreserve ==
    ASSUME AudienceConstants, RoomInv, NEW p \in People,
           CompletesJoin(p) \/ JoinsToRead(p) \/ IsAdded(p)
    PROVE  RoomInv' /\ (KnownInv => KnownInv')
<1>0. /\ AudienceTypeOK /\ LateInv /\ p \in access /\ p \notin deleted
      /\ UNCHANGED <<access, deleted, open, departures, answer>>
  BY DEF RoomInv, ForgottenInv, CompletesJoin, JoinsToRead, IsAdded
<1>1. CASE /\ JoinFails(p) /\ UNCHANGED <<epoch, member, pending>>
           /\ JoinIsForgotten(p) \/ (p \in Joined /\ lost' = lost)
  <2>1. /\ NativeMoves(p)
        /\ \A q \in People \ {p} : <<"join", q>> \in late' <=> <<"join", q>> \in late
    BY <1>0, <1>1, JoinFailsMove
  <2>2. lost' \in {lost, lost \cup ({p} \ Noted)} /\ p \in Noted \cup lost'
    BY <1>1 DEF JoinIsForgotten, Noted
  <2>3. RoomInv'
    BY <1>0, <1>1, <2>1, <2>2, RoomKept DEF RoomInv, AudienceTypeOK, NativeMoves, ForgottenInv, Joined
  <2>4. \A q \in People : (q = p \/ Known(q)) => Known(q)'
    BY <1>0, <1>1, <2>2 DEF Known, Noted, Joined
  <2>5. \A q \in People \ {p} : Inside(q)' => Inside(q)
    BY <2>1 DEF Inside, NativeMoves
  <2> QED
    BY <2>3, <2>4, <2>5 DEF KnownInv
<1>2. CASE Joins(p) /\ UNCHANGED <<epoch, member, pending, lost>> /\ p \in Joined
  <2>1. NativeMoves(p) /\ late' = late
    BY <1>0, <1>2, JoinsMove
  <2>2. RoomInv'
    BY <1>0, <1>2, <2>1, RoomKept DEF RoomInv, AudienceTypeOK, NativeMoves, ForgottenInv, Joined
  <2>3. \A q \in People : (q = p \/ Known(q)) => Known(q)'
    BY <1>0, <1>2 DEF Known, Noted, Joined
  <2>4. \A q \in People \ {p} : Inside(q)' => Inside(q)
    BY <2>1 DEF Inside, NativeMoves
  <2> QED
    BY <2>2, <2>3, <2>4 DEF KnownInv
<1>3. CASE Joins(p) /\ RowIs(p, "joined", FALSE) /\ (Advances \/ (epoch' = epoch /\ p \in Joined))
  <2>1. NativeMoves(p) /\ late' = late
    BY <1>0, <1>3, JoinsMove
  <2>2. /\ member' \in [People -> {"none", "joined", "left", "removed"}]
        /\ pending' \subseteq {q \in People : member'[q] # "none"}
        /\ lost' \subseteq People /\ member'[p] = "joined"
        /\ \A q \in People \ {p} : member'[q] = member[q]
        /\ \A q \in People \ {p} : q \in pending' <=> q \in pending
        /\ \A q \in People \ {p} : q \in lost' <=> q \in lost
    BY <1>0, <1>3, RowMoves
  <2>3. epoch' \in Epochs /\ (epoch' = epoch + 1 \/ (epoch' = epoch /\ Joined' = Joined))
    BY <1>0, <1>3, <2>2 DEF Advances, AudienceTypeOK, Epochs, AudienceConstants, Joined
  <2>4. ForgottenInv'
    BY <1>0, <2>2 DEF RoomInv, AudienceTypeOK, ForgottenInv
  <2>5. RoomInv'
    BY <1>0, <2>1, <2>2, <2>3, <2>4, RoomKept DEF AudienceTypeOK, NativeMoves
  <2>6. \A q \in People : (q = p \/ Known(q)) => Known(q)'
    BY <1>0, <2>2 DEF Known, Noted, Joined
  <2>7. \A q \in People \ {p} : Inside(q)' => Inside(q)
    BY <2>1 DEF Inside, NativeMoves
  <2> QED
    BY <2>5, <2>6, <2>7 DEF KnownInv
<1> QED
  <2>1. CASE CompletesJoin(p)
    BY <2>1, <1>0, <1>1, <1>3 DEF CompletesJoin
  <2>2. CASE JoinsToRead(p)
    BY <2>2, <1>1, <1>3 DEF JoinsToRead, Enters, JoinIsForgotten
  <2>3. CASE IsAdded(p)
    BY <2>3, <1>1, <1>2, <1>3 DEF IsAdded, Enters, JoinIsForgotten
  <2> QED
    BY <2>1, <2>2, <2>3
\* A request to leave, of a row or of a departure: who is out of the room needs neither.
LEMMA RetiresPreserve ==
    ASSUME AudienceConstants, RoomInv, NEW p \in People, RetiresMember(p) \/ RetiresDeparture(p)
    PROVE  RoomInv' /\ (KnownInv => KnownInv')
<1>0. /\ AudienceTypeOK /\ LateInv
      /\ UNCHANGED <<access, deleted, open, epoch, member, answer, lost>>
      /\ pending' \subseteq pending /\ departures' \subseteq departures
      /\ \A q \in People \ {p} : q \in pending \cup departures => q \in pending' \cup departures'
  BY DEF RoomInv, RetiresMember, RetiresDeparture
<1>1. NativeMoves(p) /\ \A q \in People \ {p} : <<"join", q>> \in late' <=> <<"join", q>> \in late
  BY <1>0, DepartsMove, DepartureFailsMove DEF RetiresMember, RetiresDeparture
<1>2. RoomInv'
  BY <1>0, <1>1, RoomKept DEF RoomInv, AudienceTypeOK, NativeMoves, ForgottenInv, Joined
<1>3. \A q \in People \ {p} : (Inside(q)' => Inside(q)) /\ (Known(q) => Known(q)')
  BY <1>0, <1>1 DEF Inside, Known, Noted, Joined, NativeMoves
<1>4. CASE Departs(p)
  <2>1. ~Inside(p)'
    BY <1>0, <1>4, DepartsMove DEF Inside
  <2> QED
    BY <1>2, <1>3, <2>1 DEF KnownInv
<1>5. CASE DepartureFails(p) /\ UNCHANGED <<pending, departures>>
  <2>1. Known(p) => Known(p)'
    BY <1>0, <1>5 DEF Known, Noted, Joined
  <2>2. Inside(p)' => Inside(p)
    BY <1>0, <1>5 DEF DepartureFails, Departs, NativeIs, Effect, Inside, AudienceTypeOK
  <2> QED
    BY <1>2, <1>3, <2>1, <2>2 DEF KnownInv
<1> QED
  BY <1>4, <1>5 DEF RetiresMember, RetiresDeparture

\* An event of the homeserver: a row is settled only for whoever is out.
LEMMA ProjectsPreserves ==
    ASSUME AudienceConstants, RoomInv, NEW p \in People, Projects(p)
    PROVE  RoomInv' /\ (KnownInv => KnownInv')
<1>0. /\ AudienceTypeOK /\ pushed' \subseteq People
      /\ UNCHANGED <<access, deleted, open, departures, native, late, answer>>
  BY DEF RoomInv, Projects, AudienceTypeOK
<1>1. CASE /\ pending' = IF member[p] = "none" THEN pending ELSE pending \cup {p}
           /\ Advances /\ UNCHANGED <<member, lost>>
  <2>1. epoch' = epoch + 1 /\ epoch' \in Epochs
    BY <1>0, <1>1 DEF Advances, AudienceTypeOK, Epochs, AudienceConstants
  <2>2. pending' \subseteq {q \in People : member'[q] # "none"} /\ pending \subseteq pending'
    BY <1>0, <1>1 DEF AudienceTypeOK
  <2>3. RoomInv'
    BY <1>0, <1>1, <2>1, <2>2, RoomKept DEF RoomInv, AudienceTypeOK, ForgottenInv, LateInv, Native
  <2> QED
    BY <1>0, <1>1, <2>2, <2>3 DEF KnownInv, Inside, Known, Noted, Joined
<1>2. CASE /\ native[p] \in {"leave", "ban"} /\ p \in Joined \cup pending
           /\ \E s \in {"left", "removed"} : RowIs(p, s, FALSE)
           /\ Advances
  <2>1. epoch' = epoch + 1 /\ epoch' \in Epochs
    BY <1>0, <1>2 DEF Advances, AudienceTypeOK, Epochs, AudienceConstants
  <2>2. PICK s \in {"left", "removed"} : RowIs(p, s, FALSE)
    BY <1>2
  <2>3. /\ member' \in [People -> {"none", "joined", "left", "removed"}]
        /\ pending' \subseteq {q \in People : member'[q] # "none"}
        /\ lost' \subseteq People
        /\ \A q \in People \ {p} : member'[q] = member[q]
        /\ \A q \in People \ {p} : q \in pending' <=> q \in pending
        /\ \A q \in People \ {p} : q \in lost' <=> q \in lost
    BY <1>0, <2>2, RowMoves
  <2>4. p \notin deleted
    BY <1>0, <1>2 DEF RoomInv, ForgottenInv, AudienceTypeOK, Joined
  <2>5. ForgottenInv'
    BY <1>0, <2>3, <2>4 DEF RoomInv, AudienceTypeOK, ForgottenInv
  <2>6. RoomInv'
    BY <1>0, <2>1, <2>3, <2>5, RoomKept DEF RoomInv, AudienceTypeOK, LateInv, Native
  <2>7. ~Inside(p)' /\ \A q \in People \ {p} : (Inside(q)' => Inside(q)) /\ (Known(q) => Known(q)')
    BY <1>0, <1>2, <2>3 DEF Inside, Known, Noted, Joined
  <2> QED
    BY <2>6, <2>7 DEF KnownInv
<1>3. CASE UNCHANGED <<epoch, member, pending, lost>>
  <2>1. RoomInv'
    BY <1>0, <1>3, RoomKept DEF RoomInv, AudienceTypeOK, ForgottenInv, LateInv, Joined, Native
  <2> QED
    BY <1>0, <1>3, <2>1 DEF KnownInv, Inside, Known, Noted, Joined
<1> QED
  BY <1>1, <1>2, <1>3 DEF Projects

\* An account is erased: its departure is noted before its row goes.
LEMMA ErasesPreserves ==
    ASSUME AudienceConstants, RoomInv, NEW p \in People, Erases(p)
    PROVE  RoomInv' /\ (KnownInv => KnownInv')
<1>0. /\ AudienceTypeOK /\ deleted' = deleted \cup {p} /\ access' = access \ {p}
      /\ UNCHANGED <<open, native, late, pushed, answer>>
  BY DEF RoomInv, Erases
<1>1. CASE departures' = departures \cup {p} /\ Advances /\ RowIs(p, "none", FALSE)
  <2>1. epoch' = epoch + 1 /\ epoch' \in Epochs
    BY <1>0, <1>1 DEF Advances, AudienceTypeOK, Epochs, AudienceConstants
  <2>2. /\ member' \in [People -> {"none", "joined", "left", "removed"}]
        /\ pending' \subseteq {q \in People : member'[q] # "none"}
        /\ lost' \subseteq People /\ member'[p] = "none"
        /\ \A q \in People \ {p} : member'[q] = member[q]
        /\ \A q \in People \ {p} : q \in pending' <=> q \in pending
        /\ \A q \in People \ {p} : q \in lost' <=> q \in lost
    BY <1>0, <1>1, RowMoves
  <2>3. ForgottenInv'
    BY <1>0, <2>2 DEF RoomInv, AudienceTypeOK, ForgottenInv
  <2>4. departures' \subseteq deleted'
    BY <1>0, <1>1 DEF AudienceTypeOK
  <2>5. RoomInv'
    BY <1>0, <2>1, <2>2, <2>3, <2>4, RoomKept DEF RoomInv, AudienceTypeOK, LateInv, Native
  <2>6. \A q \in People : (Inside(q)' => Inside(q)) /\ (Known(q) => Known(q)')
    BY <1>0, <1>1, <2>2 DEF Inside, Known, Noted, Joined
  <2> QED
    BY <2>5, <2>6 DEF KnownInv
<1>2. CASE member[p] = "none" /\ UNCHANGED <<departures, epoch, member, pending, lost>>
  <2>1. ForgottenInv'
    BY <1>0, <1>2 DEF RoomInv, ForgottenInv
  <2>2. RoomInv'
    BY <1>0, <1>2, <2>1, RoomKept DEF RoomInv, AudienceTypeOK, LateInv, Joined, Native
  <2> QED
    BY <1>0, <1>2, <2>2 DEF KnownInv, Inside, Known, Noted, Joined
<1> QED
  BY <1>1, <1>2 DEF Erases
\* A request carried out after its caller gave up.  It brings in nobody but whom a request to join,
\* on its way too, finds invited again; and of them it is noted that they may be in the room.
LEMMA LatePreserves ==
    ASSUME AudienceConstants, RoomInv, CarriesOut \/ Forgets
    PROVE  RoomInv' /\ (KnownInv => KnownInv')
<1>0. /\ AudienceTypeOK /\ LateInv
      /\ UNCHANGED <<access, deleted, open, epoch, member, pending, departures, answer>>
  BY DEF RoomInv, CarriesOut, Forgets
<1>1. PICK l \in late :
          /\ late' = late \ {l}
          /\ \/ UNCHANGED <<native, pushed, lost>>
             \/ /\ NativeIs(l[2], Effect(l[1], native[l[2]]))
                /\ lost' = IF l[1] = "invite" /\ <<"join", l[2]>> \in late
                           THEN lost \cup ({l[2]} \ Noted) ELSE lost
  BY DEF CarriesOut, Forgets
<1>2. l = <<l[1], l[2]>> /\ l[1] \in {"invite", "join", "leave"} /\ l[2] \in People
  BY <1>0, <1>1 DEF AudienceTypeOK
<1>3. /\ native \in [People -> Native] /\ pushed \subseteq People
      /\ Effect(l[1], native[l[2]]) \in Native
  BY <1>0, <1>2 DEF AudienceTypeOK, Native, Effect
<1>4. native' \in [People -> Native] /\ pushed' \subseteq People
  BY <1>1, <1>2, <1>3 DEF NativeIs
<1>5. LateInv' /\ lost \subseteq lost' /\ lost' \subseteq People
  BY <1>0, <1>1, <1>2, CarriedOut DEF LateInv, AudienceTypeOK
<1>6. RoomInv'
  BY <1>0, <1>1, <1>4, <1>5, RoomKept DEF RoomInv, AudienceTypeOK, ForgottenInv, Joined
<1>7. \A p \in People : native'[p] = "join" => Inside(p)
  BY <1>1, <1>2, <1>3 DEF NativeIs, Effect, Inside
<1>8. ASSUME NEW p \in People, native'[p] = "invite", <<"join", p>> \in late'
      PROVE  Inside(p) \/ p \in Noted \cup lost'
  <2>1. CASE native[p] = "invite"
    BY <1>1, <1>8, <2>1 DEF Inside
  <2>2. CASE native[p] # "invite"
    <3>1. p = l[2] /\ l[1] = "invite"
      BY <1>1, <1>2, <1>3, <1>8, <2>2 DEF NativeIs, Effect
    <3> QED
      BY <1>1, <1>8, <2>2, <3>1
  <2> QED
    BY <2>1, <2>2
<1>9. \A p \in People : Inside(p)' => Inside(p) \/ p \in Noted \cup lost'
  BY <1>7, <1>8 DEF Inside
<1> QED
  BY <1>0, <1>5, <1>6, <1>9 DEF KnownInv, Known, Noted, Joined

\* What changes neither a row nor a request.
LEMMA OthersPreserve ==
    ASSUME AudienceConstants, RoomInv,
           \/ \E p \in People : Bans(p) \/ ChangesAccess(p)
           \/ ClosesMatrixRoom \/ Accepts \/ Publishes \/ UNCHANGED audienceVars
    PROVE  RoomInv' /\ (KnownInv => KnownInv')
<1>0. /\ AudienceTypeOK /\ ForgottenInv /\ LateInv
      /\ UNCHANGED <<deleted, member, pending, departures, late, lost>>
  BY DEF RoomInv, Bans, ChangesAccess, ClosesMatrixRoom, Accepts, Publishes, audienceVars
<1>1. ForgottenInv'
  BY <1>0 DEF RoomInv, ForgottenInv, Bans, ChangesAccess, ClosesMatrixRoom, Accepts, Publishes, audienceVars
<1>2. LateInv' /\ Joined' = Joined
  BY <1>0 DEF LateInv, Joined
<1>3. CASE \E p \in People : Bans(p)
  <2>1. PICK p \in People : Bans(p)
    BY <1>3
  <2>2. native' = [native EXCEPT ![p] = "ban"] /\ pushed' \subseteq People
        /\ UNCHANGED <<access, open, epoch, answer>>
    BY <1>0, <2>1 DEF Bans, NativeIs, AudienceTypeOK
  <2>3. native' \in [People -> Native] /\ \A q \in People : Inside(q)' => Inside(q)
    BY <1>0, <2>2 DEF AudienceTypeOK, Native, Inside
  <2>4. RoomInv'
    BY <1>0, <1>1, <1>2, <2>2, <2>3, RoomKept DEF AudienceTypeOK
  <2> QED
    BY <1>0, <2>3, <2>4 DEF KnownInv, Known, Noted, Joined
<1>4. CASE (\E p \in People : ChangesAccess(p)) \/ ClosesMatrixRoom
  <2>1. /\ access' \subseteq People /\ open' \in BOOLEAN /\ epoch' \in Epochs
        /\ epoch' \in {epoch, epoch + 1} /\ UNCHANGED <<native, pushed, answer>>
    <3>1. CASE \E p \in People : ChangesAccess(p)
      BY <1>0, <3>1 DEF ChangesAccess, AudienceTypeOK
    <3>2. CASE ClosesMatrixRoom
      <4>1. open' = FALSE /\ Advances /\ UNCHANGED <<access, native, pushed, answer>>
        BY <3>2 DEF ClosesMatrixRoom
      <4>2. epoch' \in Epochs /\ epoch' = epoch + 1
        BY <1>0, <4>1 DEF Advances, AudienceTypeOK, Epochs, AudienceConstants
      <4> QED
        BY <1>0, <4>1, <4>2 DEF AudienceTypeOK
    <3> QED
      BY <1>4, <3>1, <3>2
  <2>2. RoomInv'
    BY <1>0, <1>1, <1>2, <2>1, RoomKept DEF AudienceTypeOK, Native
  <2> QED
    BY <1>0, <2>1, <2>2 DEF KnownInv, Inside, Known, Noted, Joined
<1>5. CASE Accepts \/ Publishes \/ UNCHANGED audienceVars
  <2>1. UNCHANGED <<access, open, epoch, native, pushed>>
    BY <1>5 DEF Accepts, Publishes, audienceVars
  <2>2. answer' \in {answer, NoAnswer, [epoch |-> epoch, members |-> Joined]}
    BY <1>5 DEF Accepts, Publishes, audienceVars
  <2>3. Joined \subseteq People
    BY DEF Joined
  <2>4. AudienceTypeOK'
    BY <1>0, <2>1, <2>2, <2>3 DEF AudienceTypeOK
  <2>5. EpochsInv'
    <3>1. epoch \in Nat
      BY <1>0 DEF AudienceTypeOK, Epochs
    <3> QED
      BY <1>2, <2>1, <2>2, <3>1 DEF RoomInv, EpochsInv
  <2> QED
    BY <1>0, <1>1, <1>2, <2>1, <2>4, <2>5 DEF RoomInv, KnownInv, Inside, Known, Noted, Joined
<1> QED
  BY <1>3, <1>4, <1>5

LEMMA RoomStep ==
    ASSUME AudienceConstants, RoomInv, [AudienceNext]_audienceVars
    PROVE  RoomInv' /\ (KnownInv => KnownInv')
<1>1. ASSUME NEW p \in People, RetiresMember(p) \/ RetiresDeparture(p) \/ Projects(p) \/ Erases(p)
      PROVE  RoomInv' /\ (KnownInv => KnownInv')
  BY <1>1, RetiresPreserve, ProjectsPreserves, ErasesPreserves
<1>2. ASSUME NEW p \in People, CompletesJoin(p) \/ JoinsToRead(p) \/ IsAdded(p)
      PROVE  RoomInv' /\ (KnownInv => KnownInv')
  BY <1>2, JoinsPreserve
<1>3. ASSUME NEW p \in People, OpensRoom(p) \/ LosesRoom(p) \/ Leaves(p) \/ IsRemoved(p)
      PROVE  RoomInv' /\ (KnownInv => KnownInv')
  <2>1. \/ OpensRoom(p) \/ LosesRoom(p)
        \/ \E s \in {"left", "removed"} : IsDeparted(p, s)
    BY <1>3 DEF Leaves, IsRemoved
  <2> QED
    BY <2>1, MemberRowsPreserve
<1>4. CASE \/ \E p \in People : Bans(p) \/ ChangesAccess(p)
           \/ ClosesMatrixRoom \/ Accepts \/ Publishes \/ UNCHANGED audienceVars
  BY <1>4, OthersPreserve
<1>5. CASE CarriesOut \/ Forgets
  BY <1>5, LatePreserves
<1> QED
  BY <1>1, <1>2, <1>3, <1>4, <1>5 DEF AudienceNext

LEMMA RoomStarts ==
    ASSUME AudienceConstants, AudienceInit
    PROVE  RoomInv /\ KnownInv
<1>1. LateInv
  BY FS_EmptySet DEF AudienceInit, LateInv, AudienceConstants
<1>2. AudienceTypeOK
  BY DEF AudienceInit, AudienceTypeOK, Epochs, AudienceConstants
<1>3. EpochsInv /\ ForgottenInv /\ KnownInv
  BY DEF AudienceInit, EpochsInv, ForgottenInv, KnownInv, Inside
<1> QED
  BY <1>1, <1>2, <1>3 DEF RoomInv

\* The inductive invariant of the room: an epoch that is over does not come back, whoever was
\* erased has neither a row nor access, and there are no more requests on their way than the bound.
\* It does not depend on how many of them there are.
THEOREM RoomInvInductive ==
    ASSUME AudienceConstants
    PROVE  AudienceSpec => []RoomInv
<1>1. AudienceInit => RoomInv
  BY RoomStarts
<1>2. RoomInv /\ [AudienceNext]_audienceVars => RoomInv'
  BY RoomStep
<1> QED
  BY <1>1, <1>2, PTL DEF AudienceSpec

\* As long as an answer carries the room's epoch, the room has the members it had when the answer
\* was asked for: every change of a member's row takes a new epoch (advanceMatrixRoomEpoch).
THEOREM EpochsNameMembers ==
    ASSUME AudienceConstants
    PROVE  AudienceSpec => [](AudienceTypeOK /\ EpochNamesMembers)
<1>1. RoomInv => AudienceTypeOK /\ EpochNamesMembers
  BY DEF RoomInv, EpochsInv, EpochNamesMembers
<1> QED
  BY <1>1, RoomInvInductive, PTL

\* When an answer may be sent, everybody who receives it is a member with access, as they were when
\* it was asked for, but for whom a failed join left there or two late requests brought back; and but
\* for those an erased account is forgotten only once it is out of the room
\* (requireSafeMatrixAudience, retireDeparture): whatever the number of requests that are late.
THEOREM AudienceSafe ==
    ASSUME AudienceConstants
    PROVE  AudienceSpec => []AudienceIsSafe
<1> DEFINE Safe == RoomInv /\ KnownInv
<1>1. AudienceInit => Safe
  BY RoomStarts
<1>2. Safe /\ [AudienceNext]_audienceVars => Safe'
  BY RoomStep
<1>3. Safe => AudienceIsSafe
  <2> SUFFICES ASSUME RoomInv, KnownInv PROVE AudienceIsSafe
    OBVIOUS
  <2>1. AudienceTypeOK /\ EpochNamesMembers
    BY DEF RoomInv, EpochsInv, EpochNamesMembers
  <2>2. RecipientsAreMembers
    <3> SUFFICES ASSUME Publishable PROVE InRoom \ lost \subseteq answer.members \cap access
      BY DEF RecipientsAreMembers
    <3>1. answer.members = Joined /\ Joined \subseteq access /\ departures = {} /\ pending = {}
      BY <2>1 DEF Publishable, EpochNamesMembers
    <3>2. InRoom \ lost \subseteq Joined
      BY <3>1 DEF KnownInv, Known, Noted, Inside, InRoom
    <3> QED
      BY <3>1, <3>2
  <2>3. ForgottenAreOut
    BY <2>1 DEF ForgottenAreOut, RoomInv, ForgottenInv, KnownInv, Known, Noted, Inside, Joined, AudienceTypeOK
  <2> QED
    BY <2>1, <2>2, <2>3 DEF AudienceIsSafe
<1> QED
  BY <1>1, <1>2, <1>3, PTL DEF AudienceSpec
=============================================================================
