---------------------------- MODULE NetworkTrust ----------------------------
(***************************************************************************)
(* server/workspaces/network.ts and server/matrix: two people who trust     *)
(* each other, and the conversation one of them (the requester) has with    *)
(* the published bot of the other (its owner).  Trust is invited, accepted, *)
(* ended and blocked; a grant is issued under it; a private room of the     *)
(* homeserver carries the conversation, whose messages become tasks and     *)
(* whose answers are sent back.                                             *)
(*                                                                         *)
(* Every operation is a transaction of PostgreSQL at READ COMMITTED.  A     *)
(* step is one statement: it reads what is committed, waits for the rows it *)
(* locks, and what it writes is applied when the transaction commits.  A    *)
(* transaction may abort at any step (a refusal, a deadlock, the budget of  *)
(* a minute, a crash); what it asked of the homeserver remains.             *)
(***************************************************************************)
EXTENDS Naturals, FiniteSets

CONSTANTS
    Transactions,   \* transactions that run at the same time
    Grants,         \* bound on the grants ever issued
    Events,         \* bound on the messages the requester ever sends
    None

VARIABLES
    invites,        \* whose invitation of the other is pending
    trusted,        \* personal_trust_edges, written and deleted in pairs
    blocked,        \* personal_trust_blocks, of either direction
    published,      \* workspace_bots.discoverable
    grants,         \* workspace_agent_grants
    conversation,   \* matrix_agent_conversations, under the identifier of its grant
    retirements,    \* matrix_room_retirements
    room,           \* the homeserver's room of each grant
    event,          \* a message of the requester, and the task it became
    spoken,         \* messages whose answer the room shows
    tx              \* where each transaction is, and the rows it has locked

trustVars == <<invites, trusted, blocked, published, grants, conversation, retirements, room,
               event, spoken, tx>>
rowVars == <<invites, trusted, blocked, published, grants, conversation, retirements, event>>

Pair == {"requester", "owner"}
Edge == <<"edge">>
Bot == <<"bot">>
Grant(g) == <<"grant", g>>
Conversation(g) == <<"conversation", g>>
Invite(who) == <<"invite", who>>
Rows == {Edge, Bot} \cup {Grant(g) : g \in Grants} \cup {Conversation(g) : g \in Grants}
        \cup {Invite(who) : who \in Pair}

Uses == {"send", "receive", "answer", "close"}
Kinds == Uses \cup {"invite", "reply", "end", "block", "open"}
Steps == {"begun", "invites", "edge", "grants", "found", "authority", "trust", "conversation", "room", "said"}

\* of: the person who invites, or the message.  seen: the grants a statement began with.
Idle == [do |-> "none", at |-> "begun", grant |-> None, of |-> None,
         seen |-> {}, share |-> {}, own |-> {}]

EventStates == {"none", "sent", "active", "done", "canceled", "refused", "answered"}

\* A grant and its conversation are committed together.
TrustTypeOK ==
    /\ invites \subseteq Pair /\ spoken \subseteq Events
    /\ {trusted, blocked, published} \subseteq BOOLEAN
    /\ grants \in [Grants -> {"none", "live", "expired", "revoked"}]
    /\ conversation \in [Grants -> {"none", "open", "closed"}]
    /\ \A g \in Grants : grants[g] = "none" <=> conversation[g] = "none"
    /\ retirements \subseteq {g \in Grants : conversation[g] = "closed"}
    /\ room \in [Grants -> {"none", "joined", "left"}]
    /\ event \in [Events -> [state: EventStates, grant: Grants \cup {None}]]
    /\ tx \in [Transactions -> [do: Kinds \cup {"none"}, at: Steps, grant: Grants \cup {None},
                                of: Events \cup Pair \cup {None}, seen: SUBSET Grants,
                                share: SUBSET Rows, own: SUBSET Rows]]

TrustInit ==
    /\ invites = {} /\ trusted = TRUE /\ blocked = FALSE /\ published = TRUE
    /\ grants = [g \in Grants |-> "none"] /\ conversation = [g \in Grants |-> "none"]
    /\ retirements = {} /\ room = [g \in Grants |-> "none"]
    /\ event = [e \in Events |-> [state |-> "none", grant |-> None]] /\ spoken = {}
    /\ tx = [p \in Transactions |-> Idle]

-----------------------------------------------------------------------------
(***************************************************************************)
(* Transactions                                                             *)
(***************************************************************************)

Others(p) == Transactions \ {p}
MayShare(p, row) == \A t \in Others(p) : row \notin tx[t].own
MayOwn(p, row) == \A t \in Others(p) : row \notin tx[t].own \cup tx[t].share

\* The next statement of a transaction; its first one.
Goes(p, step, shares, owns) ==
    tx' = [tx EXCEPT ![p].at = step, ![p].share = @ \cup shares, ![p].own = @ \cup owns]
Begins(p, kind, step, g, of, owns) ==
    /\ tx[p] = Idle
    /\ tx' = [tx EXCEPT ![p] = [Idle EXCEPT !.do = kind, !.at = step, !.grant = g, !.of = of, !.own = owns]]
Is(p, kind, step) == tx[p].do = kind /\ tx[p].at = step
Ends(p) == tx' = [tx EXCEPT ![p] = Idle]

Aborts(p) == tx[p] # Idle /\ Ends(p) /\ UNCHANGED <<rowVars, room, spoken>>

Unrevoked == {g \in Grants : grants[g] \in {"live", "expired"}}
Live == {g \in Grants : grants[g] = "live"}
Open == {g \in Grants : conversation[g] = "open"}

\* The triggers: a revoked grant closes its conversation, a conversation that closes
\* queues its room and cancels its tasks.
Closes(gs) ==
    /\ conversation' = [g \in Grants |-> IF g \in gs \cap Open THEN "closed" ELSE conversation[g]]
    /\ retirements' = retirements \cup (gs \cap Open)
    /\ event' = [e \in Events |-> IF event[e].grant \in gs /\ event[e].state = "active"
                                  THEN [event[e] EXCEPT !.state = "canceled"] ELSE event[e]]
RevokesAll(gs) ==
    /\ grants' = [g \in Grants |-> IF g \in gs THEN "revoked" ELSE grants[g]]
    /\ Closes(gs)
MayRevoke(p, gs) == \A g \in gs : MayOwn(p, Grant(g)) /\ (g \in Open => MayOwn(p, Conversation(g)))

(***************************************************************************)
(* Trust                                                                    *)
(***************************************************************************)

\* invitePersonalTrust
AsksTrust(p) ==
    /\ \E who \in Pair : Begins(p, "invite", "invites", None, who, {})
    /\ ~blocked /\ ~trusted
    /\ UNCHANGED <<rowVars, room, spoken>>
Invites(p) ==
    /\ Is(p, "invite", "invites") /\ MayOwn(p, Invite(tx[p].of))
    /\ invites' = invites \cup {tx[p].of} /\ Ends(p)
    /\ UNCHANGED <<trusted, blocked, published, grants, conversation, retirements, room, event, spoken>>

\* answerPersonalTrust
RepliesToTrust(p) ==
    /\ \E who \in invites :
         MayOwn(p, Invite(who)) /\ Begins(p, "reply", "edge", None, who, {Invite(who)})
    /\ ~blocked
    /\ UNCHANGED <<rowVars, room, spoken>>
AnswersTrust(p) ==
    /\ Is(p, "reply", "edge") /\ invites' = invites \ {tx[p].of} /\ Ends(p)
    /\ \/ MayShare(p, Edge) /\ trusted' = TRUE
       \/ UNCHANGED trusted
    /\ UNCHANGED <<blocked, published, grants, conversation, retirements, room, event, spoken>>

\* clearPersonalTrust: the pending invitations, the edge, and then the grants.
DropsInvites(p) ==
    /\ \A who \in invites : MayOwn(p, Invite(who))
    /\ \E kind \in {"end", "block"} :
         Begins(p, kind, "invites", None, None, {Invite(who) : who \in invites})
    /\ UNCHANGED <<rowVars, room, spoken>>
DropsEdge(p) ==
    /\ tx[p].do \in {"end", "block"} /\ tx[p].at = "invites"
    /\ trusted => MayOwn(p, Edge)
    /\ Goes(p, "edge", {}, IF trusted THEN {Edge} ELSE {})
    /\ UNCHANGED <<rowVars, room, spoken>>
FindsGrants(p) ==
    /\ tx[p].do \in {"end", "block"} /\ tx[p].at = "edge"
    /\ tx' = [tx EXCEPT ![p].at = "grants", ![p].seen = Unrevoked]
    /\ UNCHANGED <<rowVars, room, spoken>>
ClearsTrust(p) ==
    /\ tx[p].do \in {"end", "block"} /\ tx[p].at = "grants"
    /\ MayRevoke(p, tx[p].seen) /\ RevokesAll(tx[p].seen)
    /\ invites' = {who \in invites : Invite(who) \notin tx[p].own}
    /\ trusted' = (trusted /\ Edge \notin tx[p].own)
    /\ blocked' = (blocked \/ tx[p].do = "block")
    /\ Ends(p)
    /\ UNCHANGED <<published, room, spoken>>

(***************************************************************************)
(* Opening a conversation                                                   *)
(***************************************************************************)

\* openNetworkBot, resolvePublishedBot
Resolves(p) ==
    /\ published /\ trusted /\ ~blocked /\ MayOwn(p, Bot)
    /\ Begins(p, "open", "grants", None, None, {Bot})
    /\ UNCHANGED <<rowVars, room, spoken>>

\* conversationGrant: the live grant, or a new one.
Issues(p) ==
    /\ Is(p, "open", "grants")
    /\ \E g \in Grants :
         /\ \/ g \in Live /\ MayOwn(p, Grant(g))
            \/ Live = {} /\ grants[g] = "none" /\ room[g] = "none" /\ \A t \in Transactions : tx[t].grant # g
         /\ tx' = [tx EXCEPT ![p].at = "authority", ![p].grant = g, ![p].own = @ \cup {Grant(g)}]
    /\ UNCHANGED <<rowVars, room, spoken>>

\* requireWorkspaceAccess as the grant, and what of it holds for a grant not yet committed.
Granted(p) == published /\ grants[tx[p].grant] \in IF tx[p].do = "open" THEN {"none", "live"} ELSE {"live"}
Trusting == trusted /\ ~blocked

Secures(p) ==
    /\ Is(p, "open", "authority") /\ Granted(p) /\ Trusting /\ MayShare(p, Edge)
    /\ Goes(p, "trust", {Edge}, {})
    /\ UNCHANGED <<rowVars, room, spoken>>

\* openMatrixConversation: one that is open is used again, one that was closed is refused.
Reopens(p) ==
    /\ Is(p, "open", "trust") /\ tx[p].grant \in Open /\ Granted(p) /\ Trusting
    /\ MayShare(p, Conversation(tx[p].grant)) /\ Ends(p)
    /\ UNCHANGED <<rowVars, room, spoken>>
CreatesRoom(p) ==
    /\ Is(p, "open", "trust") /\ conversation[tx[p].grant] = "none"
    /\ room' = [room EXCEPT ![tx[p].grant] = "joined"] /\ Goes(p, "room", {}, {})
    /\ UNCHANGED <<rowVars, spoken>>
Opens(p) ==
    /\ Is(p, "open", "room") /\ Granted(p) /\ Trusting /\ Ends(p)
    /\ grants' = [grants EXCEPT ![tx[p].grant] = "live"]
    /\ conversation' = [conversation EXCEPT ![tx[p].grant] = "open"]
    /\ UNCHANGED <<invites, trusted, blocked, published, retirements, room, event, spoken>>

(***************************************************************************)
(* Using and closing it: every use secures the grant and the bot, the       *)
(* trust, and the conversation, in this order                               *)
(***************************************************************************)

\* sendMatrixConversation, acceptMatrixNetworkEvent under the lock of the server,
\* publishMatrixProtocolAnswer, closeMatrixConversation under the lock of the room.
Finds(p) ==
    /\ \/ \E e \in Events, g \in Open :
            event[e].state = "none" /\ Begins(p, "send", "found", g, e, {})
       \/ \E e \in Events :
            /\ event[e].state = "sent" /\ event[e].grant \in Open
            /\ \A t \in Transactions : tx[t].do # "receive"
            /\ Begins(p, "receive", "found", event[e].grant, e, {})
       \/ \E e \in Events :
            /\ event[e].state = "done" /\ event[e].grant \in Open
            /\ Begins(p, "answer", "found", event[e].grant, e, {})
       \/ \E g \in Open :
            /\ \A t \in Transactions : ~(tx[t].do = "close" /\ tx[t].grant = g)
            /\ Begins(p, "close", "found", g, None, {})
    /\ UNCHANGED <<rowVars, room, spoken>>

SharesGrant(p) ==
    /\ tx[p].at = "found" /\ Granted(p)
    /\ MayShare(p, Grant(tx[p].grant)) /\ MayShare(p, Bot)
    /\ Goes(p, "authority", {Grant(tx[p].grant), Bot}, {})
    /\ UNCHANGED <<rowVars, room, spoken>>
SharesTrust(p) ==
    /\ tx[p].do \in Uses /\ tx[p].at = "authority" /\ Trusting /\ MayShare(p, Edge)
    /\ Goes(p, "trust", {Edge}, {})
    /\ UNCHANGED <<rowVars, room, spoken>>
SharesConversation(p) ==
    /\ tx[p].do \in Uses /\ tx[p].at = "trust" /\ tx[p].grant \in Open
    /\ MayShare(p, Conversation(tx[p].grant))
    /\ Goes(p, "conversation", {Conversation(tx[p].grant)}, {})
    /\ UNCHANGED <<rowVars, room, spoken>>

Becomes(e, s) == event' = [event EXCEPT ![e].state = s]

\* A message that no conversation takes, or that is refused, is received and dropped.
Refuses(p) ==
    /\ tx[p].do = "receive" /\ Ends(p) /\ Becomes(tx[p].of, "refused")
    /\ \/ tx[p].at = "found" /\ ~Granted(p)
       \/ tx[p].at = "authority" /\ ~Trusting
       \/ tx[p].at = "trust" /\ tx[p].grant \notin Open
       \/ tx[p].at = "conversation" /\ ~(Granted(p) /\ Trusting)
    /\ UNCHANGED <<invites, trusted, blocked, published, grants, conversation, retirements, room, spoken>>
Ignores(e) ==
    /\ event[e].state = "sent" /\ event[e].grant \notin Open
    /\ \A t \in Transactions : tx[t].do # "receive"
    /\ Becomes(e, "refused")
    /\ UNCHANGED <<invites, trusted, blocked, published, grants, conversation, retirements, room, spoken, tx>>

\* acceptProtocolTask and readProtocolTask look at the authority once more.
Receives(p) ==
    /\ Is(p, "receive", "conversation") /\ Granted(p) /\ Trusting
    /\ Becomes(tx[p].of, "active") /\ Ends(p)
    /\ UNCHANGED <<invites, trusted, blocked, published, grants, conversation, retirements, room, spoken>>

\* The homeserver takes the message, under the transaction identifier of its operation.
Sends(p) ==
    /\ Is(p, "send", "conversation") /\ Goes(p, "said", {}, {})
    /\ event' = IF event[tx[p].of].state # "none" THEN event
                ELSE [event EXCEPT ![tx[p].of] = [state |-> "sent", grant |-> tx[p].grant]]
    /\ UNCHANGED <<invites, trusted, blocked, published, grants, conversation, retirements, room, spoken>>
Speaks(p) ==
    /\ Is(p, "answer", "conversation") /\ Granted(p) /\ Trusting
    /\ Goes(p, "said", {}, {}) /\ spoken' = spoken \cup {tx[p].of}
    /\ UNCHANGED <<rowVars, room>>
Records(p) ==
    /\ tx[p].at = "said" /\ Ends(p)
    /\ IF tx[p].do = "answer" THEN Becomes(tx[p].of, "answered") ELSE event' = event
    /\ UNCHANGED <<invites, trusted, blocked, published, grants, conversation, retirements, room, spoken>>
ClosesRoom(p) ==
    /\ Is(p, "close", "conversation")
    /\ MayRevoke(p, {tx[p].grant}) /\ RevokesAll({tx[p].grant}) /\ Ends(p)
    /\ UNCHANGED <<invites, trusted, blocked, published, room, spoken>>

(***************************************************************************)
(* Statements that are transactions of their own                            *)
(***************************************************************************)

Unlocked(row) == \A t \in Transactions : row \notin tx[t].own \cup tx[t].share
Revocable(g) == Unlocked(Grant(g)) /\ (g \in Open => Unlocked(Conversation(g)))

\* revokeAgentGrant, by the owner; acceptMatrixNetworkEvent of somebody who leaves
\* the room, or of its encryption.
RevokesGrant(g) ==
    /\ g \in Unrevoked /\ Revocable(g) /\ RevokesAll({g})
    /\ UNCHANGED <<invites, trusted, blocked, published, room, spoken, tx>>
IsLeft(g) ==
    /\ g \in Open /\ Revocable(g) /\ RevokesAll({g})
    /\ \A t \in Transactions : tx[t].do # "receive"
    /\ UNCHANGED <<invites, trusted, blocked, published, room, spoken, tx>>

\* saveWorkspaceBot
SavesBot ==
    /\ Unlocked(Bot) /\ published' = ~published
    /\ UNCHANGED <<invites, trusted, blocked, grants, conversation, retirements, room, event, spoken, tx>>

\* retireMatrixRooms: what expired or was hidden is closed; each identity of a queued
\* room leaves, and the row may outlive that.
Sweeps ==
    LET gs == {g \in Open : grants[g] # "live" \/ ~published} IN
    /\ gs # {} /\ \A g \in gs : Unlocked(Conversation(g))
    /\ Closes(gs)
    /\ UNCHANGED <<invites, trusted, blocked, published, grants, room, spoken, tx>>
Retires(g) ==
    /\ g \in retirements /\ room' = [room EXCEPT ![g] = "left"]
    /\ retirements' \in {retirements, retirements \ {g}}
    /\ UNCHANGED <<invites, trusted, blocked, published, grants, conversation, event, spoken, tx>>

Expires(g) ==
    /\ g \in Live /\ grants' = [grants EXCEPT ![g] = "expired"]
    /\ UNCHANGED <<invites, trusted, blocked, published, conversation, retirements, room, event, spoken, tx>>

\* finishProtocolTask (AgentTasks)
Finishes(e) ==
    /\ event[e].state = "active" /\ Becomes(e, "done")
    /\ UNCHANGED <<invites, trusted, blocked, published, grants, conversation, retirements, room, spoken, tx>>

TrustNext ==
    \/ \E p \in Transactions :
         \/ Aborts(p) \/ AsksTrust(p) \/ Invites(p) \/ RepliesToTrust(p) \/ AnswersTrust(p)
         \/ DropsInvites(p) \/ DropsEdge(p) \/ FindsGrants(p) \/ ClearsTrust(p)
         \/ Resolves(p) \/ Issues(p) \/ Secures(p) \/ Reopens(p) \/ CreatesRoom(p) \/ Opens(p)
         \/ Finds(p) \/ SharesGrant(p) \/ SharesTrust(p) \/ SharesConversation(p)
         \/ Refuses(p) \/ Receives(p) \/ Sends(p) \/ Speaks(p) \/ Records(p) \/ ClosesRoom(p)
    \/ \E g \in Grants : RevokesGrant(g) \/ IsLeft(g) \/ Retires(g) \/ Expires(g)
    \/ \E e \in Events : Ignores(e) \/ Finishes(e)
    \/ SavesBot \/ Sweeps

TrustSpec == TrustInit /\ [][TrustNext]_trustVars

-----------------------------------------------------------------------------
(***************************************************************************)
(* Properties                                                               *)
(***************************************************************************)

\* A grant stands only between people who trust each other: whoever ends trust
\* leaves no grant behind, one that was being issued meanwhile included.
GrantsNeedTrust == Unrevoked # {} => trusted

\* Not kept (README, section 6): "a personal block or revoked connection revokes
\* personal-network grants" (adr-trust-networks-and-a2a.md).  An invitation made and
\* accepted while a block is under way restores the trust that the block has passed.
BlockedHasNoGrant == blocked => Unrevoked = {}

\* The requester has one live grant, however many requests open a conversation.
OneLiveGrant == Cardinality(Live) <= 1

\* A revoked grant has no open conversation, and no work goes on in a conversation that is closed:
\* neither a message received nor a conversation opened meanwhile escapes.
ClosedIsQuiet ==
    /\ \A g \in Open : grants[g] # "revoked"
    /\ \A e \in Events : event[e].state = "active" => event[e].grant \in Open

\* A room whose conversation is closed was left, or is queued until it is.
ClosedRoomsAreLeft == \A g \in Grants : conversation[g] = "closed" => g \in retirements \/ room[g] = "left"

\* An answer enters the room only while people trust each other and the grant is not
\* revoked and the conversation is open.
AnswersAreTrusted ==
    \A e \in spoken' \ spoken :
        trusted /\ event[e].grant \in Open /\ grants[event[e].grant] # "revoked"
=============================================================================
