----------------------------- MODULE InboxHandoff -----------------------------
(***************************************************************************)
(* agent/lib/channel-session.ts and agent/lib/durable-delivery.ts over the *)
(* inbox lane of MessageQueue: handoffs claim the messages of one identity *)
(* and bring each to the Eve session at the identity's address, which      *)
(* consumes it in a turn and writes a native delivery receipt.  A handoff  *)
(* that cannot tell leaves its message uncertain; the next one recovers    *)
(* the receipt, or sends again.                                            *)
(*                                                                         *)
(* Eve is external: a session takes the copies in its mailbox in order and *)
(* checkpoints each with its turn; a copy to an address without a session  *)
(* opens one.  The digest of a copy is abstracted to the content: the rest *)
(* of what it covers is fixed by the message.                              *)
(***************************************************************************)
EXTENDS MessageQueue, Sequences

CONSTANTS
    Handoffs,      \* concurrent executions of handoffChannelMessage
    Faults,        \* which of AllFaults may happen
    MaxSessions,   \* bound of the model: sessions ever opened at the address
    MaxCopies      \* bound of the model: copies in the mailbox at once

AllFaults == {"media_failed",      \* the media of a message cannot be loaded
              "artifact_missing",  \* nor read again once it was prepared
              "timeout",           \* the 25 seconds of a delivery are over
              "send_throws",       \* Eve's send throws, delivered or not
              "crash",             \* the process of a handoff stops
              "replay",            \* Eve replays a delivery not checkpointed
              "session_ends"}      \* the session at the address ends

ASSUME InboxAssumption == Lane = "inbox"
ASSUME HandoffAssumption ==
    Faults \subseteq AllFaults /\ MaxSessions \in Nat /\ MaxCopies \in Nat

VARIABLES
    handoff,    \* where each handoff is with the message it claimed
    lock,       \* the advisory lock of the address: its holder, or None
    stray,      \* sends that nobody waits for any more
    receipt,    \* native_delivery_receipts of each message
    session,    \* the number of the latest session at the address
    alive,      \* whether it still runs
    mailbox,    \* copies it has not consumed
    consumed,   \* receipts in its checkpointed state
    begun,      \* the copy whose receipt is written and not checkpointed
    turns       \* history: messages that began a turn, in order

handoffVars == <<handoff, lock, stray>>
eveVars == <<receipt, session, alive, mailbox, consumed, begun, turns>>
inboxVars == <<rows, active, held, handoff, lock, stray,
               receipt, session, alive, mailbox, consumed, begun, turns>>

Copy == [slot: Slots, content: Contents]
NoReceipt == [session |-> 0, content |-> None]

Handoff == [phase: {"idle", "claimed", "unsent", "ready", "locking", "locked",
                    "sending", "polling", "found", "doubt", "over"},
            slot: Slots \cup {0}, token: Tokens \cup {None},
            content: Contents \cup {None}]

InboxTypeOK ==
    /\ QueueTypeOK
    /\ handoff \in [Handoffs -> Handoff]
    /\ lock \in Handoffs \cup {None, "stray"}
    /\ stray \subseteq [copy: Copy, locks: BOOLEAN]
    /\ receipt \in [Slots -> [session: Nat, content: Contents \cup {None}]]
    /\ session \in 0..MaxSessions /\ alive \in BOOLEAN
    /\ mailbox \in Seq(Copy)
    /\ consumed \subseteq Slots
    /\ begun \in BOOLEAN
    /\ turns \in Seq(Slots)

IdleHandoff == [phase |-> "idle", slot |-> 0, token |-> None, content |-> None]

InboxInit ==
    /\ QueueInit
    /\ handoff = [h \in Handoffs |-> IdleHandoff]
    /\ lock = None /\ stray = {}
    /\ receipt = [i \in Slots |-> NoReceipt]
    /\ session = 0 /\ alive = FALSE
    /\ mailbox = <<>> /\ consumed = {} /\ begun = FALSE /\ turns = <<>>

At(h, phase) == handoff[h].phase = phase
Goes(h, phase) == handoff' = [handoff EXCEPT ![h].phase = phase]
Live(h) == LeaseLive(handoff[h].slot, handoff[h].token)
QueueUnchanged == UNCHANGED queueVars

\* Mutant of Accepted: the receipt is enough.
AcceptedByReceipt(i) == receipt[i].session = session /\ alive

\* What a handoff learns from the receipt of its message: a session it can
\* resolve once that session has checkpointed the alias it set.
Accepted(i) == /\ receipt[i].session = session
               /\ alive /\ i \in consumed

(***************************************************************************)
(* Claim, recover, prepare.                                                *)
(***************************************************************************)
HandoffClaims(h) ==
    /\ At(h, "idle")
    /\ \/ \E i \in Slots, t \in Tokens :
             /\ Claim(i, t)
             /\ handoff' = [handoff EXCEPT ![h] =
                  [phase |-> "claimed", slot |-> i, token |-> t, content |-> None]]
       \/ ClaimNothing /\ UNCHANGED handoff
    /\ UNCHANGED <<lock, stray>> /\ UNCHANGED eveVars

\* Mutant of Recovers: an unsent message is taken for a prepared one.
RecoversUnprepared(h) ==
    /\ At(h, "claimed")
    /\ Goes(h, IF Accepted(handoff[h].slot) THEN "found" ELSE "ready")
    /\ QueueUnchanged /\ UNCHANGED <<lock, stray>> /\ UNCHANGED eveVars

\* The receipt is looked up before anything else, then the lease is checked.
Recovers(h) ==
    /\ At(h, "claimed")
    /\ Goes(h, IF Accepted(handoff[h].slot) THEN "found" ELSE "unsent")
    /\ QueueUnchanged /\ UNCHANGED <<lock, stray>> /\ UNCHANGED eveVars

\* Media that cannot be loaded fails the message; a prepared message whose
\* artifacts are gone is left uncertain.
Prepares(h) ==
    LET i == handoff[h].slot
        t == handoff[h].token
    IN  /\ At(h, "unsent")
        /\ \/ ~Live(h) /\ QueueUnchanged /\ Goes(h, "over")
           \/ \E c \in Contents :
                 /\ PrepareInboxHandoff(i, t, c)
                 /\ handoff' = [handoff EXCEPT ![h].phase = "ready", ![h].content = c]
           \/ /\ "media_failed" \in Faults
              /\ rows[i].native = "snapshot"
              /\ Stop(i, t, "failed") /\ Goes(h, "over")
           \/ /\ Live(h) /\ rows[i].native = "prepared" /\ QueueUnchanged
              /\ handoff' = [handoff EXCEPT ![h].phase = "ready",
                                            ![h].content = rows[i].content]
           \/ /\ "artifact_missing" \in Faults
              /\ Live(h) /\ rows[i].native = "prepared" /\ QueueUnchanged
              /\ Goes(h, "doubt")
        /\ UNCHANGED <<lock, stray>> /\ UNCHANGED eveVars

\* The last check of the lease before the message leaves.
Checks(h) ==
    /\ At(h, "ready")
    /\ Goes(h, IF Live(h) THEN "locking" ELSE "over")
    /\ QueueUnchanged /\ UNCHANGED <<lock, stray>> /\ UNCHANGED eveVars

(***************************************************************************)
(* sendDurableMessage, under the lock of the address.                      *)
(***************************************************************************)
Locks(h) ==
    /\ At(h, "locking") /\ lock = None
    /\ lock' = h /\ Goes(h, "locked")
    /\ QueueUnchanged /\ UNCHANGED stray /\ UNCHANGED eveVars

\* A message without a receipt is sent; one with another digest conflicts.
Decides(h) ==
    LET seen == receipt[handoff[h].slot]
    IN  /\ At(h, "locked")
        /\ \/ seen = NoReceipt /\ Goes(h, "sending") /\ UNCHANGED lock
           \/ /\ seen # NoReceipt /\ seen.content = handoff[h].content
              /\ Goes(h, "polling") /\ UNCHANGED lock
           \/ /\ seen # NoReceipt /\ seen.content # handoff[h].content
              /\ Goes(h, "doubt") /\ lock' = None
        /\ QueueUnchanged /\ UNCHANGED stray /\ UNCHANGED eveVars

CopyOf(h) == [slot |-> handoff[h].slot, content |-> handoff[h].content]

\* A copy reaches the session at the address, or opens one.
Arrives(copy) ==
    /\ IF alive
       THEN /\ Len(mailbox) < MaxCopies
            /\ mailbox' = Append(mailbox, copy)
            /\ UNCHANGED <<session, alive, consumed>>
       ELSE /\ session < MaxSessions
            /\ session' = session + 1 /\ alive' = TRUE
            /\ mailbox' = <<copy>> /\ consumed' = {}
    /\ UNCHANGED <<receipt, begun, turns>>

Sends(h) ==
    /\ At(h, "sending")
    /\ Arrives(CopyOf(h)) /\ Goes(h, "polling")
    /\ QueueUnchanged /\ UNCHANGED <<lock, stray>>

SendThrows(h) ==
    /\ "send_throws" \in Faults
    /\ At(h, "sending")
    /\ Arrives(CopyOf(h)) \/ UNCHANGED eveVars
    /\ Goes(h, "doubt") /\ lock' = None
    /\ QueueUnchanged /\ UNCHANGED stray

Polls(h) ==
    /\ At(h, "polling") /\ Accepted(handoff[h].slot)
    /\ Goes(h, "found") /\ lock' = None
    /\ QueueUnchanged /\ UNCHANGED stray /\ UNCHANGED eveVars

Strays(h, locks) == stray' = stray \cup {[copy |-> CopyOf(h), locks |-> locks]}

\* The caller is told of the timeout, but a send under way keeps its
\* transaction, and the lock, until it returns.
TimesOut(h) ==
    /\ "timeout" \in Faults
    /\ handoff[h].phase \in {"locking", "sending", "polling"}
    /\ Goes(h, "doubt")
    /\ lock' = IF At(h, "sending") THEN "stray" ELSE IF lock = h THEN None ELSE lock
    /\ IF At(h, "sending") THEN Strays(h, TRUE) ELSE UNCHANGED stray
    /\ QueueUnchanged /\ UNCHANGED eveVars

StrayReturns(late) ==
    /\ late \in stray /\ stray' = stray \ {late}
    /\ Arrives(late.copy) \/ UNCHANGED eveVars
    /\ lock' = IF late.locks THEN None ELSE lock
    /\ QueueUnchanged /\ UNCHANGED handoff

(***************************************************************************)
(* The outcome of the handoff, and its end.                                *)
(***************************************************************************)
Concludes(h) ==
    LET i == handoff[h].slot
        t == handoff[h].token
    IN  /\ At(h, "found") \/ At(h, "doubt")
        /\ IF ~Live(h) THEN QueueUnchanged
           ELSE IF At(h, "found") THEN Complete(i, t) ELSE Stop(i, t, "uncertain")
        /\ Goes(h, "over")
        /\ UNCHANGED <<lock, stray>> /\ UNCHANGED eveVars

Leaves(h) ==
    /\ Forget([slot |-> handoff[h].slot, token |-> handoff[h].token])
    /\ handoff' = [handoff EXCEPT ![h] = IdleHandoff]

HandoffEnds(h) ==
    /\ At(h, "over") /\ Leaves(h)
    /\ UNCHANGED <<lock, stray>> /\ UNCHANGED eveVars

\* The database ends the transaction of a lost process and frees its lock.
HandoffCrash(h) ==
    /\ "crash" \in Faults
    /\ ~At(h, "idle") /\ Leaves(h)
    /\ lock' = IF lock = h THEN None ELSE lock
    /\ IF At(h, "sending") THEN Strays(h, FALSE) ELSE UNCHANGED stray
    /\ UNCHANGED eveVars

(***************************************************************************)
(* The session: deliverOnce, and the checkpoint that follows it.           *)
(***************************************************************************)
OnlyEve == QueueUnchanged /\ UNCHANGED handoffVars

\* A copy this session has consumed is dropped; one whose receipt names another
\* session or digest is refused.
DropsCopy ==
    LET copy == Head(mailbox)
    IN  /\ alive /\ ~begun /\ mailbox # <<>>
        /\ \/ copy.slot \in consumed
           \/ receipt[copy.slot] \notin
                 {NoReceipt, [session |-> session, content |-> copy.content]}
        /\ mailbox' = Tail(mailbox)
        /\ UNCHANGED <<receipt, session, alive, consumed, begun, turns>> /\ OnlyEve

\* Mutant of RecordsReceipt: a receipt of its own does not stop the session.
RecordsReceiptAgain ==
    LET copy == Head(mailbox)
        mine == [session |-> session, content |-> copy.content]
    IN  /\ alive /\ ~begun /\ mailbox # <<>>
        /\ receipt[copy.slot] \in {NoReceipt, mine}
        /\ receipt' = [receipt EXCEPT ![copy.slot] = mine]
        /\ begun' = TRUE
        /\ UNCHANGED <<session, alive, mailbox, consumed, turns>> /\ OnlyEve

RecordsReceipt ==
    LET copy == Head(mailbox)
        mine == [session |-> session, content |-> copy.content]
    IN  /\ alive /\ ~begun /\ mailbox # <<>>
        /\ copy.slot \notin consumed
        /\ receipt[copy.slot] \in {NoReceipt, mine}
        /\ receipt' = [receipt EXCEPT ![copy.slot] = mine]
        /\ begun' = TRUE
        /\ UNCHANGED <<session, alive, mailbox, consumed, turns>> /\ OnlyEve

BeginsTurn ==
    LET i == Head(mailbox).slot
    IN  /\ alive /\ begun
        /\ consumed' = consumed \cup {i} /\ turns' = Append(turns, i)
        /\ mailbox' = Tail(mailbox) /\ begun' = FALSE
        /\ UNCHANGED <<receipt, session, alive>> /\ OnlyEve

EveReplays ==
    /\ "replay" \in Faults
    /\ begun /\ begun' = FALSE
    /\ UNCHANGED <<receipt, session, alive, mailbox, consumed, turns>> /\ OnlyEve

SessionEnds ==
    /\ "session_ends" \in Faults
    /\ alive /\ alive' = FALSE
    /\ mailbox' = <<>> /\ consumed' = {} /\ begun' = FALSE
    /\ UNCHANGED <<receipt, session, turns>> /\ OnlyEve

HandoffStep(h) ==
    \/ Recovers(h) \/ Prepares(h) \/ Checks(h) \/ Locks(h) \/ Decides(h)
    \/ Sends(h) \/ Polls(h) \/ Concludes(h) \/ HandoffEnds(h)

SessionStep == DropsCopy \/ RecordsReceipt \/ BeginsTurn

InboxNext ==
    \/ \E h \in Handoffs :
          \/ HandoffClaims(h) \/ HandoffStep(h)
          \/ SendThrows(h) \/ TimesOut(h) \/ HandoffCrash(h)
    \/ \E late \in stray : StrayReturns(late)
    \/ SessionStep \/ EveReplays \/ SessionEnds
    \/ \E i \in Slots : (Insert(i) \/ TimeComes(i))
                        /\ UNCHANGED handoffVars /\ UNCHANGED eveVars
    \/ Revoke /\ UNCHANGED handoffVars /\ UNCHANGED eveVars

InboxSafety == InboxInit /\ [][InboxNext]_inboxVars

\* The tick hands over its candidates every minute, a live process takes its
\* next statement, a send returns, Eve drives its session and leases end.
\* Leases do not always end at the same statement, and Eve does not refuse
\* every send.
LeasePhases == {"claimed", "unsent", "ready", "found"}

InboxFairness ==
    /\ \A h \in Handoffs : /\ WF_inboxVars(Eligible /\ HandoffClaims(h))
                           /\ WF_inboxVars(HandoffStep(h))
    /\ \A i \in Slots : WF_inboxVars(TimeComes(i) /\ UNCHANGED handoffVars /\ UNCHANGED eveVars)
    /\ \A p \in LeasePhases :
          SF_inboxVars(\E h \in Handoffs : At(h, p) /\ Live(h) /\ HandoffStep(h))
    /\ SF_inboxVars(\E h \in Handoffs : Sends(h))
    /\ WF_inboxVars(\E late \in stray : StrayReturns(late))
    /\ WF_inboxVars(SessionStep)

InboxSpec == InboxSafety /\ InboxFairness

-----------------------------------------------------------------------------
(***************************************************************************)
(* Properties.                                                             *)
(***************************************************************************)

\* No message begins two turns, and turns begin in the order in which messages
\* came: neither repeated handoffs, late copies, replays by Eve nor another
\* session at the address duplicate or reorder what the assistant reads.
TurnsFollowInbox ==
    \A m, n \in 1..Len(turns) : m < n => turns[m] < turns[n]

\* A message is called accepted only when a session consumed it under its
\* receipt, which names that session's copy and no other.
AcceptedWasConsumed ==
    \A i \in Slots : rows[i].status = "done" =>
        /\ \E m \in 1..Len(turns) : turns[m] = i
        /\ receipt[i].content = rows[i].content

\* The handoffs of a message never disagree about it: every copy, every receipt
\* and every handoff in flight carries the content of its first preparation.
NoConflictingReplay ==
    \A i \in Slots :
        /\ receipt[i].content \in {None, rows[i].content}
        /\ \A m \in 1..Len(mailbox) : mailbox[m].slot = i => mailbox[m].content = rows[i].content
        /\ \A late \in stray : late.copy.slot = i => late.copy.content = rows[i].content
        /\ \A h \in Handoffs : handoff[h].slot = i /\ handoff[h].content # None =>
              handoff[h].content = rows[i].content

\* The handoffs only use the queue as MessageQueue allows, under the leases
\* they were given, so what holds of MessageQueue holds here.
FollowsQueue == QueueSpec

\* While the identity is active and its session lives, every message that came
\* in is accepted or refused, whatever its handoffs go through.
MessagesAccepted ==
    \A i \in Slots : rows[i].status # "absent" ~> (Settled(rows[i]) \/ ~active)
=============================================================================
