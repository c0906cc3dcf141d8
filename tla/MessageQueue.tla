----------------------------- MODULE MessageQueue -----------------------------
(***************************************************************************)
(* One lane of server/messaging/store.ts: the channel_inbox or the         *)
(* channel_outbox rows of one channel identity.  Every operation locks the *)
(* identity first, so each is one action; the rows of other identities     *)
(* never matter to it.                                                     *)
(*                                                                         *)
(* A slot is a row's place in the order of its sequence column, which is   *)
(* assigned under that lock.  The key of a slot is abstracted to the slot: *)
(* a replay of a key changes nothing, whether it returns the stored        *)
(* receipt or PayloadConflict.                                             *)
(*                                                                         *)
(* Whoever was given a lease may use it in any call at any time.  A lease  *)
(* token is a randomUUID: it differs from every token that a row or a      *)
(* caller still has, and only those can be compared with it.               *)
(***************************************************************************)
EXTENDS Naturals, FiniteSets

CONSTANTS
    Lane,         \* "inbox" or "outbox"
    MaxRows,      \* bound of the model: rows of the identity
    Tokens,       \* lease tokens
    Contents,     \* what an inbox message may be prepared as
    None,         \* SQL NULL
    MaxRetries    \* bound of the model: retries an operator authorizes of a row

ASSUME LaneAssumption == Lane \in {"inbox", "outbox"}
ASSUME RowsAssumption == MaxRows \in Nat /\ MaxRetries \in Nat
ASSUME NoneAssumption == None \notin Tokens

VARIABLES
    rows,         \* the row in each slot
    active,       \* the identity is not revoked
    held          \* leases that callers have been given and still run with

queueVars == <<rows, active, held>>

Slots == 1..MaxRows
Status == {"absent", "queued", "dispatching", "uncertain",
           "done", "failed", "cancelled"}
Clock == {"none", "future", "reached"}

\* done stands for accepted in the inbox and sent in the outbox; until is
\* lease_expires_at, a not-before time on a queued row; native abstracts
\* native_input: NULL, a snapshot whose content is null, or one prepared.
Row == [status: Status, token: Tokens \cup {None}, until: Clock,
        native: {"none", "snapshot", "prepared"}, content: Contents \cup {None},
        heard: Nat,        \* times the transcripts of the row were enqueued
        authorized: Nat]   \* its authorize_retry rows in channel_outbox_resolution

Lease == [slot: Slots, token: Tokens]

QueueTypeOK == /\ rows \in [Slots -> Row]
               /\ active \in BOOLEAN
               /\ held \subseteq Lease

AbsentRow == [status |-> "absent", token |-> None, until |-> "none",
              native |-> "none", content |-> None, heard |-> 0, authorized |-> 0]

QueueInit == /\ rows = [i \in Slots |-> AbsentRow]
             /\ active = TRUE
             /\ held = {}

Settled(row) == row.status \in {"done", "failed", "cancelled"}

Only(i, row) == rows' = [rows EXCEPT ![i] = row] /\ UNCHANGED <<active, held>>

(***************************************************************************)
(* insert                                                                  *)
(***************************************************************************)
Insert(i) ==
    /\ active
    /\ rows[i].status = "absent"
    /\ \A j \in Slots : j < i => rows[j].status # "absent"
    /\ Only(i, [AbsentRow EXCEPT !.status = "queued"])

(***************************************************************************)
(* claim                                                                   *)
(***************************************************************************)
Lapsed(row) == row.status = "dispatching" /\ row.until = "reached"

\* Mutant of Aged: a lapsed lease puts its row back in line.
AgedRequeued == [i \in Slots |->
    IF Lapsed(rows[i])
    THEN [rows[i] EXCEPT !.status = "queued", !.token = None, !.until = "none"]
    ELSE rows[i]]

\* The first statement of every claim: a lapsed lease leaves its row uncertain.
Aged == [i \in Slots |->
           IF Lapsed(rows[i])
           THEN [rows[i] EXCEPT !.status = "uncertain", !.token = None, !.until = "none"]
           ELSE rows[i]]

\* An inbox row whose handoff was snapshotted may be claimed again.
Recoverable(row) == Lane = "inbox" /\ row.native # "none"

Claimable(row) ==
    row.status = "queued" \/ (row.status = "uncertain" /\ Recoverable(row))

\* Mutant of Blocks: an uncertain message holds nothing up.
BlocksLeased(row) == row.status = "dispatching"

Blocks(row) ==
    row.status = "dispatching" \/ (row.status = "uncertain" /\ ~Recoverable(row))

\* Mutant of Handed: every claim takes a new snapshot.
HandedAnew(row, t) ==
    [row EXCEPT !.status = "dispatching", !.token = t, !.until = "future",
                !.native = IF Lane = "inbox" THEN "snapshot" ELSE @]

Handed(row, t) ==
    [row EXCEPT !.status = "dispatching", !.token = t, !.until = "future",
                !.native = IF Lane = "inbox" /\ @ = "none" THEN "snapshot" ELSE @]

FreshToken(t) == /\ \A i \in Slots : rows[i].token # t
                 /\ \A lease \in held : lease.token # t

Claim(i, t) ==
    /\ active
    /\ \A j \in Slots : ~Blocks(Aged[j])
    /\ Claimable(Aged[i])
    /\ \A j \in Slots : j < i => ~Claimable(Aged[j])
    /\ Aged[i].until # "future"
    /\ FreshToken(t)
    /\ rows' = [Aged EXCEPT ![i] = Handed(@, t)]
    /\ held' = held \cup {[slot |-> i, token |-> t]}
    /\ UNCHANGED active

\* A claim that finds nothing to hand out still ages the rows, and cancels the
\* queued output of a revoked identity.
ClaimNothing ==
    /\ rows' = IF active \/ Lane = "inbox" THEN Aged
               ELSE [i \in Slots |-> IF rows[i].status = "queued"
                                     THEN [rows[i] EXCEPT !.status = "cancelled"]
                                     ELSE Aged[i]]
    /\ \/ ~active
       \/ \E j \in Slots : Blocks(Aged[j])
       \/ \A j \in Slots : ~Claimable(Aged[j])
       \/ \E i \in Slots : /\ Claimable(Aged[i]) /\ Aged[i].until = "future"
                           /\ \A j \in Slots : j < i => ~Claimable(Aged[j])
    /\ UNCHANGED <<active, held>>

\* What makes the identity a candidate of the schedule tick: a lapsed lease, an
\* inbox row to recover, or a queued row that is ready and that no uncertain
\* row or live lease stands before, unless it only waits to be cancelled.
Eligible ==
    /\ active \/ Lane = "outbox"
    /\ \E i \in Slots :
          \/ rows[i].status = "uncertain" /\ Recoverable(rows[i])
          \/ Lapsed(rows[i])
          \/ /\ rows[i].status = "queued"
             /\ Lane = "inbox" \/ rows[i].until # "future"
             /\ \/ ~active
                \/ \A j \in Slots : /\ rows[j].status # "uncertain"
                                     /\ rows[j].status = "dispatching" => Lapsed(rows[j])

(***************************************************************************)
(* Calls under a lease.                                                    *)
(***************************************************************************)
\* Mutant of LeaseLive: whoever once had a lease of the row still has one.
LeaseLiveUntokened(i, t) ==
    /\ active
    /\ rows[i].status = "dispatching" /\ rows[i].until = "future"

\* requireLease
LeaseLive(i, t) ==
    /\ active
    /\ rows[i].status = "dispatching" /\ rows[i].token = t /\ rows[i].until = "future"

\* complete, or stop with an uncertain or a failed outcome
Ends(row, status) == [row EXCEPT !.status = status, !.token = None, !.until = "none"]

End(i, t, status) == LeaseLive(i, t) /\ Only(i, Ends(rows[i], status))

Complete(i, t) == End(i, t, "done")
Stop(i, t, status) == status \in {"uncertain", "failed"} /\ End(i, t, status)

ScheduleRetry(i, t) ==
    /\ Lane = "outbox"
    /\ LeaseLive(i, t)
    /\ Only(i, [rows[i] EXCEPT !.status = "queued", !.token = None, !.until = "future"])

\* Mutant of PrepareInboxHandoff: a later preparation replaces an earlier one.
PrepareInboxHandoffAgain(i, t, content) ==
    /\ Lane = "inbox"
    /\ LeaseLive(i, t)
    /\ rows[i].native # "none"
    /\ Only(i, [rows[i] EXCEPT !.native = "prepared", !.content = content,
                               !.heard = @ + 1])

\* The content of a message is fixed by its first preparation, which also
\* enqueues its transcripts; a preparation with another content conflicts.
PrepareInboxHandoff(i, t, content) ==
    /\ Lane = "inbox"
    /\ LeaseLive(i, t)
    /\ rows[i].native = "snapshot"
    /\ Only(i, [rows[i] EXCEPT !.native = "prepared", !.content = content,
                               !.heard = @ + 1])

(***************************************************************************)
(* Operators, revocation and time.                                         *)
(***************************************************************************)
MarkDelivered(i) ==
    /\ Lane = "outbox" /\ active
    /\ rows[i].status = "uncertain"
    /\ Only(i, Ends(rows[i], "done"))

\* Cancelling does not need an active identity.
Cancel(i) ==
    /\ Lane = "outbox"
    /\ rows[i].status = "uncertain"
    /\ Only(i, Ends(rows[i], "cancelled"))

AuthorizeRetry(i) ==
    /\ Lane = "outbox" /\ active
    /\ rows[i].status = "uncertain"
    /\ rows[i].authorized < MaxRetries
    /\ Only(i, [Ends(rows[i], "queued") EXCEPT !.authorized = @ + 1])

Revoke == active /\ active' = FALSE /\ UNCHANGED <<rows, held>>

\* A lease ends, or the not-before time of a deferred row comes.
TimeComes(i) ==
    /\ rows[i].until = "future"
    /\ Only(i, [rows[i] EXCEPT !.until = "reached"])

\* The caller that ran with this lease is over.
Forget(lease) ==
    /\ lease \in held
    /\ held' = held \ {lease}
    /\ UNCHANGED <<rows, active>>

LeaseCall(i, t) ==
    \/ Complete(i, t)
    \/ \E status \in {"uncertain", "failed"} : Stop(i, t, status)
    \/ ScheduleRetry(i, t)
    \/ \E content \in Contents : PrepareInboxHandoff(i, t, content)

Resolve(i) == MarkDelivered(i) \/ Cancel(i) \/ AuthorizeRetry(i)

QueueNext ==
    \/ \E i \in Slots : Insert(i) \/ Resolve(i) \/ TimeComes(i)
    \/ \E i \in Slots, t \in Tokens : Claim(i, t)
    \/ ClaimNothing
    \/ \E lease \in held : LeaseCall(lease.slot, lease.token) \/ Forget(lease)
    \/ Revoke

QueueSpec == QueueInit /\ [][QueueNext]_queueVars

-----------------------------------------------------------------------------
(***************************************************************************)
(* Properties.                                                             *)
(***************************************************************************)

\* One message of an identity is handed out at a time, and only when every
\* message before it is settled: neither an expired lease, a deferral, an
\* authorized retry nor a recovered inbox row lets a later message overtake.
HandedInOrder ==
    \A i \in Slots : rows[i].status = "dispatching" =>
        \A j \in Slots : /\ j < i => Settled(rows[j])
                         /\ j # i => rows[j].status # "dispatching"

\* A settled message stays as it is, whatever its late holders, the claims of
\* a revoked identity or an operator attempt.
SettledIsFinal ==
    [][\A i \in Slots : Settled(rows[i]) => rows'[i].status = rows[i].status]_queueVars

\* A lease that stopped being the row's never works again while its caller
\* lives, so what a superseded caller learned too late is not recorded.
LostLeaseStaysLost ==
    [][\A lease \in held : ~LeaseLive(lease.slot, lease.token) =>
          ~LeaseLive(lease.slot, lease.token)']_queueVars

\* What an inbox message was first prepared as is what every later handoff of
\* it sends, and its transcripts are enqueued at most once.
ContentIsStable ==
    [][\A i \in Slots : rows[i].native = "prepared" =>
          /\ rows'[i].native = "prepared"
          /\ rows'[i].content = rows[i].content
          /\ rows'[i].heard = rows[i].heard]_queueVars

(***************************************************************************)
(* The inductive invariant behind the properties above.                    *)
(***************************************************************************)
RowInv(i) ==
    /\ rows[i].token # None <=> rows[i].status = "dispatching"
    /\ rows[i].status = "dispatching" => rows[i].until # "none"
    /\ rows[i].status = "absent" => rows[i] = AbsentRow
    /\ rows[i].status = "absent" => \A j \in Slots : i < j => rows[j].status = "absent"
    /\ Lane = "inbox" /\ rows[i].status \in {"dispatching", "uncertain"}
          => rows[i].native # "none"

QueueInv == /\ QueueTypeOK
            /\ \A i \in Slots : RowInv(i)
            /\ HandedInOrder
            /\ \A i \in Slots : rows[i].status = "uncertain" =>
                  \A j \in Slots : j < i => Settled(rows[j])
=============================================================================
