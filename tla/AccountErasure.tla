---------------------------- MODULE AccountErasure ----------------------------
(***************************************************************************)
(* server/accounts/deletion.ts over server/accounts/erasure-journal.ts: the  *)
(* deletion of accounts, while companies are joined, handed over and closed  *)
(* (server/workspaces/team.ts, directory.ts), and the replay of the journal   *)
(* before the service starts (scripts/reconcile-account-erasures.ts).        *)
(*                                                                         *)
(* The database is one record, so that a restore puts back an earlier one.   *)
(* The journal is an object store which a restore does not touch.  A company *)
(* has one workspace (directory.ts is the only code that adds one).  The     *)
(* erasure of files, memory and Matrix rooms is in PrivatePayloads and       *)
(* MatrixAudience.                                                           *)
(***************************************************************************)
EXTENDS Naturals, FiniteSets

CONSTANTS
    Users,
    Companies,
    Handlers,       \* requests for the deletion of an account
    Asks,           \* [Handlers -> Users]: whose account a request deletes
    Administrators, \* who may administer every company from the start
    LateJoins,      \* whether a person joins a company while a deletion runs
    Removals,       \* people whom somebody may remove from a workspace
    Failures,       \* subset of {"abort", "restart", "restore", "providers"}
    MaxRestarts,    \* bound on restarts and restores
    Nobody          \* no user, no backup

VARIABLES
    accounts,   \* the tables
    backup,     \* a copy of them, or Nobody
    tombstones, \* users with a record in the erasure journal
    vaults,     \* users with a vault at Vaultwarden
    linked,     \* users with a WhatsApp login at the bridge
    handler,    \* requestAccountDeletion
    startup,    \* reconcile-account-erasures and the service
    erased,     \* users whose erasure was committed once (history)
    restarts    \* number of restarts

deletionVars ==
    <<accounts, backup, tombstones, vaults, linked, handler, startup, erased, restarts>>

\* What is assumed of the constants.
DeletionConstants ==
    /\ Asks \in [Handlers -> Users] /\ Removals \subseteq Users /\ MaxRestarts \in Nat

Roles == {"none", "member", "admin"}
Surfaces == {"vaultwarden", "whatsapp"}
Accounts == [alive : SUBSET Users,              \* public.user and its sessions
             role : [Companies -> [Users -> Roles]],    \* organization_memberships
             place : [Companies -> [Users -> Roles]],   \* workspace_memberships
             open : SUBSET Companies,           \* companies with their workspace
             invited : SUBSET (Companies \X Users),
             paired : SUBSET Users,             \* whatsapp_bridge_accounts
             request : [Users -> {"none", "blocked", "pending_external"}],
             expires : SUBSET Users,            \* requests with an expiry of the backups
             ledger : [Users -> [Surfaces -> {"none", "pending_external", "erased"}]]]
Handler == [at : {"idle", "locks", "erases", "blocks", "wipes"},
            frontier : SUBSET Companies, handles : BOOLEAN]
Startup == [at : {"serves", "replays", "wipes"}, left : SUBSET Users,
            user : Users \cup {Nobody}, handles : BOOLEAN]

DeletionTypeOK ==
    /\ accounts \in Accounts
    /\ backup = Nobody \/ backup \in Accounts
    /\ tombstones \subseteq Users /\ vaults \subseteq Users /\ linked \subseteq Users
    /\ handler \in [Handlers -> Handler]
    /\ startup \in Startup
    /\ erased \subseteq Users
    /\ restarts \in 0..MaxRestarts

NoRequest == [at |-> "idle", frontier |-> {}, handles |-> FALSE]
Serving == [at |-> "serves", left |-> {}, user |-> Nobody, handles |-> FALSE]
NoRoles == [c \in Companies |-> [u \in Users |-> "none"]]
Led == [c \in Companies |-> [u \in Users |-> IF u \in Administrators THEN "admin" ELSE "none"]]

\* Some people have an account.  No company; or companies with their administrators, of
\* whom the code makes only one but account-deletion.integration.ts:303 has two.
Accounts0(people, roles, companies) ==
    [alive |-> people, role |-> roles, place |-> roles, open |-> companies, invited |-> {},
     paired |-> {}, request |-> [u \in Users |-> "none"], expires |-> {},
     ledger |-> [u \in Users |-> [s \in Surfaces |-> "none"]]]

DeletionInit ==
    /\ \E people \in SUBSET Users :
        /\ \/ accounts = Accounts0(people, NoRoles, {})
           \/ /\ Administrators # {} /\ Administrators \subseteq people
              /\ accounts = Accounts0(people, Led, Companies)
        /\ vaults = people
    /\ backup = Nobody /\ tombstones = {} /\ linked = {}
    /\ handler = [h \in Handlers |-> NoRequest] /\ startup = Serving
    /\ erased = {} /\ restarts = 0

Works == startup.at = "serves"

\* lockMatrixOrganizations: the rows of companies that a transaction holds for update.
Locked(c) == \E h \in Handlers : handler[h].at = "erases" /\ c \in handler[h].frontier
Of(u) == {c \in Companies : accounts.role[c][u] # "none"}
MayLock(u) == \A c \in Of(u) : ~Locked(c)

\* A deletion of the account is between its first read and its commit.
Leaving(u) == \E h \in Handlers : Asks[h] = u /\ handler[h].at \in {"locks", "erases"}
MayJoin(u) == u \in accounts.alive /\ (LateJoins \/ ~Leaving(u))

(***************************************************************************)
(* Companies                                                                *)
(***************************************************************************)

OnlyAccounts ==
    UNCHANGED <<backup, tombstones, vaults, linked, handler, startup, erased, restarts>>

\* createUserWorkspace: an organization, its workspace and their administrator.
Creates(u, c) ==
    /\ Works /\ MayJoin(u) /\ c \notin accounts.open
    /\ \A v \in Users : accounts.role[c][v] = "none"
    /\ accounts' = [accounts EXCEPT !.role[c][u] = "admin", !.place[c][u] = "admin",
                                    !.open = @ \cup {c}]
    /\ OnlyAccounts

\* requireWorkspaceAccess(actor, true) in the workspace of the company.
Manages(u, c) == u \in accounts.alive /\ c \in accounts.open /\ accounts.place[c][u] = "admin"
                 /\ accounts.role[c][u] # "none"

Invites(u, c, v) ==
    /\ Works /\ Manages(u, c) /\ u # v /\ v \in accounts.alive /\ accounts.place[c][v] = "none"
    /\ <<c, v>> \notin accounts.invited
    /\ accounts' = [accounts EXCEPT !.invited = @ \cup {<<c, v>>}]
    /\ OnlyAccounts

\* answerWorkspaceInvitation: a membership shares the lock of its company.
Accepts(u, c) ==
    /\ Works /\ MayJoin(u) /\ <<c, u>> \in accounts.invited /\ ~Locked(c)
    /\ accounts' = [accounts EXCEPT !.invited = @ \ {<<c, u>>},
                !.role[c][u] = IF @ = "none" THEN "member" ELSE @,
                !.place[c][u] = IF @ = "none" THEN "member" ELSE @]
    /\ OnlyAccounts

\* removeWorkspaceMember keeps the membership of the organization.
RemovesMember(u, c, v) ==
    /\ Works /\ v \in Removals /\ Manages(u, c) /\ u # v /\ accounts.place[c][v] = "member"
    /\ accounts' = [accounts EXCEPT !.place[c][v] = "none", !.invited = @ \ {<<c, v>>}]
    /\ OnlyAccounts

\* transferOrganizationAdmin.
Transfers(u, c, v) ==
    /\ Works /\ MayLock(u) /\ Manages(u, c) /\ accounts.role[c][u] = "admin"
    /\ accounts.role[c][v] = "member"
    /\ accounts' = [accounts EXCEPT !.role[c][u] = "member", !.role[c][v] = "admin",
                !.place[c][u] = "member", !.place[c][v] = IF @ = "member" THEN "admin" ELSE @]
    /\ OnlyAccounts

\* closeOrganizationForDeletion.
Closes(u, c) ==
    /\ Works /\ MayLock(u) /\ Manages(u, c) /\ accounts.role[c][u] = "admin"
    /\ \A v \in Users \ {u} : accounts.role[c][v] = "none"
    /\ accounts' = [accounts EXCEPT !.open = @ \ {c}, !.place[c] = [v \in Users |-> "none"],
                !.invited = {i \in @ : i[1] # c}]
    /\ OnlyAccounts

\* startWhatsAppPairing and its confirmation; one account of a person is live.
Pairs(u) ==
    /\ Works /\ MayJoin(u) /\ u \notin accounts.paired
    /\ accounts' = [accounts EXCEPT !.paired = @ \cup {u}] /\ linked' = linked \cup {u}
    /\ UNCHANGED <<backup, tombstones, vaults, handler, startup, erased, restarts>>

(***************************************************************************)
(* The deletion                                                             *)
(***************************************************************************)

\* captureMatrixErasureDepartures reads the companies of the account.
Begins(h) ==
    /\ Works /\ handler[h].at = "idle" /\ Asks[h] \in accounts.alive
    /\ handler' = [handler EXCEPT ![h] = [NoRequest EXCEPT !.at = "locks", !.frontier = Of(Asks[h])]]
    /\ UNCHANGED <<accounts, backup, tombstones, vaults, linked, startup, erased, restarts>>

\* isSoleOrganizationOwner.
SoleOwner(u) ==
    \E c \in Companies :
        /\ accounts.role[c][u] = "admin"
        /\ \A v \in Users \ {u} : accounts.role[c][v] # "admin"
        /\ c \in accounts.open \/ \E v \in Users \ {u} : accounts.role[c][v] # "none"

\* The companies that were read are locked before anything is asked.
Holds(h) == \A c \in handler[h].frontier : ~Locked(c)

\* The session is live; collectExternalWipeHandles and ErasureJournal.append.
Admits(h) ==
    /\ handler[h].at = "locks" /\ Holds(h)
    /\ Asks[h] \in accounts.alive /\ ~SoleOwner(Asks[h])
    /\ handler' = [handler EXCEPT ![h].at = "erases",
                                  ![h].handles = Asks[h] \in accounts.paired]
    /\ tombstones' = tombstones \cup {Asks[h]}
    /\ UNCHANGED <<accounts, backup, vaults, linked, startup, erased, restarts>>

Refuses(h) ==
    /\ handler[h].at = "locks" /\ Holds(h)
    /\ handler' = [handler EXCEPT ![h] =
                     IF Asks[h] \in accounts.alive THEN [NoRequest EXCEPT !.at = "blocks"] ELSE NoRequest]
    /\ Asks[h] \in accounts.alive => SoleOwner(Asks[h])
    /\ UNCHANGED <<accounts, backup, tombstones, vaults, linked, startup, erased, restarts>>

\* persistBlockedRequest, in a statement after the transaction.
Blocks(h) ==
    /\ handler[h].at = "blocks"
    /\ accounts' = [accounts EXCEPT !.request[Asks[h]] = "blocked", !.expires = @ \ {Asks[h]}]
    /\ handler' = [handler EXCEPT ![h] = NoRequest]
    /\ UNCHANGED <<backup, tombstones, vaults, linked, startup, erased, restarts>>

\* eraseZoenControlledData and persistCompletedRequest.
Erased(u) ==
    [accounts EXCEPT !.alive = @ \ {u},
       !.role = [c \in Companies |-> [@[c] EXCEPT ![u] = "none"]],
       !.place = [c \in Companies |-> [@[c] EXCEPT ![u] = "none"]],
       !.invited = {i \in @ : i[2] # u}, !.paired = @ \ {u},
       !.request[u] = "pending_external", !.expires = @ \cup {u},
       !.ledger[u] = [s \in Surfaces |-> "pending_external"]]

\* The commit of the transaction.
Erases(h) ==
    /\ handler[h].at = "erases"
    /\ accounts' = Erased(Asks[h]) /\ erased' = erased \cup {Asks[h]}
    /\ handler' = [handler EXCEPT ![h].at = "wipes", ![h].frontier = {}]
    /\ UNCHANGED <<backup, tombstones, vaults, linked, startup, restarts>>

\* The transaction fails: the record stays in the journal.
Aborts(h) ==
    /\ "abort" \in Failures /\ handler[h].at \in {"locks", "erases"}
    /\ handler' = [handler EXCEPT ![h] = NoRequest]
    /\ UNCHANGED <<accounts, backup, tombstones, vaults, linked, startup, erased, restarts>>

\* What a provider does and what it answers.
Outcomes == IF "providers" \in Failures THEN {"ok", "lost", "down"} ELSE {"ok"}

\* Mutant of Marked: the answer of a provider is not looked at.
MarkedUnseen(u, vault, whatsapp, handles) ==
    [accounts EXCEPT !.ledger[u] = [s \in Surfaces |->
        IF @[s] = "pending_external" THEN "erased" ELSE @[s]]]

\* markLedgerErased.
Marked(u, vault, whatsapp, handles) ==
    [accounts EXCEPT !.ledger[u] = [s \in Surfaces |->
        IF @[s] = "pending_external"
           /\ \/ s = "vaultwarden" /\ vault = "ok"
              \/ s = "whatsapp" /\ handles /\ whatsapp = "ok"
        THEN "erased" ELSE @[s]]]

\* attemptExternalWipes: the vault, and the login whose handle was collected.
Wipe(u, handles) ==
    \E vault, whatsapp \in Outcomes :
        /\ vaults' = IF vault = "down" THEN vaults ELSE vaults \ {u}
        /\ linked' = IF handles /\ whatsapp # "down" THEN linked \ {u} ELSE linked
        /\ accounts' = Marked(u, vault, whatsapp, handles)

Wipes(h) ==
    /\ handler[h].at = "wipes" /\ Wipe(Asks[h], handler[h].handles)
    /\ handler' = [handler EXCEPT ![h] = NoRequest]
    /\ UNCHANGED <<backup, tombstones, startup, erased, restarts>>

(***************************************************************************)
(* Backups, restarts and the replay of the journal                          *)
(***************************************************************************)

TakesBackup ==
    /\ "restore" \in Failures /\ backup = Nobody /\ Works
    /\ backup' = accounts
    /\ UNCHANGED <<accounts, tombstones, vaults, linked, handler, startup, erased, restarts>>

Replaying == [at |-> "replays", left |-> tombstones, user |-> Nobody, handles |-> FALSE]

\* start.ts runs the replay before the service; the journal is read again.
Starts == startup' = Replaying

Restarts ==
    /\ "restart" \in Failures /\ restarts < MaxRestarts /\ restarts' = restarts + 1
    /\ handler' = [h \in Handlers |-> NoRequest] /\ Starts
    /\ UNCHANGED <<accounts, backup, tombstones, vaults, linked, erased>>

RestoresAccounts ==
    /\ backup # Nobody /\ restarts < MaxRestarts /\ restarts' = restarts + 1
    /\ accounts' = backup /\ handler' = [h \in Handlers |-> NoRequest] /\ Starts
    /\ UNCHANGED <<backup, tombstones, vaults, linked, erased>>

\* applyAccountDeletionTombstones: a record is erased without the question whether
\* somebody else administers the companies.
ErasesAgain(u) ==
    /\ startup.at = "replays" /\ u \in startup.left
    /\ accounts' = Erased(u) /\ erased' = erased \cup {u}
    /\ startup' = [startup EXCEPT !.at = "wipes", !.left = @ \ {u}, !.user = u,
                                  !.handles = u \in accounts.paired]
    /\ UNCHANGED <<backup, tombstones, vaults, linked, handler, restarts>>

ReplayWipes ==
    /\ startup.at = "wipes" /\ Wipe(startup.user, startup.handles)
    /\ startup' = [Replaying EXCEPT !.left = startup.left]
    /\ UNCHANGED <<backup, tombstones, handler, erased, restarts>>

StartsService ==
    /\ startup.at = "replays" /\ startup.left = {} /\ startup' = Serving
    /\ UNCHANGED <<accounts, backup, tombstones, vaults, linked, handler, erased, restarts>>

Company ==
    \E u \in Users, c \in Companies :
        \/ Creates(u, c) \/ Accepts(u, c) \/ Closes(u, c)
        \/ \E v \in Users : Invites(u, c, v) \/ RemovesMember(u, c, v) \/ Transfers(u, c, v)
Deletion ==
    \E h \in Handlers :
        Begins(h) \/ Admits(h) \/ Refuses(h) \/ Blocks(h) \/ Erases(h) \/ Aborts(h) \/ Wipes(h)
Replay == \E u \in Users : ErasesAgain(u)

DeletionNext ==
    \/ Company \/ Deletion \/ \E u \in Users : Pairs(u)
    \/ TakesBackup \/ Restarts \/ RestoresAccounts \/ Replay \/ ReplayWipes \/ StartsService

DeletionSpec == DeletionInit /\ [][DeletionNext]_deletionVars

\* The replay runs to its end while its process lives; a request does so too.
DeletionFairness ==
    /\ WF_deletionVars(Replay) /\ WF_deletionVars(ReplayWipes) /\ WF_deletionVars(StartsService)

(***************************************************************************)
(* Properties                                                               *)
(***************************************************************************)

\* A company with a workspace or with members has an administrator: deletions of
\* several administrators at once, and transfers, do not take the last one away
\* (isSoleOrganizationOwner under lockMatrixOrganizations).
CompanyKeepsAdmin ==
    \A c \in Companies :
        (c \in accounts.open \/ \E u \in Users : accounts.role[c][u] # "none")
        => \E u \in Users : accounts.role[c][u] = "admin"

\* A company with a workspace is managed by somebody: the last administrator, who may
\* not be deleted, has a way to hand the company over or to close it
\* (transferOrganizationAdmin, closeOrganizationForDeletion).
CompanyIsManaged ==
    \A c \in accounts.open : \E u \in Users : accounts.role[c][u] = "admin" /\ Manages(u, c)

\* While the service runs, nobody whose erasure was committed is back, whatever copy
\* of the database was restored (applyAccountDeletionTombstones before startup).
DeletedStayDeleted == Works => erased \cap accounts.alive = {}

\* A surface of the ledger is erased only when its provider has nothing of the person
\* (markLedgerErased), also after restores, lost answers and replays.
ErasedIsTrue ==
    \A u \in Users :
        /\ accounts.ledger[u]["vaultwarden"] = "erased" => u \notin vaults
        /\ accounts.ledger[u]["whatsapp"] = "erased" => u \notin linked

\* The receipt of a deleted account says that it was deleted and when its backups
\* expire (persistCompletedRequest, persistBlockedRequest).
ReceiptsStoreExpiry ==
    Works => \A u \in erased : accounts.request[u] = "pending_external" /\ u \in accounts.expires

\* One request for the deletion of each account.
OneRequestEach == \A h, i \in Handlers : Asks[h] = Asks[i] => h = i

\* What the deletion of accounts promises: nobody comes back with an older copy of the
\* database, a surface is called erased when it is, receipts are kept, and until the service
\* restarts no deletion or transfer leaves a company behind (the run accounts, and a theorem
\* of ServicesProofs for any people, companies and requests).
DeletionsAreSafe ==
    /\ DeletionTypeOK /\ DeletedStayDeleted /\ ErasedIsTrue
    /\ OneRequestEach => ReceiptsStoreExpiry
    /\ restarts = 0 /\ ~LateJoins =>
          /\ CompanyKeepsAdmin
          /\ (\A c \in Companies, u \in Removals : accounts.role[c][u] # "admin") =>
                CompanyIsManaged

\* Not kept (README, section 6): what a provider has erased is not an obligation again,
\* unless an older database was restored (persistCompletedRequest in a replay).
ErasedStaysErased ==
    \A u \in Users, s \in Surfaces :
        accounts.ledger[u][s] = "erased" /\ accounts' # backup => accounts'.ledger[u][s] = "erased"

\* A restart ends with the service, whether or not the providers answer
\* (attemptExternalWipes turns their failures into obligations).
ServiceReturns == startup.at = "replays" ~> Works
=============================================================================
