----------------------------- MODULE MCAccounts -----------------------------
(***************************************************************************)
(* What an account owns and leaves behind: AccountErasure, PrivatePayloads, *)
(* SessionArchive and BillingEntitlements on small instances.  A behaviour  *)
(* is a scene of one component while the others keep still.                 *)
(***************************************************************************)
EXTENDS PrivatePayloads, AccountErasure, Sequences, TLC

CONSTANTS
    x1, x2,      \* two people and their requests, two uploads, two handlers of webhooks
    x3,          \* a third person, a source of events
    y1, y2,      \* two checkouts
    c1, o1, k,    \* a company, an owner of payloads, a subscription
    None

VARIABLES
    scene,
    row, bought, changes, events, webhook, checkout,
    log, last, file, deferred, archive, erasing, forgotten, copy, captured, rewinds

\* Whoever deletes an account asks for their own.
Self == [x \in Handlers |-> x]

\* Two administrators and a member, whom they may remove, ask for their deletion while the
\* company changes hands.
Deletions == INSTANCE AccountErasure WITH Failures <- {"providers"}, MaxRestarts <- 0

\* Deletions fail, the service restarts and an older database is restored.
Replayed == INSTANCE AccountErasure WITH Administrators <- {}, Removals <- {}

ASSUME DeletionAssumption == Deletions!DeletionConstants /\ Replayed!DeletionConstants

\* Uploads of owners who are not erased, two backups.
Kept == INSTANCE PrivatePayloads WITH Erasable <- {}, MaxRestores <- 1

\* One upload, and a second restore, perhaps of the backup that the first one abandoned.
Twice == INSTANCE PrivatePayloads WITH Erasable <- {}
OneUpload == Cardinality({x \in Objects : key'[x] # Nothing}) <= 1

\* One whose owner is erased, a backup at a time.
Wiped == INSTANCE PrivatePayloads WITH LastTime <- 2, MaxBackups <- 1

ASSUME PayloadAssumption ==
    Kept!PayloadConstants /\ Twice!PayloadConstants /\ Wiped!PayloadConstants

\* Webhooks in any order, and two checkouts.
Webhooks == INSTANCE BillingEntitlements WITH
    Subscriptions <- {k}, Checkouts <- {y1, y2}, Handlers <- {x1, x2}, Delivery <- "any",
    Faults <- {"stripe", "crash", "database"}, MaxChanges <- 1, handler <- webhook

Ordered == INSTANCE BillingEntitlements WITH
    Subscriptions <- {k}, Checkouts <- {y1}, Handlers <- {x1, x2}, Delivery <- "ordered",
    Faults <- {"stripe", "crash"}, MaxChanges <- 8, handler <- webhook

\* Captures that abort, deliveries that fail, receipts that are lost.
Delivered == INSTANCE SessionArchive WITH
    Sources <- {x1, x2, x3}, PendingLimit <- 2, Batch <- 2, MaxSequence <- 4,
    MaxNamespaces <- 1, MaxRestores <- 0, Faults <- {"abort", "crash", "disk", "rows"},
    journal <- log, restores <- rewinds, erased <- forgotten, backup <- copy

\* Files are lost too; an archive repairs.
Repaired == INSTANCE SessionArchive WITH
    Sources <- {x1, x2, x3}, PendingLimit <- 2, Batch <- 2, MaxSequence <- 4,
    MaxNamespaces <- 1, MaxRestores <- 0, Faults <- {"crash", "rows", "files"},
    journal <- log, restores <- rewinds, erased <- forgotten, backup <- copy

\* The person leaves and comes back, and an older database is restored.
Returned == INSTANCE SessionArchive WITH
    Sources <- {x1, x2}, PendingLimit <- 2, Batch <- 2, MaxSequence <- 3,
    MaxNamespaces <- 2, MaxRestores <- 1, Faults <- {"abort", "crash", "database"},
    journal <- log, restores <- rewinds, erased <- forgotten, backup <- copy

billingOnly == <<bought, changes, events, webhook, checkout>>
archiveOnly == <<log, last, file, deferred, archive, erasing, forgotten, copy, captured, rewinds>>
billingVars == <<row, billingOnly>>
archiveVars == <<row, archiveOnly>>
vars == <<scene, payloadVars, deletionVars, billingVars, archiveVars>>

NoDeletion == DeletionInit /\ accounts.alive = {} /\ accounts.open = {}
NoBilling == bought = None /\ changes = 0 /\ events = <<>> /\ webhook = None /\ checkout = None
NoArchive == /\ log = {} /\ last = 0 /\ file = <<>> /\ deferred = FALSE /\ archive = None
             /\ erasing = {} /\ forgotten = {} /\ copy = None /\ captured = {} /\ rewinds = 0

Init ==
    /\ PayloadInit
    /\ \/ /\ DeletionInit
          /\ \/ scene = "deletions" /\ accounts.alive = Users
             \/ scene = "replayed" /\ accounts.alive = {x1, x2} /\ accounts.open = {}
          /\ row = None /\ NoBilling /\ NoArchive
       \/ /\ scene \in {"kept", "twice", "wiped"}
          /\ NoDeletion /\ row = None /\ NoBilling /\ NoArchive
       \/ /\ \/ scene = "webhooks" /\ Webhooks!BillingInit
             \/ scene = "ordered" /\ Ordered!BillingInit
          /\ NoDeletion /\ NoArchive
       \/ /\ \/ scene = "delivered" /\ Delivered!ArchiveInit
             \/ scene = "repaired" /\ Repaired!ArchiveInit
             \/ scene = "returned" /\ Returned!ArchiveInit
          /\ NoDeletion /\ NoBilling

Next ==
    /\ \/ /\ \/ scene = "deletions" /\ Deletions!DeletionNext
             \/ scene = "replayed" /\ Replayed!DeletionNext
          /\ UNCHANGED <<payloadVars, billingVars, archiveVars>>
       \/ /\ \/ scene = "kept" /\ Kept!PayloadNext
             \/ scene = "twice" /\ Twice!PayloadNext /\ OneUpload
             \/ scene = "wiped" /\ Wiped!PayloadNext
          /\ UNCHANGED <<deletionVars, billingVars, archiveVars>>
       \/ /\ \/ scene = "webhooks" /\ Webhooks!BillingNext
             \/ scene = "ordered" /\ Ordered!BillingNext
          /\ UNCHANGED <<payloadVars, deletionVars, archiveOnly>>
       \/ /\ \/ scene = "delivered" /\ Delivered!ArchiveNext
             \/ scene = "repaired" /\ Repaired!ArchiveNext
             \/ scene = "returned" /\ Returned!ArchiveNext
          /\ UNCHANGED <<payloadVars, deletionVars, billingOnly>>
    /\ UNCHANGED scene

Spec == Init /\ [][Next]_vars

Symmetry == Permutations({x1, x2}) \cup Permutations({y1, y2})

-----------------------------------------------------------------------------
\* SessionArchive: an acknowledged event is pending or on disk, under a number of its own,
\* and files are written in order, once; an export has every acknowledged event and stays
\* able to repair what is lost; nothing is written to an erased namespace again.
ArchiveIsSafe ==
    /\ [](scene = "delivered" =>
            /\ Delivered!ArchiveTypeOK
            /\ Delivered!AcknowledgedIsKept
            /\ Delivered!DeliveredInOrder
            /\ Delivered!ArchivesRepair)
    /\ [](scene = "repaired" =>
            /\ Repaired!ArchiveTypeOK
            /\ Repaired!ExportsAreComplete
            /\ Repaired!ArchivesRepair)
    /\ [](scene = "returned" =>
            /\ Returned!ArchiveTypeOK
            /\ Returned!NumbersAreUnique
            /\ Returned!AcknowledgedIsKept
            /\ Returned!ExportsAreComplete
            /\ Returned!ErasedStaysErased)
    /\ [][scene = "returned" => Returned!FilesAreImmutable]_vars

\* BillingEntitlements: nothing but a purchase gives a paid plan; once everything was
\* delivered in order, whoever pays has the plan and nobody else; and a checkout leaves
\* the plan to the webhooks.
PlansAreSafe ==
    /\ [](scene = "webhooks" => Webhooks!BillingTypeOK /\ Webhooks!NothingForNothing)
    /\ [](scene = "ordered" =>
            Ordered!BillingTypeOK /\ Ordered!PaidIsEntitled /\ Ordered!UnpaidIsFree)
    /\ [][scene = "ordered" => Ordered!OnlyWebhooksChangePlans]_vars
=============================================================================
