---------------------------- MODULE PrivatePayloads ----------------------------
(***************************************************************************)
(* server/payloads: PostgreSQL says which immutable object each owner       *)
(* points to, an S3 service keeps the bytes, and no transaction spans the   *)
(* two.  A writer registers its intent, uploads outside any transaction and *)
(* adopts the object with the pointer.  The minute schedule quarantines and *)
(* removes what nothing points to, what the database lost (orphans) and     *)
(* what an erased owner left behind.  Backups of the database are taken,    *)
(* expire and may be restored; the object service is never rewound.         *)
(*                                                                         *)
(* The object service, the backups and the erasure journal are external:    *)
(* a request its process gave up on may still be carried out ("late").      *)
(***************************************************************************)
EXTENDS Naturals, FiniteSets

CONSTANTS
    Objects,      \* candidate identifiers of uploads
    Owners,       \* scopes that hold one payload pointer each
    Erasable,     \* the private ones among them
    Nothing,      \* no object, no owner, no row
    Window,       \* the writer's window
    LastTime,     \* bound on the clock
    MaxBackups,   \* bound on the backups retained at a time
    MaxRestores   \* bound on the restores of the database

VARIABLES
    db,         \* the database: what a backup captures and a restore rewinds
    clock,      \* PostgreSQL's clock
    store,      \* objects the service holds
    late,       \* uploads that nobody waits for any more
    key,        \* the owner in each object's key, Nothing before it is minted
    writer,     \* the process that uploads each object
    backups,    \* retained backups
    restores,   \* how often the database was restored
    journal,    \* owners in the erasure journal
    serving     \* whether the application runs: it starts only once reconciled

VARIABLES       \* history
    acked,      \* owners whose erasure was committed and acknowledged
    lineage,    \* retained backups that the database in use descends from
    forked      \* whether it was ever restored from a backup it did not descend from

payloadVars == <<db, clock, store, late, key, writer, backups, restores, journal, serving,
                 acked, lineage, forked>>

Times == 1 .. LastTime
Instant == Times \cup {0}     \* 0: not yet

\* payload_object; until is write_until, retired is retired_at.
Row == [state: {"pending", "adopted", "deleting", "deleted"}, until: Times,
        verified: BOOLEAN, retired: Instant]

\* claim: the owner has its rows; its deletion left a receipt; its payload
\* erasure is queued; every object of it was swept.
Claims == {"owned", "asked", "queued", "swept"}

\* floor is oldest_backup_start of the backup inventory, 0 while there is none.  A
\* probe older than five minutes only makes the collector wait, as it always may.
Database == [row: [Objects -> Row \cup {Nothing}], point: [Owners -> Objects \cup {Nothing}],
             orphan: [Objects -> Instant], claim: [Owners -> Claims], floor: Instant]

Backup == [start: Times, db: Database]

\* holds: its intent is registered; writing: the PUT is under way; wrote: the
\* object was read back; ready: the intent is marked verified.
WriterPhases == {"none", "holds", "writing", "wrote", "ready"}

\* What is assumed of the constants.
PayloadConstants ==
    /\ Window \in Nat /\ LastTime \in Nat \ {0} /\ MaxBackups \in Nat /\ MaxRestores \in Nat
    /\ Erasable \subseteq Owners
    /\ Nothing \notin Objects \cup Owners \cup Row

PayloadTypeOK ==
    /\ db \in Database
    /\ clock \in Times
    /\ store \subseteq Objects /\ late \subseteq Objects
    /\ key \in [Objects -> Owners \cup {Nothing}]
    /\ writer \in [Objects -> WriterPhases]
    /\ backups \subseteq Backup /\ Cardinality(backups) <= MaxBackups
    /\ restores \in 0 .. MaxRestores
    /\ journal \subseteq Erasable /\ acked \subseteq journal
    /\ serving \in BOOLEAN
    /\ lineage \subseteq backups /\ forked \in BOOLEAN

PayloadInit ==
    /\ db = [row |-> [o \in Objects |-> Nothing], point |-> [w \in Owners |-> Nothing],
             orphan |-> [o \in Objects |-> 0], claim |-> [w \in Owners |-> "owned"], floor |-> 0]
    /\ clock = 1
    /\ store = {} /\ late = {}
    /\ key = [o \in Objects |-> Nothing]
    /\ writer = [o \in Objects |-> "none"]
    /\ backups = {} /\ restores = 0
    /\ journal = {} /\ acked = {}
    /\ serving = TRUE
    /\ lineage = {} /\ forked = FALSE

Registered(o) == db.row[o] # Nothing
Writable(o) == Registered(o) /\ db.row[o].state = "pending" /\ clock < db.row[o].until
Referenced(o) == \E w \in Owners : db.point[w] = o

OutsideUnchanged ==
    UNCHANGED <<clock, backups, restores, journal, serving, acked, lineage, forked>>

(***************************************************************************)
(* Publication.                                                             *)
(***************************************************************************)
Fresh == [state |-> "pending", until |-> clock + Window, verified |-> FALSE, retired |-> 0]

\* The identifier is new, its window ends within the bound, and the guards of
\* the table refuse an erased owner.
Registers(o, w) ==
    /\ serving /\ key[o] = Nothing /\ clock + Window <= LastTime
    /\ db.claim[w] = "owned"
    /\ db' = [db EXCEPT !.row[o] = Fresh]
    /\ key' = [key EXCEPT ![o] = w]
    /\ writer' = [writer EXCEPT ![o] = "holds"]
    /\ UNCHANGED <<store, late>> /\ OutsideUnchanged

StartsPut(o) ==
    /\ writer[o] = "holds" /\ Writable(o)
    /\ writer' = [writer EXCEPT ![o] = "writing"]
    /\ UNCHANGED <<db, store, late, key>> /\ OutsideUnchanged

PutLands(o) ==
    /\ writer[o] = "writing"
    /\ store' = store \cup {o}
    /\ writer' = [writer EXCEPT ![o] = "wrote"]
    /\ UNCHANGED <<db, late, key>> /\ OutsideUnchanged

Verifies(o) ==
    /\ writer[o] = "wrote" /\ Writable(o)
    /\ db' = [db EXCEPT !.row[o].verified = TRUE]
    /\ writer' = [writer EXCEPT ![o] = "ready"]
    /\ UNCHANGED <<store, late, key>> /\ OutsideUnchanged

\* retire_replaced_payload: the pointer of w leaves the object it named.
Retire(row, w) ==
    LET o == db.point[w]
    IN  IF o = Nothing THEN row
        ELSE [row EXCEPT ![o].retired = IF @ = 0 /\ row[o].state = "adopted" THEN clock ELSE @]

\* The owner's transaction: authority, adoption and the pointer commit together.
Publishes(o) ==
    LET w == key[o]
    IN  /\ writer[o] = "ready" /\ Writable(o) /\ db.row[o].verified
        /\ db.claim[w] = "owned"
        /\ db' = [db EXCEPT !.row = Retire([db.row EXCEPT ![o].state = "adopted"], w),
                            !.point[w] = o]
        /\ writer' = [writer EXCEPT ![o] = "none"]
        /\ UNCHANGED <<store, late, key>> /\ OutsideUnchanged

\* The owner gives up its object: a deleted artifact, an empty revision.
Withdraws(w) ==
    /\ serving /\ db.point[w] # Nothing
    /\ db' = [db EXCEPT !.row = Retire(db.row, w), !.point[w] = Nothing]
    /\ UNCHANGED <<store, late, key, writer>> /\ OutsideUnchanged

\* The uploads of the writers W, should they be under way, outlive them.
Abandoned(W) == {o \in W : writer[o] = "writing"}

\* A refusal, a conflict, a lost answer, the end of the process.
WriterStops(o) ==
    /\ writer[o] # "none"
    /\ writer' = [writer EXCEPT ![o] = "none"]
    /\ late' = late \cup Abandoned({o})
    /\ UNCHANGED <<db, store, key>> /\ OutsideUnchanged

LatePut(o) ==
    /\ o \in late
    /\ late' = late \ {o}
    /\ store' = store \cup {o} \/ UNCHANGED store
    /\ UNCHANGED <<db, key, writer>> /\ OutsideUnchanged

\* A writer gives up its PUT before its window closes.
Ticks ==
    LET due == {o \in Objects : Registered(o) /\ db.row[o].until <= clock + 1}
    IN  /\ clock < LastTime
        /\ clock' = clock + 1
        /\ late' = late \cup Abandoned(due)
        /\ writer' = [o \in Objects |-> IF o \in Abandoned(due) THEN "none" ELSE writer[o]]
        /\ UNCHANGED
             <<db, store, key, backups, restores, journal, serving, acked, lineage, forked>>

(***************************************************************************)
(* Collection.  DELETE succeeds only after a read proves absence; an answer *)
(* that is lost leaves the obligation, and perhaps the object.              *)
(***************************************************************************)
CollectorUnchanged == UNCHANGED <<late, key, writer>> /\ OutsideUnchanged

Idle(o) == /\ Registered(o) /\ ~Referenced(o)
           /\ db.row[o].state # "pending" \/ db.row[o].until <= clock

\* A restored pending row may be adopted in a newer retained backup.
Quarantines(o) ==
    /\ serving /\ db.floor # 0
    /\ Idle(o) /\ db.row[o].retired = 0
    /\ db' = [db EXCEPT !.row[o].state = "deleting", !.row[o].retired = clock]
    /\ UNCHANGED store /\ CollectorUnchanged

Expired(t) == db.floor # 0 /\ t # 0 /\ t < db.floor

Removes(o) ==
    /\ serving
    /\ Idle(o) /\ Expired(db.row[o].retired)
    /\ \/ /\ store' = store \ {o}
          /\ db' = [db EXCEPT !.row[o].state = "deleted"]
       \/ /\ store' = store \ {o} \/ UNCHANGED store
          /\ db' = [db EXCEPT !.row[o].state = "deleting"]
    /\ CollectorUnchanged

Discovers(o) ==
    /\ serving /\ o \in store
    /\ ~Registered(o) /\ db.orphan[o] = 0
    /\ db' = [db EXCEPT !.orphan[o] = clock]
    /\ UNCHANGED store /\ CollectorUnchanged

RemovesOrphan(o) ==
    /\ serving /\ o \in store
    /\ Expired(db.orphan[o])
    /\ store' = store \ {o}
    /\ UNCHANGED db /\ CollectorUnchanged

(***************************************************************************)
(* Privacy erasure.                                                         *)
(***************************************************************************)
\* The journal is appended inside the transaction that deletes the owner, which
\* may still fail; an account queues its payload erasure there, a namespace
\* leaves a receipt for the memory worker.
AsksErasure(w) ==
    /\ serving /\ db.claim[w] = "owned"
    /\ journal' = journal \cup {w}
    /\ \/ /\ \E c \in {"asked", "queued"} :
                db' = [db EXCEPT !.row = Retire(db.row, w), !.point[w] = Nothing, !.claim[w] = c]
          /\ acked' = acked \cup {w}
       \/ UNCHANGED <<db, acked>>
    /\ UNCHANGED <<clock, store, late, key, writer, backups, restores, serving, lineage, forked>>

QueuesErasure(w) ==
    /\ serving /\ db.claim[w] = "asked"
    /\ db' = [db EXCEPT !.claim[w] = "queued"]
    /\ UNCHANGED store /\ CollectorUnchanged

ObjectsOf(w) == {o \in Objects : key[o] = w}

\* Mutant of WindowsClosed: the sweep does not wait for the writers.
WindowsIgnored(w) == TRUE

WindowsClosed(w) == \A o \in ObjectsOf(w) : Registered(o) => db.row[o].until <= clock

\* Completed erasures are swept again daily.
Sweeps(w) ==
    /\ serving /\ db.claim[w] \in {"queued", "swept"}
    /\ WindowsClosed(w)
    /\ store' = store \ ObjectsOf(w)
    /\ db' = [db EXCEPT !.claim[w] = "swept"]
    /\ CollectorUnchanged

SweepFails(w) ==
    /\ serving /\ db.claim[w] \in {"queued", "swept"}
    /\ WindowsClosed(w)
    /\ \E gone \in SUBSET ObjectsOf(w) : store' = store \ gone
    /\ UNCHANGED db /\ CollectorUnchanged

(***************************************************************************)
(* Backups, restores and the start of the application.                      *)
(***************************************************************************)
ServiceUnchanged == UNCHANGED <<clock, store, key, journal, acked>>

\* No two backups start at the same instant.
BacksUp ==
    /\ \A b \in backups : b.start # clock
    /\ Cardinality(backups) < MaxBackups
    /\ backups' = backups \cup {[start |-> clock, db |-> db]}
    /\ lineage' = lineage \cup {[start |-> clock, db |-> db]}
    /\ UNCHANGED <<db, late, writer, restores, serving, forked>> /\ ServiceUnchanged

Oldest(b) == \A c \in backups : b.start <= c.start

Expires(b) ==
    /\ Cardinality(backups) > 1 /\ Oldest(b)
    /\ backups' = backups \ {b} /\ lineage' = lineage \ {b}
    /\ UNCHANGED <<db, late, writer, restores, serving, forked>> /\ ServiceUnchanged

\* backup-health.sh publishes the earliest start among the retained backups.
Probes(b) ==
    /\ Oldest(b)
    /\ db' = [db EXCEPT !.floor = b.start]
    /\ UNCHANGED <<late, writer, backups, restores, serving, lineage, forked>> /\ ServiceUnchanged

Halt == /\ serving' = FALSE
        /\ writer' = [o \in Objects |-> "none"]
        /\ late' = late \cup Abandoned(Objects)

Stops ==
    /\ serving /\ Halt
    /\ UNCHANGED <<db, backups, restores, lineage, forked>> /\ ServiceUnchanged

Restores(b) ==
    /\ restores < MaxRestores
    /\ restores' = restores + 1
    /\ db' = b.db
    /\ lineage' = {a \in lineage : a.start <= b.start}
    /\ forked' = (forked \/ b \notin lineage)
    /\ Halt
    /\ UNCHANGED backups /\ ServiceUnchanged

Reconciled == \A w \in journal : db.claim[w] \in {"queued", "swept"}

\* The startup replay: an account's erasure starts over, a namespace's is kept.
Reconciles(w) ==
    /\ ~serving /\ w \in journal
    /\ db' = [db EXCEPT !.row = Retire(db.row, w), !.point[w] = Nothing, !.claim[w] = "queued"]
    /\ UNCHANGED <<late, writer, backups, restores, serving, lineage, forked>> /\ ServiceUnchanged

Serves ==
    /\ ~serving /\ Reconciled
    /\ serving' = TRUE
    /\ UNCHANGED <<db, late, writer, backups, restores, lineage, forked>> /\ ServiceUnchanged

PublicationNext ==
    \/ \E o \in Objects, w \in Owners : Registers(o, w)
    \/ \E o \in Objects : \/ StartsPut(o) \/ PutLands(o) \/ Verifies(o) \/ Publishes(o)
                          \/ WriterStops(o) \/ LatePut(o)
    \/ \E w \in Owners : Withdraws(w)

CollectionNext ==
    \E o \in Objects : Quarantines(o) \/ Removes(o) \/ Discovers(o) \/ RemovesOrphan(o)

ErasureNext ==
    \E w \in Erasable : AsksErasure(w) \/ QueuesErasure(w) \/ Sweeps(w) \/ SweepFails(w)

OperationsNext ==
    \/ Ticks \/ BacksUp \/ Stops \/ Serves
    \/ \E b \in backups : Expires(b) \/ Probes(b) \/ Restores(b)
    \/ \E w \in Erasable : Reconciles(w)

PayloadNext == PublicationNext \/ CollectionNext \/ ErasureNext \/ OperationsNext

PayloadSpec == PayloadInit /\ [][PayloadNext]_payloadVars

\* The application is started, its schedule runs every minute and a sweep the
\* service answers comes about; requests end; time passes.
PayloadFairness ==
    /\ WF_payloadVars(Ticks) /\ WF_payloadVars(Serves)
    /\ \A o \in Objects : WF_payloadVars(LatePut(o))
    /\ \A w \in Erasable : /\ WF_payloadVars(Reconciles(w) /\ db.claim[w] \in {"owned", "asked"})
                           /\ SF_payloadVars(QueuesErasure(w)) /\ SF_payloadVars(Sweeps(w))

(***************************************************************************)
(* Properties.                                                              *)
(***************************************************************************)
\* publication.ts, collection.ts: whatever a served owner points to can be
\* read: no upload, collector, orphan scan, sweep or restore leaves a pointer
\* to an object the service does not hold.
PointersAreStored ==
    \A w \in Owners : db.point[w] # Nothing /\ (serving \/ w \notin journal) => db.point[w] \in store

\* collection.ts:205: retired bytes stay until every retained backup began after
\* their retirement: any retained backup can be restored with its payloads,
\* but for owners whose erasure the journal replays.
BackupsAreRecoverable ==
    \A b \in backups : \A w \in Owners \ journal :
        b.db.point[w] # Nothing => b.db.point[w] \in store

\* erasure-intents.ts, account journal: an acknowledged erasure survives a
\* restore of a database from before it: while the application serves, the owner
\* has no payload and can register none.
ErasureSurvivesRestore ==
    serving => \A w \in acked : db.point[w] = Nothing /\ db.claim[w] # "owned"

\* erasure.ts:76: a sweep is complete only when no writer that registered before
\* the fence can still be uploading.
SweptHasNoWriter ==
    \A o \in Objects : key[o] # Nothing /\ writer[o] = "writing" => db.claim[key[o]] # "swept"

\* What is read, now or from a backup, is stored, as long as the database goes back only to backups
\* it descends from (README, section 6, has what a restore of an abandoned one does); and what was
\* erased stays so, whatever is restored (the run accounts, and a theorem of ServicesProofs for any
\* numbers of objects, owners, backups and restores).
PayloadsAreSafe ==
    /\ PayloadTypeOK /\ ErasureSurvivesRestore /\ SweptHasNoWriter
    /\ ~forked => PointersAreStored /\ BackupsAreRecoverable

\* erasure.ts: the objects of an erased owner, those of a delayed PUT or of a
\* restored database included, are gone in the end, and for good.
ErasedObjectsVanish ==
    \A w \in Erasable : (w \in acked) ~> [](store \cap ObjectsOf(w) = {})
=============================================================================
