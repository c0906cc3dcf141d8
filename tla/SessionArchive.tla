---------------------------- MODULE SessionArchive ----------------------------
(***************************************************************************)
(* server/memory/session-capture.ts, session-files.ts and session-export.ts *)
(* with the erasure of a namespace: the record of what was said to an agent. *)
(* An event is first a row under the next number of a sequence; a tick       *)
(* writes the pending rows of a person to immutable files, in order; an      *)
(* archive is a copy of all files, and files and archives repair the rows.   *)
(*                                                                         *)
(* Capture, delivery, export and repair hold the row of the namespace to     *)
(* their end, so each is one action; a crash leaves the files it wrote.      *)
(***************************************************************************)
EXTENDS Naturals, FiniteSets, SequencesExt

CONSTANTS
    Sources,         \* events of the sessions of one person in one workspace
    PendingLimit,    \* rows that may wait for delivery: 1,000 in the code
    Batch,           \* rows that a delivery takes: 25
    MaxSequence,     \* bounds on the sequence, on the namespaces of the person
    MaxNamespaces,
    MaxRestores,     \* and on restores of the database
    Faults,          \* subset of {"abort", "crash", "disk", "rows", "files", "database"}
    None

VARIABLES
    journal,         \* [namespace, enabled, count, high] of workspace_memory_namespace
    row,             \* [Sources -> None or [seq, stored]]: memory_session_sources
    last,            \* the sequence, which an aborted transaction does not give back
    file,            \* [namespaces -> [Sources -> number or 0]]
    deferred,        \* whether the pending rows wait for a later tick
    archive,         \* the last complete archive that the person has exported
    erasing,         \* workspace_memory_erasure: namespaces whose files are to be removed
    erased,          \* namespaces in the journal of erasures, which no restore touches
    backup, restores,
    captured         \* events acknowledged in this namespace (history)

archiveVars == <<journal, row, last, file, deferred, archive, erasing, erased, backup, restores, captured>>

Namespaces == 1..(MaxNamespaces + MaxRestores)
NewJournal(namespace) == [namespace |-> namespace, enabled |-> TRUE, count |-> 0, high |-> 0]
NoRows == [e \in Sources |-> None]
NoFiles == [e \in Sources |-> 0]

Rows == {e \in Sources : row[e] # None}
Pending == {e \in Rows : ~row[e].stored}
Files == file[journal.namespace]
Largest(numbers) == IF numbers = {} THEN 0 ELSE Max(numbers)

ArchiveInit ==
    /\ journal = NewJournal(1) /\ row = NoRows /\ last = 0
    /\ file = [n \in Namespaces |-> NoFiles] /\ deferred = FALSE
    /\ archive = None /\ erasing = {} /\ erased = {} /\ backup = None /\ restores = 0 /\ captured = {}

-----------------------------------------------------------------------------
\* captureSessionSource: an event that is known is left alone; a number that
\* does not advance the journal aborts the transaction.  (Eve repeats an event
\* soon, so not after its row was lost.)
Capturable(e) ==
    /\ journal.enabled /\ journal.namespace \notin erasing
    /\ row[e] = None /\ Cardinality(Pending) < PendingLimit /\ last < MaxSequence
    /\ e \notin captured

Captures(e) ==
    /\ Capturable(e) /\ last' = last + 1
    /\ IF last + 1 <= journal.high
       THEN UNCHANGED <<journal, row, captured>>
       ELSE /\ row' = [row EXCEPT ![e] = [seq |-> last + 1, stored |-> FALSE]]
            /\ journal' = [journal EXCEPT !.count = @ + 1, !.high = last + 1]
            /\ captured' = captured \cup {e}
    /\ UNCHANGED <<file, deferred, archive, erasing, erased, backup, restores>>

CaptureAborts ==
    /\ "abort" \in Faults /\ last < MaxSequence /\ last' = last + 1
    /\ UNCHANGED <<journal, row, file, deferred, archive, erasing, erased, backup, restores, captured>>

\* deliverNamespaceBatch: the oldest pending rows, in the order of capture.
Waiting == SetToSortSeq(Pending, LAMBDA d, e : row[d].seq < row[e].seq)
Oldest == SubSeq(Waiting, 1, IF Len(Waiting) < Batch THEN Len(Waiting) ELSE Batch)
Taken(n) == {Oldest[k] : k \in 1..n}

\* writeSessionSource links a file once; it may find the same bytes there.
MayWrite(e, seq) == Files[e] \in {0, seq}
Written(n) == [file EXCEPT ![journal.namespace] =
                  [e \in Sources |-> IF e \in Taken(n) THEN row[e].seq ELSE @[e]]]

Deliverable == /\ Pending # {} /\ journal.enabled /\ ~deferred
               /\ journal.namespace \notin erasing

\* Mutant of Acknowledged: the rows of the batch are marked whatever was written.
AcknowledgesBatch(n) ==
    [e \in Sources |-> IF e \in Taken(Len(Oldest)) THEN [row[e] EXCEPT !.stored = TRUE] ELSE row[e]]

Acknowledged(n) ==
    IF n = Len(Oldest)
    THEN [e \in Sources |-> IF e \in Taken(n) THEN [row[e] EXCEPT !.stored = TRUE] ELSE row[e]]
    ELSE row

Delivers ==
    /\ Deliverable
    /\ \E n \in 0..Len(Oldest) :
         /\ \A e \in Taken(n) : MayWrite(e, row[e].seq)
         /\ \/ n = Len(Oldest) /\ deferred' = FALSE
            \/ n < Len(Oldest) /\ deferred' = TRUE
               /\ ("disk" \in Faults \/ ~MayWrite(Oldest[n + 1], row[Oldest[n + 1]].seq))
         /\ file' = Written(n) /\ row' = Acknowledged(n)
    /\ UNCHANGED <<journal, last, archive, erasing, erased, backup, restores, captured>>

\* The process dies before the commit.
DeliveryCrashes ==
    /\ "crash" \in Faults /\ Deliverable
    /\ \E n \in 1..Len(Oldest) : /\ \A e \in Taken(n) : MayWrite(e, row[e].seq)
                                /\ file' = Written(n)
    /\ UNCHANGED <<journal, row, last, deferred, archive, erasing, erased, backup, restores, captured>>

DelayEnds ==
    /\ deferred /\ deferred' = FALSE
    /\ UNCHANGED <<journal, row, last, file, archive, erasing, erased, backup, restores, captured>>

\* setEnabled
Switches ==
    /\ journal' = [journal EXCEPT !.enabled = ~@]
    /\ UNCHANGED <<row, last, file, deferred, archive, erasing, erased, backup, restores, captured>>

-----------------------------------------------------------------------------
\* captureCompleteJournal: as many rows as were ever captured, up to the last
\* one, all delivered, and exactly their files.
Complete ==
    /\ Cardinality(Rows) = journal.count /\ Largest({row[e].seq : e \in Rows}) = journal.high
    /\ \A e \in Rows : row[e].stored
    /\ \A e \in Sources : Files[e] = IF e \in Rows THEN row[e].seq ELSE 0

Exports ==
    /\ Complete /\ journal.namespace \notin erasing
    /\ archive' = [namespace |-> journal.namespace, file |-> Files]
    /\ UNCHANGED <<journal, row, last, file, deferred, erasing, erased, backup, restores, captured>>

\* sourceReceipt: the number was allocated, is nobody else's, and is that of
\* the row of the event if there is one.
Agrees(e, seq) ==
    /\ seq <= last
    /\ \A d \in Rows \ {e} : row[d].seq # seq
    /\ row[e] # None => row[e].seq = seq

WithRows(numbers) ==
    [e \in Sources |-> IF row[e] = None /\ numbers[e] # 0
                       THEN [seq |-> numbers[e], stored |-> TRUE] ELSE row[e]]

\* restoreArchive with restoreCompleteSessionSources: everything is checked
\* before a file is written, and no file is written over.
InArchive(a) == {e \in Sources : a.file[e] # 0}

Restorable(a) ==
    /\ a.namespace = journal.namespace /\ a.namespace \notin erasing
    /\ Cardinality(InArchive(a)) <= journal.count
    /\ Largest({a.file[e] : e \in InArchive(a)}) <= journal.high
    /\ \A e \in InArchive(a) : /\ MayWrite(e, a.file[e]) /\ Agrees(e, a.file[e])
                               /\ e \notin Pending

Restores ==
    /\ archive # None /\ Restorable(archive)
    /\ file' = [file EXCEPT ![journal.namespace] =
                   [e \in Sources |-> IF archive.file[e] # 0 THEN archive.file[e] ELSE @[e]]]
    /\ \/ row' = WithRows(archive.file)
       \/ "crash" \in Faults /\ UNCHANGED row
    /\ UNCHANGED <<journal, last, deferred, archive, erasing, erased, backup, restores, captured>>

\* rebuildSessionSourceReceipts
Rebuilds ==
    /\ journal.namespace \notin erasing
    /\ \A e \in Sources : Files[e] # 0 => Agrees(e, Files[e])
    /\ row' = WithRows(Files) /\ row' # row
    /\ UNCHANGED <<journal, last, file, deferred, archive, erasing, erased, backup, restores, captured>>

-----------------------------------------------------------------------------
\* The person leaves: the namespace goes with its rows, a trigger keeps the
\* obligation to remove its files, and on their return a new one is made.
Fresh(namespace) ==
    /\ journal' = NewJournal(namespace) /\ row' = NoRows /\ deferred' = FALSE /\ captured' = {}

Erases ==
    /\ journal.namespace < MaxNamespaces /\ Fresh(journal.namespace + 1)
    /\ erasing' = erasing \cup {journal.namespace} /\ erased' = erased \cup {journal.namespace}
    /\ UNCHANGED <<last, file, archive, backup, restores>>

\* eraseNextReceipt; the file system may fail and leave the obligation.
Sweeps(n) ==
    /\ n \in erasing /\ erasing' = erasing \ {n}
    /\ file' = [file EXCEPT ![n] = NoFiles]
    /\ UNCHANGED <<journal, row, last, deferred, archive, erased, backup, restores, captured>>

LosesRows(e) ==
    /\ "rows" \in Faults /\ row[e] # None /\ row[e].stored
    /\ row' = [row EXCEPT ![e] = None]
    /\ UNCHANGED <<journal, last, file, deferred, archive, erasing, erased, backup, restores, captured>>

LosesFiles(e) ==
    /\ "files" \in Faults /\ Files[e] # 0
    /\ file' = [file EXCEPT ![journal.namespace][e] = 0]
    /\ UNCHANGED <<journal, row, last, deferred, archive, erasing, erased, backup, restores, captured>>

BacksUp ==
    /\ "database" \in Faults /\ restores < MaxRestores
    /\ backup' = [journal |-> journal, row |-> row, last |-> last, deferred |-> deferred,
                  erasing |-> erasing, captured |-> captured]
    /\ UNCHANGED <<journal, row, last, file, deferred, archive, erasing, erased, restores, captured>>

\* An older database is restored and applyMemoryErasureIntents runs before the
\* service starts: what was erased since is erased again.
RestoresWithJournal ==
    /\ erasing' = backup.erasing \cup erased
    /\ IF backup.journal.namespace \in erased
       THEN Fresh(journal.namespace + 1)
       ELSE /\ journal' = backup.journal /\ row' = backup.row /\ deferred' = backup.deferred
            /\ captured' = backup.captured

RestoresDatabase ==
    /\ backup # None /\ restores < MaxRestores /\ restores' = restores + 1 /\ backup' = None
    /\ last' = backup.last /\ RestoresWithJournal
    /\ UNCHANGED <<file, archive, erased>>

ArchiveNext ==
    \/ \E e \in Sources : Captures(e) \/ LosesRows(e) \/ LosesFiles(e)
    \/ CaptureAborts \/ Delivers \/ DeliveryCrashes \/ DelayEnds \/ Switches
    \/ Exports \/ Restores \/ Rebuilds
    \/ Erases \/ (\E n \in Namespaces : Sweeps(n)) \/ BacksUp \/ RestoresDatabase

ArchiveSpec == ArchiveInit /\ [][ArchiveNext]_archiveVars

-----------------------------------------------------------------------------
ArchiveTypeOK ==
    /\ journal.namespace \in Namespaces /\ journal.enabled \in BOOLEAN
    /\ journal.count \in Nat /\ journal.high \in 0..MaxSequence /\ last \in 0..MaxSequence
    /\ \A e \in Rows : row[e].seq \in 1..MaxSequence /\ row[e].stored \in BOOLEAN
    /\ file \in [Namespaces -> [Sources -> 0..MaxSequence]]
    /\ deferred \in BOOLEAN /\ erasing \subseteq Namespaces /\ captured \subseteq Sources

\* A number belongs to one event, and none is given out again below a row:
\* whatever archives, files and older databases bring back.
NumbersAreUnique ==
    /\ \A d, e \in Rows : row[d].seq = row[e].seq => d = e
    /\ \A e \in Rows : row[e].seq <= last

\* An event that was acknowledged is pending, or its file is there: the payload
\* is dropped only after the file is on disk, also when a row is lost later.
AcknowledgedIsKept ==
    \A e \in captured : e \in Pending \/ Files[e] # 0

\* Events are delivered in the order of their capture, also after a failure.
DeliveredInOrder ==
    \A d \in Pending : \A e \in Rows \ Pending : row[e].seq < row[d].seq

\* An export has every event that was acknowledged, with its number, even if
\* rows and files were lost before it (the count and the high-water mark).
ExportsAreComplete == Complete => captured = Rows

\* An archive stays good: what was lost of it can be restored, while new events
\* are captured and delivered.
ArchivesRepair ==
    archive # None /\ archive.namespace = journal.namespace /\ journal.namespace \notin erasing
        => Restorable(archive)

\* A file is written once and never changed, only lost or erased.
FilesAreImmutable ==
    \A n \in Namespaces : \A e \in Sources : file[n][e] # 0 => file'[n][e] \in {file[n][e], 0}

\* What was erased is under an obligation or gone, and nothing is written there
\* again.
ErasedStaysErased ==
    journal.namespace \notin erased /\ \A n \in erased : n \in erasing \/ file[n] = NoFiles
=============================================================================
