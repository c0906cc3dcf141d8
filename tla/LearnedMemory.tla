---------------------------- MODULE LearnedMemory ----------------------------
(***************************************************************************)
(* server/memory/repository.ts with claims.ts and git.ts: what one person   *)
(* lets their agent remember in one workspace.  The memory is a line of     *)
(* commits, each of one operation; its head is a row, its bytes a payload,  *)
(* and its receipts an index that can be rebuilt.                           *)
(*                                                                         *)
(* Every call locks the row of the namespace first, so each transaction is  *)
(* one action.  A change and a restore are two, with the upload of the      *)
(* bundle between them, and anything may happen meanwhile.  A revision is   *)
(* the sequence of the operations up to it.                                 *)
(***************************************************************************)
EXTENDS Naturals, FiniteSets, SequencesExt

CONSTANTS
    Calls,            \* executions of change and restore under way at a time
    Claims,
    Operations,       \* operationIds of changes
    Recalls,          \* operationIds of recalls, each of one query
    MaxLine,          \* bounds on the line, the switches of the preference,
    MaxPreferences,   \* the namespaces of the person and
    MaxNamespaces,
    MaxArchives,      \* the archives they keep, and
    MaxRestores,      \* the restores of the database
    Events,           \* subset of {"capability", "answer_lost", "projection", "payload", "database"}
    None

VARIABLES
    memory,           \* workspace_memory_namespace and the rows it owns
    capable,          \* whether the workspace has the capability memory
    asked,            \* the request of each operation
    call,
    archives,         \* sealed archives that the person has exported
    backup, restores, \* a retained backup of the database, restores of it
    known,            \* the line as it was last readable (history)
    indexed,          \* whether no receipt was lost (history)
    told, heard       \* what callers were told and recalls answered (history)

memoryVars == <<memory, capable, asked, call, archives, backup, restores,
                known, indexed, told, heard>>

Automatic == memory.enabled /\ capable

Row(state, value) == [state |-> state, value |-> value]   \* new, kept, expired

NewMemory(namespace) ==
    [namespace |-> namespace, head |-> <<>>, bundle |-> "kept", receipts |-> {},
     enabled |-> TRUE, preference |-> 1, recall |-> [q \in Recalls |-> Row("new", None)]]

Revisions(line) == {SubSeq(line, 1, n) : n \in 1..Len(line)}

Touching(line, c) == {n \in 1..Len(line) : c \in line[n].claims}
Status(line, c) == IF Touching(line, c) = {} THEN "unknown"
                   ELSE IF line[Max(Touching(line, c))].active THEN "active" ELSE "tombstone"

MemoryInit ==
    /\ memory = NewMemory(1) /\ capable = TRUE
    /\ asked = [o \in Operations |-> None] /\ call = [x \in Calls |-> None]
    /\ archives = {} /\ backup = None /\ restores = 0
    /\ known = <<>> /\ indexed = TRUE
    /\ told = [o \in Operations |-> None] /\ heard = [q \in Recalls |-> {}]

-----------------------------------------------------------------------------
\* stored: the payload of the head is there, and a memory without a head has
\* no receipts.
Readable == memory.bundle = "kept" /\ (memory.head # <<>> \/ memory.receipts = {})

\* planLearnedClaim and planLearnedClaimClear: what may follow a line.
Accepted(r, line) ==
    CASE r.action = "assert" -> \A c \in r.claims : Status(line, c) = "unknown"
      [] r.action = "clear" -> TRUE
      [] r.action = "reverse" ->
             \A c \in r.claims : /\ r.target \in Touching(line, c)
                                /\ \E n \in Touching(line, c) : n > r.target
      [] OTHER -> \A c \in r.claims : Status(line, c) = "active"

Entry(o, r, line) ==
    [op |-> o, action |-> r.action,
     claims |-> IF r.action = "clear" THEN {c \in Claims : Status(line, c) = "active"} ELSE r.claims,
     active |-> \/ r.action \in {"assert", "correct"}
                \/ r.action = "reverse" /\ line[r.target].active,
     namespace |-> memory.namespace, after |-> restores]

\* The revision of an operation in a line, if it has one: its receipt.
Receipt(o, line) == {SubSeq(line, 1, n) : n \in {m \in 1..Len(line) : line[m].op = o}}

\* A correction, a restore and a switch null the recalls and keep their rows.
RecallsExpired == [q \in Recalls |-> IF memory.recall[q].state = "new" THEN memory.recall[q]
                                      ELSE Row("expired", None)]

Writes(line) == [memory EXCEPT !.head = line, !.bundle = "kept", !.recall = RecallsExpired]

Ends(x) == call' = [call EXCEPT ![x] = None]
Continues(x) == call' = [call EXCEPT ![x] = [@ EXCEPT !.phase = "puts", !.basis = memory.head,
                                                      !.namespace = memory.namespace,
                                                      !.preference = memory.preference]]
Tells(o, answers) == told' = [told EXCEPT ![o] = CHOOSE revision \in answers : TRUE]

Call(does, of, basis) == [does |-> does, of |-> of, phase |-> "asks", basis |-> basis,
                          namespace |-> 0, preference |-> 0]

\* A person or their agent asks for a change of what they have read, or asks
\* again because no answer came.
Asks(x, o) ==
    /\ call[x] = None /\ told[o] = None
    /\ call' = [call EXCEPT ![x] = Call("change", o, <<>>)]
    /\ IF asked[o] # None THEN UNCHANGED asked
       ELSE /\ Readable /\ Len(memory.head) < MaxLine
            /\ \E c \in Claims, a \in {"assert", "correct", "tombstone", "reverse", "clear"},
                  n \in 0..Len(memory.head) :
                 LET r == [action |-> a, claims |-> IF a = "clear" THEN {} ELSE {c},
                           target |-> IF a = "reverse" THEN n ELSE 0, expected |-> memory.head] IN
                 /\ Accepted(r, memory.head)
                 /\ asked' = [asked EXCEPT ![o] = r]
    /\ UNCHANGED <<memory, capable, archives, backup, restores, known, indexed, told, heard>>

\* The first transaction of change: replay or plan, and register the payload.
Paused(r) == r.action = "assert" /\ ~Automatic

Plannable(o) == memory.head = asked[o].expected /\ Accepted(asked[o], memory.head)

Plans(x) == LET o == call[x].of  receipt == Receipt(o, memory.head)
                may == Readable /\ ~Paused(asked[o]) IN
    /\ call[x] # None /\ call[x].does = "change" /\ call[x].phase = "asks"
    /\ \/ may /\ receipt # {} /\ Tells(o, receipt) /\ Ends(x)
       \/ may /\ receipt = {} /\ Plannable(o) /\ Continues(x) /\ UNCHANGED told
       \/ ~(may /\ (receipt # {} \/ Plannable(o))) /\ Ends(x) /\ UNCHANGED told
    /\ UNCHANGED <<memory, capable, asked, archives, backup, restores, known, indexed, heard>>

\* The namespace and the preference that the first transaction saw.
Unchanged(x) == /\ memory.namespace = call[x].namespace
                /\ memory.preference = call[x].preference

\* The last transaction of change: the same checks, and a compare-and-swap.
MayPublish(x) == Readable /\ Unchanged(x) /\ ~Paused(asked[call[x].of])

Published(o) == Append(memory.head, Entry(o, asked[o], memory.head))

Publishes(x) == LET o == call[x].of  receipt == Receipt(o, memory.head)
                    moved == memory.head # call[x].basis IN
    /\ call[x] # None /\ call[x].does = "change" /\ call[x].phase = "puts" /\ Ends(x)
    /\ \/ /\ MayPublish(x) /\ ~moved
          /\ memory' = [Writes(Published(o)) EXCEPT !.receipts = @ \cup {Published(o)}]
          /\ known' = Published(o)
          /\ \/ Tells(o, {Published(o)})
             \/ "answer_lost" \in Events /\ UNCHANGED told
       \/ /\ MayPublish(x) /\ moved /\ receipt # {}
          /\ Tells(o, receipt) /\ UNCHANGED <<memory, known>>
       \/ /\ ~(MayPublish(x) /\ (~moved \/ receipt # {}))
          /\ UNCHANGED <<memory, known, told>>
    /\ UNCHANGED <<capable, asked, archives, backup, restores, indexed, heard>>

\* The process dies, the upload fails, or evidence of the change is no longer
\* readable.
Fails(x) ==
    /\ call[x] # None /\ Ends(x)
    /\ UNCHANGED <<memory, capable, asked, archives, backup, restores, known, indexed, told, heard>>

-----------------------------------------------------------------------------
\* backup: a sealed copy of the line.  inspectPrivateMemoryArchive gives the
\* head that the restore is to replace.
Exports ==
    /\ Readable
    /\ Cardinality(archives) < MaxArchives
    /\ archives' = archives \cup {[namespace |-> memory.namespace, line |-> memory.head]}
    /\ UNCHANGED <<memory, capable, asked, call, backup, restores, known, indexed, told, heard>>

\* The person throws an archive away.
Discards ==
    /\ \E a \in archives : archives' = archives \ {a}
    /\ UNCHANGED <<memory, capable, asked, call, backup, restores, known, indexed, told, heard>>

\* verifyRestorableArchive: an archive may repair or advance the line, and
\* neither roll it back nor leave it.
Latest(receipts) == CHOOSE r \in receipts : \A s \in receipts : Len(s) <= Len(r)

\* Mutant of Restorable: the lineage is not checked.
RestorableAnyway(a) == a.namespace = memory.namespace

Restorable(a) ==
    /\ a.namespace = memory.namespace
    /\ memory.head # <<>> => memory.head \in Revisions(a.line)
    /\ memory.head = <<>> /\ a.line # <<>> =>
           memory.receipts # {} /\ Latest(memory.receipts) = a.line

SameBundle(a) == memory.head = a.line /\ memory.bundle = "kept"

AsksRestore(x) ==
    /\ call[x] = None
    /\ \E a \in archives : /\ Restorable(a)
                           /\ call' = [call EXCEPT ![x] = Call("restore", a, memory.head)]
    /\ UNCHANGED <<memory, capable, asked, archives, backup, restores, known, indexed, told, heard>>

PlansRestore(x) == LET a == call[x].of IN
    /\ call[x] # None /\ call[x].does = "restore" /\ call[x].phase = "asks"
    /\ IF Restorable(a) /\ memory.head \in {a.line, call[x].basis} /\ ~SameBundle(a)
       THEN Continues(x) ELSE Ends(x)
    /\ UNCHANGED <<memory, capable, asked, archives, backup, restores, known, indexed, told, heard>>

Restores(x) == LET a == call[x].of IN
    /\ call[x] # None /\ call[x].does = "restore" /\ call[x].phase = "puts" /\ Ends(x)
    /\ IF Restorable(a) /\ Unchanged(x) /\ ~SameBundle(a) /\ memory.head = call[x].basis
       THEN /\ memory' = [Writes(a.line) EXCEPT !.receipts = Revisions(a.line)]
            /\ known' = a.line /\ indexed' = TRUE
       ELSE UNCHANGED <<memory, known, indexed>>
    /\ UNCHANGED <<capable, asked, archives, backup, restores, told, heard>>

\* rebuildOperations
Rebuilds ==
    /\ Readable /\ memory.receipts # Revisions(memory.head)
    /\ memory' = [memory EXCEPT !.receipts = Revisions(memory.head)] /\ indexed' = TRUE
    /\ UNCHANGED <<capable, asked, call, archives, backup, restores, known, told, heard>>

-----------------------------------------------------------------------------
\* recall: what is found is kept for the operation, and a retry must find the
\* same; a row that was nulled never matches.
Found == [line |-> memory.head, matches |-> Automatic /\ \E c \in Claims : Status(memory.head, c) = "active",
          automatic |-> Automatic, preference |-> memory.preference]

RecallsThat(q) ==
    /\ Readable /\ memory.recall[q] \in {Row("new", None), Row("kept", Found)}
    /\ memory' = [memory EXCEPT !.recall[q] = Row("kept", Found)]
    /\ heard' = [heard EXCEPT ![q] = @ \cup {Found}]
    /\ UNCHANGED <<capable, asked, call, archives, backup, restores, known, indexed, told>>

\* A recall of another operation nulls what is older than seven days.
Expires(q) ==
    /\ memory.recall[q].state = "kept"
    /\ memory' = [memory EXCEPT !.recall[q] = Row("expired", None)]
    /\ UNCHANGED <<capable, asked, call, archives, backup, restores, known, indexed, told, heard>>

\* setEnabled, by someone who has read the preference of now.
Switches ==
    /\ memory.preference < MaxPreferences
    /\ memory' = [memory EXCEPT !.enabled = ~@, !.preference = @ + 1, !.recall = RecallsExpired]
    /\ UNCHANGED <<capable, asked, call, archives, backup, restores, known, indexed, told, heard>>

\* An administrator switches the capability of the workspace.
Grants ==
    /\ "capability" \in Events /\ capable' = ~capable
    /\ UNCHANGED <<memory, asked, call, archives, backup, restores, known, indexed, told, heard>>

\* The person leaves the workspace and comes back: the namespace is erased
\* with all it owns (recordMemoryErasureIntents) and a new one made.
Fresh(namespace) ==
    /\ memory' = NewMemory(namespace) /\ known' = <<>> /\ indexed' = TRUE
    /\ told' = [o \in Operations |-> None] /\ heard' = [q \in Recalls |-> {}]

Erases ==
    /\ memory.namespace < MaxNamespaces /\ Fresh(memory.namespace + 1)
    /\ UNCHANGED <<capable, asked, call, archives, backup, restores>>

-----------------------------------------------------------------------------
\* Rows or bytes are lost, but never the head and its receipts together.
LosesRows ==
    /\ "projection" \in Events /\ indexed /\ memory.head # <<>>
    /\ \/ memory' = [memory EXCEPT !.head = <<>>, !.bundle = "kept"] /\ UNCHANGED indexed
       \/ memory' = [memory EXCEPT !.receipts = {}] /\ indexed' = FALSE
    /\ UNCHANGED <<capable, asked, call, archives, backup, restores, known, told, heard>>

LosesPayload ==
    /\ "payload" \in Events /\ memory.head # <<>> /\ memory.bundle = "kept"
    /\ memory' = [memory EXCEPT !.bundle = "lost"]
    /\ UNCHANGED <<capable, asked, call, archives, backup, restores, known, indexed, told, heard>>

BacksUp ==
    /\ "database" \in Events /\ restores < MaxRestores /\ Readable
    /\ backup' = [memory |-> memory, indexed |-> indexed]
    /\ UNCHANGED <<memory, capable, asked, call, archives, restores, known, indexed, told, heard>>

\* The service stops, an older database is restored, and the journal of
\* erasures is applied before the service starts.
ReplaysJournal == backup.memory.namespace # memory.namespace

RestoresDatabase ==
    /\ backup # None /\ restores < MaxRestores /\ restores' = restores + 1
    /\ call' = [x \in Calls |-> None] /\ backup' = None
    /\ IF ReplaysJournal
       THEN Fresh(memory.namespace + 1)
       ELSE /\ memory' = backup.memory /\ known' = backup.memory.head /\ indexed' = backup.indexed
            /\ told' = [o \in Operations |->
                   IF told[o] \in Revisions(backup.memory.head) THEN told[o] ELSE None]
            /\ heard' = [q \in Recalls |-> {backup.memory.recall[q].value} \ {None}]
    /\ UNCHANGED <<capable, asked, archives>>

MemoryNext ==
    \/ \E x \in Calls : \/ \E o \in Operations : Asks(x, o)
                        \/ Plans(x) \/ Publishes(x) \/ Fails(x)
                        \/ AsksRestore(x) \/ PlansRestore(x) \/ Restores(x)
    \/ \E q \in Recalls : RecallsThat(q) \/ Expires(q)
    \/ Exports \/ Discards \/ Rebuilds \/ Switches \/ Grants \/ Erases
    \/ LosesRows \/ LosesPayload \/ BacksUp \/ RestoresDatabase

MemorySpec == MemoryInit /\ [][MemoryNext]_memoryVars

-----------------------------------------------------------------------------
MemoryTypeOK ==
    /\ memory.namespace \in Nat \ {0} /\ memory.preference \in 1..MaxPreferences
    /\ Len(memory.head) <= MaxLine /\ memory.receipts \subseteq Revisions(known)
    /\ memory.bundle \in {"kept", "lost"} /\ {memory.enabled, capable, indexed} \subseteq BOOLEAN
    /\ \A x \in Calls : call[x] # None => call[x].does \in {"change", "restore"}
    /\ restores \in 0..MaxRestores

\* An operation is in the line once, whatever was retried while the first call
\* was still uploading, and whoever was told a revision finds it in the line,
\* with the operation they sent (the replay of both transactions).
OperationsOnce ==
    /\ \A i, j \in 1..Len(known) : known[i].op = known[j].op => i = j
    /\ \A o \in Operations : told[o] # None =>
           told[o] \in Revisions(known) /\ told[o][Len(told[o])].op = o

\* What was forgotten is remembered again only by an explicit reversal, and a
\* correction is one of something remembered; no retry, late upload or archive
\* brings a claim back.
ForgottenStays ==
    \A n \in 1..Len(known) : \A c \in known[n].claims :
        LET before == Status(SubSeq(known, 1, n - 1), c) IN
        CASE known[n].action = "assert" -> before = "unknown"
          [] known[n].action = "reverse" -> before # "unknown"
          [] OTHER -> before = "active"

\* A memory holds only what was written to it since it was made: no change,
\* archive or restored database brings an erased one back.
ErasedStaysErased == \A n \in 1..Len(known) : known[n].namespace = memory.namespace

\* The row has the line or nothing, and if nothing the receipts still name all
\* of it, so that an archive can only repair what there was.
NothingIsForgotten ==
    /\ memory.head \in {<<>>, known}
    /\ indexed => memory.receipts = Revisions(known)

\* The retry of a recall hears what the first one heard, or an error.
OneAnswerPerRecall == \A q \in Recalls : Cardinality(heard[q]) <= 1

\* The line only grows: archives and late calls advance it and never roll it
\* back, unless the database or the namespace goes.
LineOnlyGrows ==
    restores' = restores /\ memory'.namespace = memory.namespace => IsPrefix(known, known')

\* Nothing new is learned while memory is paused, though the call began before.
PausedLearnsNothing ==
    \A x \in Calls : call[x] # None /\ call'[x] = None /\ known' # known =>
        \/ call[x].does = "restore" \/ restores' # restores
        \/ known'[Len(known')].action = "assert" => Automatic
=============================================================================
