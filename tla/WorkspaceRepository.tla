-------------------------- MODULE WorkspaceRepository --------------------------
(***************************************************************************)
(* server/workspaces/repository.ts and the reviews of                      *)
(* server/workspaces/knowledge: the shared files of one workspace, changed *)
(* by calls of publish that read the head, build a revision outside any    *)
(* transaction and then take the head with a compare-and-swap, while other *)
(* calls, retries of the same operation, the removal of members and reads  *)
(* of a recorded time go on.                                               *)
(*                                                                         *)
(* A revision is named by the call that made its commit.  Transactions are *)
(* READ COMMITTED: two statements of one may see two states.               *)
(***************************************************************************)
EXTENDS Naturals, FiniteSets

CONSTANTS
    Calls,          \* executions of publish and reviewKnowledgeProposal
    Operations,
    Operation,      \* [Calls -> Operations]: the operationId a call carries
    Kind,           \* [Operations -> {"save", "propose", "approve", "reject"}]
    Author,         \* [Operations -> Users]
    Files,          \* files of knowledge/
    Path,           \* [Operations -> Files]: what a save or a proposal changes
    Sources,        \* [Operations -> SUBSET Files]: what a proposal depends on
    Draft,          \* [Operations -> Operations]: the proposal a review is about
    Users,
    Managers,       \* owners and administrators of the workspace
    MaxTime,        \* bound on the clock of the database
    Faults,         \* subset of {"crash", "storage", "clock"}
    None

VARIABLES
    head,           \* workspace_repository.head_sha
    revision,       \* workspace_revision, with the tree of the commit
    members,        \* workspace_memberships
    at,             \* where each call is
    basis,          \* the expectedRevision of each call
    told,           \* what each caller was told
    publisher,      \* the call between its compare-and-swap and its commit
    stamp,          \* the created_at it took
    clock,
    viewed          \* [times -> revisions given for that asOf] (history)

repositoryVars == <<head, revision, members, at, basis, told, publisher, stamp, clock, viewed>>

Published == {c \in Calls : revision[c] # None}
Revisions == Published \cup {None}

EmptyTree == [file |-> [f \in Files |-> None], drafts |-> {}]
Tree == [file : [Files -> Operations \cup {None}], drafts : SUBSET Operations]
Revision == [parent : Calls \cup {None}, created : Nat, tree : Tree]
TreeOf(r) == IF r = None THEN EmptyTree ELSE revision[r].tree

Places == {"new", "loads", "previews", "begins", "snapshots", "prepares", "publishes",
           "commits", "ended"}
Refusals == {"denied", "conflict", "missing", "unavailable"}

\* What the parameters are, and that names of different kinds are different.
RepositoryConstants ==
    /\ Operation \in [Calls -> Operations] /\ Draft \in [Operations -> Operations]
    /\ Kind \in [Operations -> {"save", "propose", "approve", "reject"}]
    /\ Path \in [Operations -> Files] /\ Sources \in [Operations -> SUBSET Files]
    /\ MaxTime \in Nat
    /\ None \notin Calls \cup Refusals \cup {"lost", "refused"} \cup Revision
    /\ Calls \cap (Refusals \cup {"lost", "refused"}) = {}

RepositoryTypeOK ==
    /\ head \in Revisions /\ revision \in [Calls -> Revision \cup {None}]
    /\ members \subseteq Users
    /\ at \in [Calls -> Places] /\ basis \in [Calls -> Calls \cup {None}]
    /\ told \in [Calls -> Calls \cup Refusals \cup {"lost", None}]
    /\ publisher \in Calls \cup {None} /\ stamp \in Nat
    /\ clock \in 0..MaxTime /\ viewed \in [0..MaxTime -> SUBSET (Calls \cup {None})]

RepositoryInit ==
    /\ head = None /\ revision = [c \in Calls |-> None] /\ members = Users
    /\ at = [c \in Calls |-> "new"] /\ basis = [c \in Calls |-> None]
    /\ told = [c \in Calls |-> None]
    /\ publisher = None /\ stamp = 0 /\ clock = 0
    /\ viewed = [t \in 0..MaxTime |-> {}]

-----------------------------------------------------------------------------
\* requireWorkspaceAccess: reviews manage, files of knowledge/ and proposals
\* are every member's.
Reviews(c) == Kind[Operation[c]] \in {"approve", "reject"}

Permitted(c) == LET user == Author[Operation[c]]
                IN  user \in members /\ (Reviews(c) => user \in Managers)

\* replay: the receipt of an operation, refused when the request differs.
Receipts(c) == {d \in Published : Operation[d] = Operation[c]}

\* Mutant of SameRequest: the request of a replay is not compared.
AnyRequest(c, d) == TRUE

SameRequest(c, d) == revision[d].parent = basis[c]

\* snapshot holds FOR SHARE on the row of the repository, which a publication
\* that has not committed has updated; a row it inserts is not visible yet.
RowFree == publisher = None \/ head = None

Moves(c, place) == at' = [at EXCEPT ![c] = place] /\ UNCHANGED told
Ends(c, answer) == at' = [at EXCEPT ![c] = "ended"] /\ told' = [told EXCEPT ![c] = answer]

UnchangedStore == UNCHANGED <<head, revision, members, publisher, stamp, clock, viewed>>

\* A person acts on a revision they have read, perhaps long ago.
Posts(c) ==
    /\ at[c] = "new" /\ \E r \in Revisions : basis' = [basis EXCEPT ![c] = r]
    /\ Moves(c, IF Reviews(c) THEN "loads" ELSE "begins") /\ UnchangedStore

\* reviewKnowledgeProposal reads the proposal at the head it was reviewed at.
Loaded(c) == TreeOf(IF basis[c] = None THEN head ELSE basis[c])

Loads(c) ==
    /\ at[c] = "loads" /\ RowFree /\ UNCHANGED basis /\ UnchangedStore
    /\ \/ ~Permitted(c) /\ Ends(c, "denied")
       \/ /\ Permitted(c) /\ Draft[Operation[c]] \notin Loaded(c).drafts
          /\ Ends(c, "missing")
       \/ /\ Permitted(c) /\ Draft[Operation[c]] \in Loaded(c).drafts
          /\ Moves(c, IF Kind[Operation[c]] = "approve" /\ head = basis[c] /\ head # None
                      THEN "previews" ELSE "begins")

\* readKnowledgeProposal at the head of now: what the proposal depends on and
\* changes must be as it was at the revision the proposal was written from.
Stands(d, tree) == \A f \in Sources[d] \cup {Path[d]} :
    \E c \in Published : /\ Operation[c] = d
                         /\ tree.file[f] = TreeOf(revision[c].parent).file[f]

Previews(c) == LET d == Draft[Operation[c]] IN
    /\ at[c] = "previews" /\ RowFree /\ UNCHANGED basis /\ UnchangedStore
    /\ \/ ~Permitted(c) /\ Ends(c, "denied")
       \/ Permitted(c) /\ d \notin TreeOf(head).drafts /\ Ends(c, "missing")
       \/ /\ Permitted(c) /\ d \in TreeOf(head).drafts /\ ~Stands(d, TreeOf(head))
          /\ Ends(c, "conflict")
       \/ /\ Permitted(c) /\ d \in TreeOf(head).drafts /\ Stands(d, TreeOf(head))
          /\ Moves(c, "begins")

\* The first transaction of publish: access and replay, then the snapshot.
Replays(c) == \E d \in Receipts(c) : Ends(c, IF SameRequest(c, d) THEN d ELSE "conflict")

Begins(c) ==
    /\ at[c] = "begins" /\ UNCHANGED basis /\ UnchangedStore
    /\ \/ ~Permitted(c) /\ Ends(c, "denied")
       \/ Permitted(c) /\ Replays(c)
       \/ Permitted(c) /\ Receipts(c) = {} /\ Moves(c, "snapshots")

Snapshots(c) ==
    /\ at[c] = "snapshots" /\ RowFree /\ UNCHANGED basis /\ UnchangedStore
    /\ IF head # basis[c] THEN Ends(c, "conflict") ELSE Moves(c, "prepares")

\* The candidate is built from the tree that was read; its payload is
\* registered under the access of now, and uploaded.
Prepares(c) ==
    /\ at[c] = "prepares" /\ UNCHANGED basis /\ UnchangedStore
    /\ \/ ~Permitted(c) /\ Ends(c, "denied")
       \/ "storage" \in Faults /\ Ends(c, "unavailable")
       \/ Permitted(c) /\ Moves(c, "publishes")

\* Mutant of Candidate: an approved proposal stays open.
CandidateKeepsDraft(c) == LET o == Operation[c]  tree == TreeOf(basis[c]) IN
    CASE Kind[o] = "save"    -> [tree EXCEPT !.file[Path[o]] = o]
      [] Kind[o] = "propose" -> [tree EXCEPT !.drafts = @ \cup {o}]
      [] Kind[o] = "approve" -> [tree EXCEPT !.file[Path[Draft[o]]] = Draft[o]]
      [] Kind[o] = "reject"  -> [tree EXCEPT !.drafts = @ \ {Draft[o]}]

Candidate(c) == LET o == Operation[c]  tree == TreeOf(basis[c]) IN
    CASE Kind[o] = "save"    -> [tree EXCEPT !.file[Path[o]] = o]
      [] Kind[o] = "propose" -> [tree EXCEPT !.drafts = @ \cup {o}]
      [] Kind[o] = "approve" -> [file |-> [tree.file EXCEPT ![Path[Draft[o]]] = Draft[o]],
                                 drafts |-> tree.drafts \ {Draft[o]}]
      [] Kind[o] = "reject"  -> [tree EXCEPT !.drafts = @ \ {Draft[o]}]

\* GREATEST(clock_timestamp(), created_at of the parent + 1 microsecond)
Created(c) == IF basis[c] = None \/ revision[basis[c]].created < clock
              THEN clock ELSE revision[basis[c]].created + 1

\* WHERE workspace_repository.head_sha = the expected revision
Swaps(c) == head = basis[c]

\* The last transaction, under the advisory lock of the workspace: access,
\* replay, adoption of the payload and the compare-and-swap of the head.
Publishes(c) ==
    /\ at[c] = "publishes" /\ publisher = None
    /\ UNCHANGED <<basis, head, revision, members, clock, viewed>>
    /\ \/ ~Permitted(c) /\ Ends(c, "denied") /\ UNCHANGED <<publisher, stamp>>
       \/ Permitted(c) /\ Replays(c) /\ UNCHANGED <<publisher, stamp>>
       \/ "storage" \in Faults /\ Ends(c, "unavailable") /\ UNCHANGED <<publisher, stamp>>
       \/ /\ Permitted(c) /\ Receipts(c) = {} /\ ~Swaps(c)
          /\ Ends(c, "conflict") /\ UNCHANGED <<publisher, stamp>>
       \/ /\ Permitted(c) /\ Receipts(c) = {} /\ Swaps(c)
          /\ Moves(c, "commits") /\ publisher' = c /\ stamp' = Created(c)

Commits(c) ==
    /\ at[c] = "commits" /\ publisher = c
    /\ head' = c /\ publisher' = None /\ stamp' = 0
    /\ revision' = [revision EXCEPT ![c] =
                       [parent |-> basis[c], created |-> stamp, tree |-> Candidate(c)]]
    /\ \/ Ends(c, c)
       \/ "crash" \in Faults /\ Ends(c, "lost")
    /\ UNCHANGED <<members, basis, clock, viewed>>

\* Mutant of Crashes: the lock of the workspace outlives its process.
CrashesWithTheLock(c) ==
    /\ "crash" \in Faults /\ at[c] \notin {"new", "ended"} /\ Ends(c, "lost")
    /\ UNCHANGED <<head, revision, members, basis, publisher, stamp, clock, viewed>>

\* The process dies, the request is aborted or the answer is lost.
Crashes(c) ==
    /\ "crash" \in Faults /\ at[c] \notin {"new", "ended"} /\ Ends(c, "lost")
    /\ IF publisher = c THEN publisher' = None /\ stamp' = 0 ELSE UNCHANGED <<publisher, stamp>>
    /\ UNCHANGED <<head, revision, members, basis, clock, viewed>>

\* removeWorkspaceMember locks the membership, which a publication that has
\* not committed shares.
Removes(u) ==
    /\ u \in members \ Managers
    /\ publisher \notin {c \in Calls : Author[Operation[c]] = u}
    /\ members' = members \ {u}
    /\ UNCHANGED <<head, revision, at, basis, told, publisher, stamp, clock, viewed>>

\* The last publication recorded at or before an instant that is past: the
\* statement sees what had committed when it began.
RecordedAt(t) == LET known == {c \in Published : revision[c].created <= t}
                 IN  IF known = {} THEN None
                     ELSE CHOOSE c \in known : \A d \in known : revision[d].created <= revision[c].created

Views(t) ==
    /\ t < clock /\ head # None
    /\ viewed' = [viewed EXCEPT ![t] = @ \cup {RecordedAt(t)}]
    /\ UNCHANGED <<head, revision, members, at, basis, told, publisher, stamp, clock>>

Ticks ==
    /\ \/ clock < MaxTime /\ clock' = clock + 1
       \/ "clock" \in Faults /\ clock > 0 /\ clock' = clock - 1
    /\ UNCHANGED <<head, revision, members, at, basis, told, publisher, stamp, viewed>>

Works(c) == Loads(c) \/ Previews(c) \/ Begins(c) \/ Snapshots(c) \/ Prepares(c)
            \/ Publishes(c) \/ Commits(c)

RepositoryNext ==
    \/ \E c \in Calls : Posts(c) \/ Works(c) \/ Crashes(c)
    \/ \E u \in Users : Removes(u)
    \/ \E t \in 0..MaxTime : Views(t)
    \/ Ticks

RepositorySpec == RepositoryInit /\ [][RepositoryNext]_repositoryVars

\* A posted call runs on: its steps are the awaits of one request.
RepositoryFairness == \A c \in Calls : WF_repositoryVars(Works(c))

-----------------------------------------------------------------------------
\* The revisions are one line from the first to the head: no two were made on
\* top of the same one, and only the head has none on top (the compare-and-swap
\* of publish, while any number of calls prepare their candidates).
HistoryIsALine ==
    /\ \A c \in Published : revision[c].parent \in Revisions
    /\ \A c, d \in Published : revision[c].parent = revision[d].parent => c = d
    /\ \A c \in Published : c # head <=> \E d \in Published : revision[d].parent = c

\* An operation is published once, however often it is sent and whichever
\* revision the retry names (replay, again under the advisory lock).
OperationsOnce ==
    \A c, d \in Published : Operation[c] = Operation[d] => c = d

\* A caller is told a revision only if it is published for the same operation
\* on the same basis, and refused only if the call published nothing (the
\* hash of the request kept with the receipt).
AnswersAreTrue ==
    \A c \in Calls :
        /\ told[c] \in Calls => /\ told[c] \in Published /\ Operation[told[c]] = Operation[c]
                                /\ revision[told[c]].parent = basis[c]
        /\ told[c] \in Refusals => c \notin Published

\* An approved proposal was still open in the revision it was published on, and
\* what it depends on was then as it was when the proposal was written, though
\* the review and the publication are five transactions.
ReviewedAsWritten ==
    \A c \in Published : Kind[Operation[c]] = "approve" =>
        LET tree == TreeOf(revision[c].parent)  d == Draft[Operation[c]] IN
        /\ d \in tree.drafts
        /\ \A p \in Published : Operation[p] = d =>
               \A f \in Sources[d] \cup {Path[d]} :
                   tree.file[f] = TreeOf(revision[p].parent).file[f]

\* A proposal is decided once: it is not approved twice, nor approved and
\* rejected, by reviews that run at the same time or on old revisions.
DecidedOnce ==
    \A c, d \in Published :
        /\ {Kind[Operation[c]], Kind[Operation[d]]} \subseteq {"approve", "reject"}
        /\ Draft[Operation[c]] = Draft[Operation[d]]
        => c = d

\* No revision appears of an author who is no longer a member, though access
\* was checked before the commit (the membership row is shared until then).
RemovedDoNotPublish ==
    \A c \in Calls : revision'[c] # revision[c] => Author[Operation[c]] \in members

\* The recorded time of a revision is after that of the one it was made on,
\* whatever the clock of the database does (GREATEST in publish).
StampsFollow ==
    \A c \in Published : revision[c].parent \in Published =>
                             revision[c].created > revision[revision[c].parent].created

\* A call that was posted ends (no lock is left behind, nobody waits for ever).
CallsEnd == \A c \in Calls : at[c] # "new" ~> at[c] = "ended"

\* The repository keeps the promise of RevisionPromise.  The line is the revisions in the
\* order of their recorded times.
Before(c) == {d \in Published : revision[d].created < revision[c].created}
Ordered == [i \in 1..Cardinality(Published) |-> CHOOSE c \in Published : Cardinality(Before(c)) = i - 1]

Promise == INSTANCE RevisionPromise WITH
    line <- Ordered,
    reply <- [c \in Calls |-> IF told[c] \in Refusals THEN "refused" ELSE told[c]]

KeepsRevisionPromise == [Promise!PromisedNext]_(Promise!promised)

\* Not kept (README, section 6); reviewKnowledgeProposal: "identical retries remain idempotent even after the
\* proposal has been removed by the successful publication".
ReviewRetriesAreIdempotent ==
    \A c \in Calls : Reviews(c) /\ told[c] \in {"missing", "conflict"} =>
        \A d \in Receipts(c) : ~SameRequest(c, d)

\* Not kept (README, section 6); workspace_ontology_read: asOf gives "the last publication recorded at or
\* before that instant", so the answer for a past instant does not change.
RecordedViewsHold == \A t \in 0..MaxTime : Cardinality(viewed[t]) <= 1
=============================================================================
