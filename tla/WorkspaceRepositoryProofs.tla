----------------------- MODULE WorkspaceRepositoryProofs -----------------------
(***************************************************************************)
(* Proofs about WorkspaceRepository, for any calls, operations, files,     *)
(* users and faults: RepositoryInv is inductive, what the runs check       *)
(* follows from it, and the repository implements RevisionPromise.         *)
(***************************************************************************)
EXTENDS WorkspaceRepository, FiniteSetTheorems, SequenceTheorems,
        WellFoundedInduction, TLAPS

\* A call that has not ended published nothing and was told nothing.
CallsInv == \A c \in Calls :
    /\ at[c] # "ended" => c \notin Published /\ told[c] = None
    /\ basis[c] \in Revisions

\* The call that swapped the head alone is about to commit: on the head, what nobody
\* published, for a member, with a time after that of the head.
PublisherInv == \A c \in Calls : at[c] = "commits" <=> publisher = c
TakesInv == \A c \in Calls : at[c] = "commits" =>
    /\ head = basis[c] /\ Receipts(c) = {} /\ Author[Operation[c]] \in members
    /\ head # None => stamp > revision[head].created

\* The head is the latest of finitely many revisions, each made on the basis of its call.
HeadInv ==
    /\ IsFiniteSet(Published) /\ (head = None => Published = {})
    /\ \A c \in Published : /\ revision[c].parent = basis[c]
                            /\ c # head => revision[c].created < revision[head].created

\* A review that may still publish, its basis being the head, found there what it is about.
Checked == {"begins", "snapshots", "prepares", "publishes", "commits"}
ReviewsInv == \A c \in Calls : Reviews(c) /\ at[c] \in Checked /\ basis[c] = head =>
    /\ Draft[Operation[c]] \in TreeOf(head).drafts
    /\ Kind[Operation[c]] = "approve" => Stands(Draft[Operation[c]], TreeOf(head))

\* What is open was proposed, what was decided too, and it is not open again.
Proposed(o) == \E p \in Published : Operation[p] = o
DecisionsInv ==
    /\ \A o \in TreeOf(head).drafts : Proposed(o)
    /\ \A c \in Published : Reviews(c) =>
         Proposed(Draft[Operation[c]]) /\ Draft[Operation[c]] \notin TreeOf(head).drafts

\* What was approved stood on the revision it was approved on.
ApprovedInv == \A c \in Published : Kind[Operation[c]] = "approve" =>
    /\ Draft[Operation[c]] \in TreeOf(revision[c].parent).drafts
    /\ Stands(Draft[Operation[c]], TreeOf(revision[c].parent))

LineInv == HeadInv /\ HistoryIsALine /\ OperationsOnce /\ StampsFollow
StoreInv == LineInv /\ DecisionsInv /\ ApprovedInv /\ DecidedOnce

RepositoryInv ==
    /\ RepositoryTypeOK /\ CallsInv /\ PublisherInv /\ TakesInv /\ ReviewsInv
    /\ AnswersAreTrue /\ StoreInv

-----------------------------------------------------------------------------
\* Nothing was published in the beginning.
LEMMA InitRepositoryInv ==
  ASSUME RepositoryConstants, RepositoryInit
  PROVE  RepositoryInv
<1>1. Published = {} /\ head = None /\ revision \in [Calls -> Revision \cup {None}] /\ 0 \in 0..MaxTime
  BY DEF RepositoryInit, Published, RepositoryConstants
<1>2. RepositoryTypeOK
  BY <1>1 DEF RepositoryInit, RepositoryTypeOK, Revisions, Places
<1>3. \A c \in Calls : at[c] = "new" /\ told[c] = None /\ basis[c] = None
  BY DEF RepositoryInit
<1>4. CallsInv /\ PublisherInv /\ TakesInv /\ ReviewsInv
  BY <1>1, <1>3 DEF RepositoryInit, RepositoryConstants, CallsInv, PublisherInv, TakesInv, ReviewsInv,
                    Checked, Revisions
<1>5. AnswersAreTrue
  BY <1>1, <1>3 DEF RepositoryConstants, AnswersAreTrue
<1>6. LineInv
  BY <1>1, FS_EmptySet DEF LineInv, HeadInv, HistoryIsALine, OperationsOnce, StampsFollow
<1>7. DecisionsInv /\ ApprovedInv /\ DecidedOnce
  BY <1>1 DEF DecisionsInv, ApprovedInv, DecidedOnce, TreeOf, EmptyTree
<1> QED
  BY <1>2, <1>4, <1>5, <1>6, <1>7 DEF RepositoryInv, StoreInv

-----------------------------------------------------------------------------
(***************************************************************************)
(* Steps that publish nothing                                               *)
(***************************************************************************)

LEMMA SameStore ==
  ASSUME UNCHANGED <<head, revision>>
  PROVE  /\ Published' = Published /\ Revisions' = Revisions
         /\ \A r : TreeOf(r)' = TreeOf(r)
         /\ \A c : Receipts(c)' = Receipts(c)
         /\ \A d, tree : Stands(d, tree)' = Stands(d, tree)
BY DEF Published, Revisions, TreeOf, Receipts, Stands

\* The store is as it was, if the published calls keep their basis.
LEMMA StoreKept ==
  ASSUME StoreInv, UNCHANGED <<head, revision>>, \A c \in Published : basis'[c] = basis[c]
  PROVE  StoreInv'
<1>1. /\ Published' = Published /\ Revisions' = Revisions /\ TreeOf(head)' = TreeOf(head)
      /\ \A o : Proposed(o)' <=> Proposed(o)
  BY SameStore DEF Proposed
<1>2. LineInv'
  BY <1>1 DEF StoreInv, LineInv, HeadInv, HistoryIsALine, OperationsOnce, StampsFollow
<1>3. DecisionsInv'
  BY <1>1 DEF StoreInv, DecisionsInv
<1>4. ApprovedInv'
  <2>1. \A c \in Published : TreeOf(revision[c].parent)' = TreeOf(revision[c].parent)
    BY SameStore
  <2> QED
    BY <1>1, <2>1, SameStore DEF StoreInv, ApprovedInv
<1>5. DecidedOnce'
  BY <1>1 DEF StoreInv, DecidedOnce
<1> QED
  BY <1>2, <1>3, <1>4, <1>5 DEF StoreInv

\* One call goes on or ends, with what it may be told and what it may have found.
LEMMA CallPreserves ==
  ASSUME RepositoryConstants, RepositoryInv, NEW c \in Calls, at[c] # "ended",
         NEW place \in Places, NEW answer \in Calls \cup Refusals \cup {"lost", None}, NEW r \in Revisions,
         at' = [at EXCEPT ![c] = place], told' = [told EXCEPT ![c] = answer],
         basis' = [basis EXCEPT ![c] = r], UNCHANGED <<head, revision, members, clock, viewed>>,
         place # "ended" => answer = None,
         answer \in Calls => answer \in Published /\ Operation[answer] = Operation[c]
                             /\ revision[answer].parent = r,
         Reviews(c) /\ place \in Checked /\ r = head =>
             /\ Draft[Operation[c]] \in TreeOf(head).drafts
             /\ Kind[Operation[c]] = "approve" => Stands(Draft[Operation[c]], TreeOf(head)),
         \/ /\ place = "commits" /\ publisher = None /\ publisher' = c /\ stamp' \in Nat
            /\ head = r /\ Receipts(c) = {} /\ Author[Operation[c]] \in members
            /\ head # None => stamp' > revision[head].created
         \/ /\ place # "commits" /\ publisher = c /\ publisher' = None /\ stamp' = 0
         \/ /\ place # "commits" /\ publisher # c /\ UNCHANGED <<publisher, stamp>>
  PROVE  RepositoryInv'
<1>0. RepositoryTypeOK /\ CallsInv /\ PublisherInv /\ TakesInv /\ ReviewsInv /\ AnswersAreTrue /\ StoreInv
  BY DEF RepositoryInv
<1>1. /\ at'[c] = place /\ told'[c] = answer /\ basis'[c] = r
      /\ \A d \in Calls \ {c} : at'[d] = at[d] /\ told'[d] = told[d] /\ basis'[d] = basis[d]
  BY <1>0 DEF RepositoryTypeOK
<1>2. /\ Published' = Published /\ Revisions' = Revisions /\ TreeOf(head)' = TreeOf(head)
      /\ \A d : Receipts(d)' = Receipts(d)
      /\ \A d, tree : Stands(d, tree)' = Stands(d, tree)
  BY SameStore
<1>3. c \notin Published /\ Published \subseteq Calls
  BY <1>0 DEF CallsInv, Published
<1>4. StoreInv'
  BY <1>0, <1>1, <1>3, StoreKept
<1>5. RepositoryTypeOK'
  <2>1. r \in Calls \cup {None} /\ 0 \in Nat
    BY <1>3 DEF Revisions
  <2> QED
    BY <1>0, <1>2, <2>1 DEF RepositoryTypeOK
<1>6. CallsInv'
  BY <1>0, <1>1, <1>2, <1>3 DEF CallsInv
<1>7. c # None /\ (publisher = c <=> at[c] = "commits")
  BY <1>0 DEF RepositoryConstants, PublisherInv
<1>8. PublisherInv'
  <2>1. \A d \in Calls \ {c} : at[d] = "commits" <=> publisher = d
    BY <1>0 DEF PublisherInv
  <2>2. None \notin Calls
    BY DEF RepositoryConstants
  <2> QED
    BY <1>1, <1>7, <2>1, <2>2 DEF PublisherInv
<1>9. TakesInv'
  <2>1. ASSUME NEW d \in Calls \ {c}, at'[d] = "commits"
        PROVE  publisher = d /\ UNCHANGED stamp /\ at[d] = "commits"
    BY <1>0, <1>1, <2>1 DEF PublisherInv, RepositoryConstants
  <2> QED
    BY <1>0, <1>1, <1>2, <2>1 DEF TakesInv
<1>10. ReviewsInv'
  BY <1>0, <1>1, <1>2 DEF ReviewsInv, Reviews
<1>11. AnswersAreTrue'
  BY <1>0, <1>1, <1>2, <1>3 DEF AnswersAreTrue
<1> QED
  BY <1>4, <1>5, <1>6, <1>8, <1>9, <1>10, <1>11 DEF RepositoryInv

\* A call that goes on, and one that ends.
LEMMA MovesOn ==
  ASSUME RepositoryConstants, RepositoryInv, NEW c \in Calls, at[c] \notin {"commits", "ended"},
         NEW place \in Places \ {"commits", "ended"}, Moves(c, place), UNCHANGED basis, UnchangedStore,
         Reviews(c) /\ place \in Checked /\ basis[c] = head =>
             /\ Draft[Operation[c]] \in TreeOf(head).drafts
             /\ Kind[Operation[c]] = "approve" => Stands(Draft[Operation[c]], TreeOf(head))
  PROVE  RepositoryInv'
<1>1. /\ told \in [Calls -> Calls \cup Refusals \cup {"lost", None}] /\ basis \in [Calls -> Calls \cup {None}]
      /\ told[c] = None /\ basis[c] \in Revisions /\ publisher # c
  BY DEF RepositoryInv, RepositoryTypeOK, CallsInv, PublisherInv
<1>2. told' = [told EXCEPT ![c] = None] /\ basis' = [basis EXCEPT ![c] = basis[c]]
  BY <1>1 DEF Moves
<1>3. at' = [at EXCEPT ![c] = place]
  BY DEF Moves
<1>4. None \notin Calls
  BY DEF RepositoryConstants
<1> QED
  BY <1>1, <1>2, <1>3, <1>4, CallPreserves DEF UnchangedStore

LEMMA EndsUp ==
  ASSUME RepositoryConstants, RepositoryInv, NEW c \in Calls, at[c] # "ended",
         NEW answer \in Calls \cup Refusals \cup {"lost"}, Ends(c, answer),
         UNCHANGED <<basis, head, revision, members, clock, viewed>>,
         answer \in Calls => answer \in Published /\ Operation[answer] = Operation[c]
                             /\ revision[answer].parent = basis[c],
         \/ publisher = c /\ publisher' = None /\ stamp' = 0
         \/ publisher # c /\ UNCHANGED <<publisher, stamp>>
  PROVE  RepositoryInv'
<1>1. basis \in [Calls -> Calls \cup {None}] /\ basis[c] \in Revisions
  BY DEF RepositoryInv, RepositoryTypeOK, CallsInv
<1>2. basis' = [basis EXCEPT ![c] = basis[c]]
  BY <1>1
<1>3. at' = [at EXCEPT ![c] = "ended"] /\ told' = [told EXCEPT ![c] = answer]
  BY DEF Ends
<1>4. "ended" \in Places /\ "ended" \notin Checked
  BY DEF Places, Checked
<1> QED
  BY <1>1, <1>2, <1>3, <1>4, CallPreserves

\* What may be told without publishing: a refusal, or what a receipt says.
LEMMA RefusesPreserve ==
  ASSUME RepositoryConstants, RepositoryInv, NEW c \in Calls, at[c] \notin {"commits", "ended"},
         NEW answer \in Refusals, Ends(c, answer), UNCHANGED basis, UnchangedStore
  PROVE  RepositoryInv'
<1>1. publisher # c /\ answer \notin Calls
  BY DEF RepositoryInv, PublisherInv, RepositoryConstants
<1> QED
  BY <1>1, EndsUp DEF UnchangedStore

LEMMA ReplaysPreserve ==
  ASSUME RepositoryConstants, RepositoryInv, NEW c \in Calls, at[c] \notin {"commits", "ended"},
         Replays(c), UNCHANGED basis, UnchangedStore
  PROVE  RepositoryInv'
<1> PICK d \in Receipts(c) : Ends(c, IF SameRequest(c, d) THEN d ELSE "conflict")
  BY DEF Replays
<1>1. d \in Calls /\ d \in Published /\ Operation[d] = Operation[c] /\ "conflict" \in Refusals
  BY DEF Receipts, Published, Refusals
<1>2. CASE SameRequest(c, d)
  <2>1. publisher # c /\ Ends(c, d) /\ revision[d].parent = basis[c]
    BY <1>2 DEF RepositoryInv, PublisherInv, SameRequest
  <2> QED
    BY <1>1, <2>1, EndsUp DEF UnchangedStore
<1>3. CASE ~SameRequest(c, d)
  BY <1>1, <1>3, RefusesPreserve
<1> QED
  BY <1>2, <1>3

LEMMA PostsPreserves ==
  ASSUME RepositoryConstants, RepositoryInv, NEW c \in Calls, Posts(c)
  PROVE  RepositoryInv'
<1>1. PICK r \in Revisions : basis' = [basis EXCEPT ![c] = r]
  BY DEF Posts
<1> DEFINE place == IF Reviews(c) THEN "loads" ELSE "begins"
<1>2. /\ told \in [Calls -> Calls \cup Refusals \cup {"lost", None}]
      /\ at[c] = "new" /\ told[c] = None /\ publisher # c
  BY DEF RepositoryInv, RepositoryTypeOK, CallsInv, PublisherInv, Posts
<1>3. told' = [told EXCEPT ![c] = None] /\ at' = [at EXCEPT ![c] = place]
  BY <1>2 DEF Posts, Moves
<1>4. /\ place \in Places /\ place \notin {"commits", "ended"}
      /\ ~(Reviews(c) /\ place \in Checked)
  BY DEF Places, Checked
<1>5. UNCHANGED <<head, revision, members, publisher, stamp, clock, viewed>>
  BY DEF Posts, UnchangedStore
<1>6. None \notin Calls
  BY DEF RepositoryConstants
<1> HIDE DEF place
<1> QED
  BY <1>1, <1>2, <1>3, <1>4, <1>5, <1>6, CallPreserves

\* A review goes on without a preview only if its basis is no longer the head, or it rejects.
LEMMA LoadsPreserves ==
  ASSUME RepositoryConstants, RepositoryInv, NEW c \in Calls, Loads(c)
  PROVE  RepositoryInv'
<1>1. /\ at[c] = "loads" /\ UNCHANGED basis /\ UnchangedStore
      /\ {"denied", "missing"} \subseteq Refusals /\ {"previews", "begins"} \subseteq Places
  BY DEF Loads, Refusals, Places
<1>2. CASE Ends(c, "denied") \/ Ends(c, "missing")
  BY <1>1, <1>2, RefusesPreserve
<1>3. CASE Moves(c, "previews")
  BY <1>1, <1>3, MovesOn DEF Checked
<1>4. CASE /\ Draft[Operation[c]] \in Loaded(c).drafts
           /\ ~(Kind[Operation[c]] = "approve" /\ head = basis[c] /\ head # None)
           /\ Moves(c, "begins")
  <2>1. ASSUME basis[c] = head
        PROVE  Draft[Operation[c]] \in TreeOf(head).drafts /\ Kind[Operation[c]] # "approve"
    BY <1>4, <2>1 DEF Loaded, TreeOf, EmptyTree
  <2> QED
    BY <1>1, <1>4, <2>1, MovesOn
<1> QED
  BY <1>2, <1>3, <1>4 DEF Loads

LEMMA PreviewsPreserves ==
  ASSUME RepositoryConstants, RepositoryInv, NEW c \in Calls, Previews(c)
  PROVE  RepositoryInv'
<1>1. /\ at[c] = "previews" /\ UNCHANGED basis /\ UnchangedStore
      /\ {"denied", "missing", "conflict"} \subseteq Refusals /\ "begins" \in Places
  BY DEF Previews, Refusals, Places
<1>2. CASE Ends(c, "denied") \/ Ends(c, "missing") \/ Ends(c, "conflict")
  BY <1>1, <1>2, RefusesPreserve
<1>3. CASE /\ Draft[Operation[c]] \in TreeOf(head).drafts /\ Stands(Draft[Operation[c]], TreeOf(head))
           /\ Moves(c, "begins")
  BY <1>1, <1>3, MovesOn
<1> QED
  BY <1>2, <1>3 DEF Previews

\* A call that is checked stays so.
LEMMA ReviewsGoOn ==
  ASSUME RepositoryInv, NEW c \in Calls, at[c] \in Checked, Reviews(c), basis[c] = head
  PROVE  /\ Draft[Operation[c]] \in TreeOf(head).drafts
         /\ Kind[Operation[c]] = "approve" => Stands(Draft[Operation[c]], TreeOf(head))
BY DEF RepositoryInv, ReviewsInv

LEMMA PreparationsPreserve ==
  ASSUME RepositoryConstants, RepositoryInv, NEW c \in Calls, Begins(c) \/ Snapshots(c) \/ Prepares(c)
  PROVE  RepositoryInv'
<1>1. /\ at[c] \in {"begins", "snapshots", "prepares"} /\ UNCHANGED basis /\ UnchangedStore
      /\ {"denied", "conflict", "unavailable"} \subseteq Refusals
      /\ {"snapshots", "prepares", "publishes"} \subseteq Places
  BY DEF Begins, Snapshots, Prepares, Refusals, Places
<1>2. CASE Ends(c, "denied") \/ Ends(c, "conflict") \/ Ends(c, "unavailable")
  BY <1>1, <1>2, RefusesPreserve
<1>3. CASE Replays(c)
  BY <1>1, <1>3, ReplaysPreserve
<1>4. CASE Moves(c, "snapshots") \/ Moves(c, "prepares") \/ Moves(c, "publishes")
  BY <1>1, <1>4, ReviewsGoOn, MovesOn DEF Checked
<1> QED
  BY <1>2, <1>3, <1>4 DEF Begins, Snapshots, Prepares

\* The swap.
LEMMA PublishesPreserves ==
  ASSUME RepositoryConstants, RepositoryInv, NEW c \in Calls, Publishes(c)
  PROVE  RepositoryInv'
<1>1. /\ at[c] = "publishes" /\ publisher = None /\ UNCHANGED <<basis, head, revision, members, clock, viewed>>
      /\ {"denied", "conflict", "unavailable"} \subseteq Refusals /\ "commits" \in Places
  BY DEF Publishes, Refusals, Places
<1>2. CASE UNCHANGED <<publisher, stamp>>
  <2>1. UnchangedStore
    BY <1>1, <1>2 DEF UnchangedStore
  <2>2. CASE Ends(c, "denied") \/ Ends(c, "conflict") \/ Ends(c, "unavailable")
    BY <1>1, <2>1, <2>2, RefusesPreserve
  <2>3. CASE Replays(c)
    BY <1>1, <2>1, <2>3, ReplaysPreserve
  <2>4. c # None
    BY DEF RepositoryConstants
  <2> QED
    BY <1>1, <1>2, <2>2, <2>3, <2>4 DEF Publishes
<1>3. CASE /\ Permitted(c) /\ Receipts(c) = {} /\ Swaps(c)
           /\ Moves(c, "commits") /\ publisher' = c /\ stamp' = Created(c)
  <2>1. /\ RepositoryTypeOK /\ told \in [Calls -> Calls \cup Refusals \cup {"lost", None}] /\ told[c] = None
        /\ basis \in [Calls -> Calls \cup {None}] /\ basis[c] \in Revisions
    BY <1>1 DEF RepositoryInv, RepositoryTypeOK, CallsInv
  <2>2. /\ told' = [told EXCEPT ![c] = None] /\ basis' = [basis EXCEPT ![c] = basis[c]]
        /\ at' = [at EXCEPT ![c] = "commits"] /\ None \notin Calls
    BY <1>1, <1>3, <2>1 DEF Moves, RepositoryConstants
  <2>3. head = basis[c] /\ Author[Operation[c]] \in members
    BY <1>3 DEF Swaps, Permitted
  <2>4. Reviews(c) /\ basis[c] = head =>
          /\ Draft[Operation[c]] \in TreeOf(head).drafts
          /\ Kind[Operation[c]] = "approve" => Stands(Draft[Operation[c]], TreeOf(head))
    BY <1>1, ReviewsGoOn DEF Checked
  <2>5. stamp' \in Nat /\ (head # None => stamp' > revision[head].created)
    <3>1. clock \in Nat
      BY <2>1 DEF RepositoryTypeOK, RepositoryConstants
    <3>2. head # None => revision[head].created \in Nat
      BY <2>1 DEF RepositoryTypeOK, Revisions, Published, Revision
    <3> QED
      BY <1>3, <2>3, <3>1, <3>2 DEF Created
  <2> QED
    BY <1>1, <1>3, <2>1, <2>2, <2>3, <2>4, <2>5, CallPreserves
<1> QED
  BY <1>2, <1>3 DEF Publishes

LEMMA CrashesPreserves ==
  ASSUME RepositoryConstants, RepositoryInv, NEW c \in Calls, Crashes(c)
  PROVE  RepositoryInv'
<1>1. /\ at[c] # "ended" /\ Ends(c, "lost") /\ UNCHANGED <<basis, head, revision, members, clock, viewed>>
      /\ \/ publisher = c /\ publisher' = None /\ stamp' = 0
         \/ publisher # c /\ UNCHANGED <<publisher, stamp>>
  BY DEF Crashes
<1>2. "lost" \notin Calls
  BY DEF RepositoryConstants
<1> QED
  BY <1>1, <1>2, EndsUp

\* There is a last publication recorded at or before an instant, if there is any.
LEMMA RecordedIsPublished ==
  ASSUME RepositoryConstants, RepositoryTypeOK, NEW t \in 0..MaxTime
  PROVE  RecordedAt(t) \in Published \cup {None}
<1> DEFINE known == {c \in Published : revision[c].created <= t}
           Left == {t - revision[c].created : c \in known}
<1>1. \A c \in known : revision[c].created \in Nat /\ t - revision[c].created \in Nat
  BY DEF RepositoryTypeOK, Published, Revision, RepositoryConstants
<1>2. CASE known = {}
  BY <1>2 DEF RecordedAt
<1>3. CASE known # {}
  <2>1. Left \subseteq Nat /\ Left # {}
    BY <1>1, <1>3
  <2>2. PICK n \in Left : \A m \in Left : ~(<<m, n>> \in OpToRel(<, Nat))
    BY <2>1, NatLessThanWellFounded, WFMin
  <2>3. \A m \in Left : ~(m < n)
    BY <2>1, <2>2 DEF OpToRel
  <2>4. PICK c \in known : n = t - revision[c].created
    OBVIOUS
  <2>5. ASSUME NEW d \in known PROVE revision[d].created <= revision[c].created
    <3>1. ~(t - revision[d].created < t - revision[c].created)
      BY <2>3, <2>4
    <3>2. t \in Nat
      BY DEF RepositoryConstants
    <3> QED
      BY <1>1, <3>1, <3>2
  <2>6. RecordedAt(t) = CHOOSE x \in known : \A d \in known : revision[d].created <= revision[x].created
    BY <1>3 DEF RecordedAt
  <2>7. known \subseteq Published
    OBVIOUS
  <2> HIDE DEF known
  <2> QED
    BY <2>5, <2>6, <2>7
<1> QED
  BY <1>2, <1>3

\* What is not about a call.
LEMMA SurroundingsPreserve ==
  ASSUME RepositoryConstants, RepositoryInv,
         \/ \E u \in Users : Removes(u)
         \/ \E t \in 0..MaxTime : Views(t)
         \/ Ticks
         \/ UNCHANGED repositoryVars
  PROVE  RepositoryInv'
<1>1. /\ UNCHANGED <<head, revision, at, basis, told, publisher, stamp>>
      /\ \A c \in Calls : publisher = c /\ Author[Operation[c]] \in members => Author[Operation[c]] \in members'
  BY DEF Removes, Views, Ticks, repositoryVars
<1>2. RepositoryTypeOK'
  <2>1. members' \subseteq Users
    BY DEF Removes, Views, Ticks, repositoryVars, RepositoryInv, RepositoryTypeOK
  <2>2. clock' \in 0..MaxTime
    BY DEF Removes, Views, Ticks, repositoryVars, RepositoryInv, RepositoryTypeOK, RepositoryConstants
  <2>3. viewed' \in [0..MaxTime -> SUBSET (Calls \cup {None})]
    <3>1. viewed \in [0..MaxTime -> SUBSET (Calls \cup {None})]
      BY DEF RepositoryInv, RepositoryTypeOK
    <3>2. \A t \in 0..MaxTime : RecordedAt(t) \in Calls \cup {None}
      BY RecordedIsPublished DEF RepositoryInv, Published
    <3> QED
      BY <3>1, <3>2 DEF Removes, Views, Ticks, repositoryVars
  <2> QED
    BY <1>1, <2>1, <2>2, <2>3, SameStore DEF RepositoryInv, RepositoryTypeOK
<1>3. StoreInv'
  BY <1>1, StoreKept DEF RepositoryInv
<1>4. CallsInv' /\ PublisherInv' /\ AnswersAreTrue'
  BY <1>1, SameStore DEF RepositoryInv, CallsInv, PublisherInv, AnswersAreTrue
<1>5. TakesInv'
  BY <1>1, SameStore DEF RepositoryInv, TakesInv, PublisherInv
<1>6. ReviewsInv'
  BY <1>1, SameStore DEF RepositoryInv, ReviewsInv, Reviews
<1> QED
  BY <1>2, <1>3, <1>4, <1>5, <1>6 DEF RepositoryInv

-----------------------------------------------------------------------------
(***************************************************************************)
(* A publication                                                            *)
(***************************************************************************)

\* What the candidate changes in the tree it is made from.
LEMMA CandidateIs ==
  ASSUME RepositoryConstants, NEW c \in Calls, TreeOf(basis[c]) \in Tree
  PROVE  /\ Candidate(c) \in Tree
         /\ Kind[Operation[c]] = "propose" => Candidate(c).drafts = TreeOf(basis[c]).drafts \cup {Operation[c]}
         /\ Kind[Operation[c]] = "save" => Candidate(c).drafts = TreeOf(basis[c]).drafts
         /\ Reviews(c) => Candidate(c).drafts = TreeOf(basis[c]).drafts \ {Draft[Operation[c]]}
<1> DEFINE o == Operation[c]
           tree == TreeOf(basis[c])
<1>1. /\ o \in Operations /\ Draft[o] \in Operations /\ Path[o] \in Files /\ Path[Draft[o]] \in Files
      /\ Kind[o] \in {"save", "propose", "approve", "reject"}
  BY DEF RepositoryConstants
<1>2. tree.file \in [Files -> Operations \cup {None}] /\ tree.drafts \in SUBSET Operations
  BY DEF Tree
<1> HIDE DEF o, tree
<1>3. CASE Kind[o] = "save"
  <2>1. Candidate(c) = [tree EXCEPT !.file[Path[o]] = o]
    BY <1>3 DEF Candidate, o, tree
  <2>2. [tree.file EXCEPT ![Path[o]] = o] \in [Files -> Operations \cup {None}]
    BY <1>1, <1>2
  <2> QED
    BY <1>1, <1>2, <1>3, <2>1, <2>2 DEF Tree, Reviews, o, tree
<1>4. CASE Kind[o] = "propose"
  <2>1. Candidate(c) = [tree EXCEPT !.drafts = tree.drafts \cup {o}]
    BY <1>4 DEF Candidate, o, tree
  <2> QED
    BY <1>1, <1>2, <1>4, <2>1 DEF Tree, Reviews, o, tree
<1>5. CASE Kind[o] = "approve"
  <2>1. Candidate(c) = [file |-> [tree.file EXCEPT ![Path[Draft[o]]] = Draft[o]],
                        drafts |-> tree.drafts \ {Draft[o]}]
    BY <1>5 DEF Candidate, o, tree
  <2>2. [tree.file EXCEPT ![Path[Draft[o]]] = Draft[o]] \in [Files -> Operations \cup {None}]
    BY <1>1, <1>2
  <2> QED
    BY <1>1, <1>2, <1>5, <2>1, <2>2 DEF Tree, Reviews, o, tree
<1>6. CASE Kind[o] = "reject"
  <2>1. Candidate(c) = [tree EXCEPT !.drafts = tree.drafts \ {Draft[o]}]
    BY <1>6 DEF Candidate, o, tree
  <2> QED
    BY <1>1, <1>2, <1>6, <2>1 DEF Tree, Reviews, o, tree
<1> QED
  BY <1>1, <1>3, <1>4, <1>5, <1>6

\* A commit puts one revision on top of the head, and changes no other.
LEMMA CommitAdds ==
  ASSUME RepositoryConstants, RepositoryInv, NEW c \in Calls, Commits(c)
  PROVE  /\ c \notin Published /\ c # None /\ Published' = Published \cup {c} /\ Revisions' = Revisions \cup {c}
         /\ head = basis[c] /\ head \in Revisions /\ head' = c
         /\ revision' \in [Calls -> Revision \cup {None}]
         /\ revision'[c].parent = head /\ revision'[c].created = stamp /\ revision'[c].tree = Candidate(c)
         /\ \A d \in Published : d # c /\ d \in Calls /\ revision'[d] = revision[d]
         /\ \A r \in Revisions : TreeOf(r)' = TreeOf(r)
         /\ TreeOf(head) \in Tree
<1> DEFINE new == [parent |-> basis[c], created |-> stamp, tree |-> Candidate(c)]
<1>1. /\ RepositoryTypeOK /\ at[c] = "commits" /\ c \notin Published /\ head = basis[c] /\ c # None
  BY DEF RepositoryInv, CallsInv, TakesInv, Commits, RepositoryConstants
<1>2. EmptyTree \in Tree
  BY DEF EmptyTree, Tree
<1>3. TreeOf(head) \in Tree
  BY <1>1, <1>2 DEF RepositoryTypeOK, Revisions, Published, TreeOf, Revision
<1>4. new \in Revision
  <2>1. Candidate(c) \in Tree
    BY <1>1, <1>3, CandidateIs
  <2> QED
    BY <1>1, <2>1 DEF Revision, RepositoryTypeOK
<1>5. revision' = [revision EXCEPT ![c] = new] /\ head' = c
  BY DEF Commits
<1>6. new # None /\ new.parent = basis[c] /\ new.created = stamp /\ new.tree = Candidate(c)
  BY <1>4 DEF RepositoryConstants
<1> HIDE DEF new
<1>7. /\ revision' \in [Calls -> Revision \cup {None}] /\ revision'[c] = new
      /\ \A d \in Calls \ {c} : revision'[d] = revision[d]
  BY <1>1, <1>4, <1>5 DEF RepositoryTypeOK
<1>8. Published' = Published \cup {c} /\ Revisions' = Revisions \cup {c}
  BY <1>6, <1>7 DEF Published, Revisions
<1>9. \A d \in Published : d # c /\ d \in Calls /\ revision'[d] = revision[d]
  BY <1>1, <1>7 DEF Published
<1>10. \A r \in Revisions : TreeOf(r)' = TreeOf(r)
  BY <1>9 DEF TreeOf, Revisions
<1> QED
  BY <1>1, <1>3, <1>5, <1>6, <1>7, <1>8, <1>9, <1>10 DEF RepositoryTypeOK

LEMMA CommitLine ==
  ASSUME RepositoryConstants, RepositoryInv, NEW c \in Calls, Commits(c)
  PROVE  LineInv'
<1>0. /\ RepositoryTypeOK /\ HeadInv /\ HistoryIsALine /\ OperationsOnce /\ StampsFollow
      /\ Receipts(c) = {} /\ UNCHANGED basis /\ (head # None => stamp > revision[head].created)
      /\ stamp \in Nat /\ \A d \in Published : revision[d].created \in Nat
  BY DEF RepositoryInv, StoreInv, LineInv, TakesInv, Commits, RepositoryTypeOK, Published, Revision
<1>1. /\ c \notin Published /\ c # None /\ Published' = Published \cup {c} /\ Revisions' = Revisions \cup {c}
      /\ head = basis[c] /\ head \in Revisions /\ head' = c /\ revision'[c].parent = head
      /\ revision'[c].created = stamp /\ \A d \in Published : d # c /\ revision'[d] = revision[d]
  BY CommitAdds
<1>2. \A d \in Published : revision[d].created < stamp
  <2>1. ASSUME NEW d \in Published PROVE head # None /\ head \in Published
    BY <1>0, <1>1 DEF HeadInv, Revisions
  <2> QED
    BY <1>0, <2>1 DEF HeadInv
<1>3. HeadInv'
  <2>1. IsFiniteSet(Published')
    BY <1>0, <1>1, FS_AddElement DEF HeadInv
  <2> QED
    BY <1>0, <1>1, <1>2, <2>1 DEF HeadInv
<1>4. HistoryIsALine'
  <2>1. \A d \in Published : revision[d].parent \in Revisions /\ revision[d].parent # head
    BY <1>0, <1>1 DEF HistoryIsALine, HeadInv, Revisions
  <2>2. \A d \in Published' : revision'[d].parent \in Revisions'
    BY <1>1, <2>1
  <2>3. \A a, b \in Published' : revision'[a].parent = revision'[b].parent => a = b
    BY <1>0, <1>1, <2>1 DEF HistoryIsALine
  <2>4. \A d \in Published' : d # head' <=> \E b \in Published' : revision'[b].parent = d
    <3>1. \A b \in Published' : revision'[b].parent # c
      BY <1>1, <2>1 DEF Revisions
    <3>2. ASSUME NEW d \in Published PROVE \E b \in Published' : revision'[b].parent = d
      BY <1>0, <1>1 DEF HistoryIsALine
    <3> QED
      BY <1>1, <3>1, <3>2
  <2> QED
    BY <2>2, <2>3, <2>4 DEF HistoryIsALine
<1>5. OperationsOnce'
  BY <1>0, <1>1 DEF OperationsOnce, Receipts
<1>6. StampsFollow'
  BY <1>0, <1>1, <1>2 DEF StampsFollow, HistoryIsALine, Revisions
<1> QED
  BY <1>3, <1>4, <1>5, <1>6 DEF LineInv

\* A draft that stands goes on to stand: its publication and the revision it was made on stay.
LEMMA CommitStands ==
  ASSUME RepositoryConstants, RepositoryInv, NEW c \in Calls, Commits(c)
  PROVE  \A o, tree : Stands(o, tree) => Stands(o, tree)'
<1> SUFFICES ASSUME NEW o, NEW tree, Stands(o, tree) PROVE Stands(o, tree)'
  OBVIOUS
<1>1. /\ \A d \in Published : /\ d \in Published' /\ revision'[d] = revision[d]
                              /\ TreeOf(revision[d].parent)' = TreeOf(revision[d].parent)
  BY CommitAdds DEF RepositoryInv, StoreInv, LineInv, HistoryIsALine
<1>2. ASSUME NEW f \in Sources[o] \cup {Path[o]}
      PROVE  \E d \in Published' : Operation[d] = o /\ tree.file[f] = TreeOf(revision[d].parent)'.file[f]
  <2>1. PICK d \in Published : Operation[d] = o /\ tree.file[f] = TreeOf(revision[d].parent).file[f]
    BY DEF Stands
  <2> QED
    BY <1>1, <2>1
<1> QED
  BY <1>2 DEF Stands

\* What the commit of a review relies on, and what the commit leaves open.
LEMMA CommitDecides ==
  ASSUME RepositoryConstants, RepositoryInv, NEW c \in Calls, Commits(c)
  PROVE  DecisionsInv' /\ ApprovedInv' /\ DecidedOnce'
<1>0. DecisionsInv /\ ApprovedInv /\ DecidedOnce /\ HistoryIsALine /\ Receipts(c) = {} /\ at[c] = "commits"
  BY DEF RepositoryInv, StoreInv, LineInv, TakesInv, Commits
<1>1. /\ Published' = Published \cup {c} /\ head = basis[c] /\ head \in Revisions /\ head' = c
      /\ revision'[c].parent = head /\ TreeOf(head) \in Tree
      /\ \A d \in Published : d # c /\ revision'[d] = revision[d]
      /\ \A r \in Revisions : TreeOf(r)' = TreeOf(r)
  BY CommitAdds
<1>2. TreeOf(head)'.drafts = Candidate(c).drafts
  BY CommitAdds DEF TreeOf
<1>3. /\ Kind[Operation[c]] = "propose" => TreeOf(head)'.drafts = TreeOf(head).drafts \cup {Operation[c]}
      /\ Kind[Operation[c]] = "save" => TreeOf(head)'.drafts = TreeOf(head).drafts
      /\ Reviews(c) => TreeOf(head)'.drafts = TreeOf(head).drafts \ {Draft[Operation[c]]}
  BY <1>1, <1>2, CandidateIs
<1>4. Kind[Operation[c]] \in {"propose", "save"} \/ Reviews(c)
  BY DEF RepositoryConstants, Reviews
<1>5. Reviews(c) => /\ Draft[Operation[c]] \in TreeOf(head).drafts
                    /\ Kind[Operation[c]] = "approve" => Stands(Draft[Operation[c]], TreeOf(head))
  BY <1>0, <1>1, ReviewsGoOn DEF Checked
<1>6. \A o : Proposed(o)' <=> Proposed(o) \/ o = Operation[c]
  BY <1>1 DEF Proposed
<1>7. ~Proposed(Operation[c])
  BY <1>0 DEF Proposed, Receipts
<1>8. DecisionsInv'
  <2>1. \A o \in TreeOf(head)'.drafts : o \in TreeOf(head).drafts \/ o = Operation[c]
    BY <1>3, <1>4
  <2>2. \A o \in TreeOf(head)'.drafts : Proposed(o)'
    BY <1>0, <1>6, <2>1 DEF DecisionsInv
  <2>3. ASSUME NEW d \in Published, Reviews(d)
        PROVE  Proposed(Draft[Operation[d]])' /\ Draft[Operation[d]] \notin TreeOf(head)'.drafts
    BY <1>0, <1>6, <1>7, <2>1, <2>3 DEF DecisionsInv
  <2>4. ASSUME Reviews(c)
        PROVE  Proposed(Draft[Operation[c]])' /\ Draft[Operation[c]] \notin TreeOf(head)'.drafts
    BY <1>0, <1>3, <1>5, <1>6, <2>4 DEF DecisionsInv
  <2>5. \A d \in Published' : Reviews(d) =>
            Proposed(Draft[Operation[d]])' /\ Draft[Operation[d]] \notin TreeOf(head)'.drafts
    BY <1>1, <2>3, <2>4
  <2> QED
    BY <2>2, <2>5 DEF DecisionsInv, Reviews
<1>9. ApprovedInv'
  <2>1. ASSUME NEW d \in Published, Kind[Operation[d]] = "approve"
        PROVE  /\ Draft[Operation[d]] \in TreeOf(revision[d].parent)'.drafts
               /\ Stands(Draft[Operation[d]], TreeOf(revision[d].parent))'
    <3>1. revision[d].parent \in Revisions /\ revision'[d] = revision[d]
      BY <1>0, <1>1 DEF HistoryIsALine
    <3>2. TreeOf(revision[d].parent)' = TreeOf(revision[d].parent)
      BY <1>1, <3>1
    <3>3. /\ Draft[Operation[d]] \in TreeOf(revision[d].parent).drafts
          /\ Stands(Draft[Operation[d]], TreeOf(revision[d].parent))
      BY <1>0, <2>1 DEF ApprovedInv
    <3>4. Stands(Draft[Operation[d]], TreeOf(revision[d].parent))'
      BY <3>2, <3>3, CommitStands
    <3> QED
      BY <3>2, <3>3, <3>4
  <2>2. ASSUME Kind[Operation[c]] = "approve"
        PROVE  /\ Draft[Operation[c]] \in TreeOf(revision[c].parent)'.drafts
               /\ Stands(Draft[Operation[c]], TreeOf(revision[c].parent))'
    <3>1. TreeOf(revision[c].parent)' = TreeOf(head)
      BY <1>1 DEF TreeOf
    <3>2. Reviews(c) /\ Stands(Draft[Operation[c]], TreeOf(head))
      BY <1>5, <2>2 DEF Reviews
    <3>3. Stands(Draft[Operation[c]], TreeOf(revision[c].parent))'
      BY <3>1, <3>2, CommitStands
    <3> QED
      BY <1>5, <3>1, <3>2, <3>3
  <2> QED
    BY <1>1, <2>1, <2>2 DEF ApprovedInv
<1>10. DecidedOnce'
  <2>1. ASSUME NEW d \in Published, Reviews(d), Reviews(c), Draft[Operation[c]] = Draft[Operation[d]]
        PROVE  FALSE
    BY <1>0, <1>5, <2>1 DEF DecisionsInv
  <2>2. \A d : {Kind[Operation[c]], Kind[Operation[d]]} \subseteq {"approve", "reject"}
               <=> Reviews(c) /\ Reviews(d)
    BY DEF Reviews
  <2> QED
    BY <1>0, <1>1, <2>1, <2>2 DEF DecidedOnce
<1> QED
  BY <1>8, <1>9, <1>10

LEMMA CommitPreserves ==
  ASSUME RepositoryConstants, RepositoryInv, NEW c \in Calls, Commits(c)
  PROVE  RepositoryInv'
<1>0. /\ RepositoryTypeOK /\ CallsInv /\ PublisherInv /\ AnswersAreTrue
      /\ UNCHANGED <<members, basis, clock, viewed>> /\ publisher = c /\ publisher' = None /\ stamp' = 0
      /\ at' = [at EXCEPT ![c] = "ended"]
      /\ told' = [told EXCEPT ![c] = c] \/ told' = [told EXCEPT ![c] = "lost"]
  BY DEF RepositoryInv, Commits, Ends
<1>1. /\ c \notin Published /\ c # None /\ Published' = Published \cup {c} /\ Revisions' = Revisions \cup {c}
      /\ head = basis[c] /\ head' = c /\ revision' \in [Calls -> Revision \cup {None}]
      /\ revision'[c].parent = head /\ \A d \in Published : d # c /\ d \in Calls /\ revision'[d] = revision[d]
  BY CommitAdds
<1>2. /\ at'[c] = "ended" /\ told'[c] \in {c, "lost"}
      /\ \A d \in Calls \ {c} : at'[d] = at[d] /\ told'[d] = told[d]
  BY <1>0 DEF RepositoryTypeOK
<1>3. None \notin Calls /\ "lost" \notin Calls /\ "lost" \notin Refusals /\ c \notin Refusals
  BY DEF RepositoryConstants, Refusals
<1>4. RepositoryTypeOK'
  <2>1. at' \in [Calls -> Places] /\ told' \in [Calls -> Calls \cup Refusals \cup {"lost", None}]
    BY <1>0 DEF RepositoryTypeOK, Places
  <2> QED
    BY <1>0, <1>1, <2>1 DEF RepositoryTypeOK
<1>5. CallsInv'
  BY <1>0, <1>1, <1>2 DEF CallsInv
<1>6. PublisherInv' /\ TakesInv'
  BY <1>0, <1>2, <1>3 DEF PublisherInv, TakesInv
<1>7. ReviewsInv'
  <2>1. \A d \in Calls : basis'[d] # head'
    BY <1>0, <1>1 DEF CallsInv, Revisions
  <2> QED
    BY <2>1 DEF ReviewsInv
<1>8. AnswersAreTrue'
  BY <1>0, <1>1, <1>2, <1>3 DEF AnswersAreTrue
<1>9. StoreInv'
  BY CommitLine, CommitDecides DEF StoreInv
<1> QED
  BY <1>4, <1>5, <1>6, <1>7, <1>8, <1>9 DEF RepositoryInv

-----------------------------------------------------------------------------
\* The inductive invariant of the repository: the line, the takes and the checked reviews together
\* (publish, replay, reviewKnowledgeProposal, removeWorkspaceMember).
THEOREM RepositoryInvInductive ==
  ASSUME RepositoryConstants
  PROVE  /\ RepositoryInit => RepositoryInv
         /\ RepositoryInv /\ [RepositoryNext]_repositoryVars => RepositoryInv'
<1>1. RepositoryInit => RepositoryInv
  BY InitRepositoryInv
<1>2. ASSUME RepositoryInv, [RepositoryNext]_repositoryVars
      PROVE  RepositoryInv'
  <2>1. ASSUME NEW c \in Calls, Posts(c) \/ Works(c) \/ Crashes(c)
        PROVE  RepositoryInv'
    BY <1>2, <2>1, PostsPreserves, LoadsPreserves, PreviewsPreserves, PreparationsPreserve,
       PublishesPreserves, CommitPreserves, CrashesPreserves DEF Works
  <2> QED
    BY <1>2, <2>1, SurroundingsPreserve DEF RepositoryNext
<1> QED
  BY <1>1, <1>2

LEMMA AlwaysRepositoryInv ==
  ASSUME RepositoryConstants
  PROVE  RepositorySpec => []RepositoryInv
<1>1. RepositoryInit => RepositoryInv
  BY RepositoryInvInductive
<1>2. RepositoryInv /\ [RepositoryNext]_repositoryVars => RepositoryInv'
  BY RepositoryInvInductive
<1> QED
  BY <1>1, <1>2, PTL DEF RepositorySpec

\* An approval published only what was open and stood as it was written, for every publication of
\* the draft: there is one (reviewKnowledgeProposal, readKnowledgeProposal, publish).
LEMMA ApprovedAsWritten ==
  ASSUME RepositoryInv
  PROVE  ReviewedAsWritten
<1> SUFFICES ASSUME NEW c \in Published, Kind[Operation[c]] = "approve"
             PROVE  LET tree == TreeOf(revision[c].parent)  d == Draft[Operation[c]] IN
                    /\ d \in tree.drafts
                    /\ \A p \in Published : Operation[p] = d =>
                           \A f \in Sources[d] \cup {Path[d]} :
                               tree.file[f] = TreeOf(revision[p].parent).file[f]
  BY DEF ReviewedAsWritten
<1> DEFINE tree == TreeOf(revision[c].parent)
           d == Draft[Operation[c]]
<1>1. d \in tree.drafts /\ Stands(d, tree)
  BY DEF RepositoryInv, StoreInv, ApprovedInv
<1>2. ASSUME NEW p \in Published, Operation[p] = d, NEW f \in Sources[d] \cup {Path[d]}
      PROVE  tree.file[f] = TreeOf(revision[p].parent).file[f]
  <2>1. PICK q \in Published : Operation[q] = d /\ tree.file[f] = TreeOf(revision[q].parent).file[f]
    BY <1>1 DEF Stands
  <2>2. q = p
    BY <1>2, <2>1 DEF RepositoryInv, StoreInv, LineInv, OperationsOnce
  <2> QED
    BY <2>1, <2>2
<1> QED
  BY <1>1, <1>2

\* The revisions are one line, an operation is in it once, answers are true, times follow, an
\* approval publishes what was reviewed and a proposal is decided once: for any calls, retries,
\* removals, crashes and clock (server/workspaces/repository.ts and the reviews of knowledge).
THEOREM RepositorySafe ==
  ASSUME RepositoryConstants
  PROVE  RepositorySpec => [](/\ RepositoryTypeOK /\ HistoryIsALine /\ OperationsOnce /\ AnswersAreTrue
                              /\ StampsFollow /\ ReviewedAsWritten /\ DecidedOnce)
<1>1. RepositoryInv => /\ RepositoryTypeOK /\ HistoryIsALine /\ OperationsOnce /\ AnswersAreTrue /\ StampsFollow
                       /\ ReviewedAsWritten /\ DecidedOnce
  BY ApprovedAsWritten DEF RepositoryInv, StoreInv, LineInv
<1> QED
  BY <1>1, AlwaysRepositoryInv, PTL

\* No revision appears of an author who is no longer a member (removeWorkspaceMember waits for the
\* publication that shares the membership).
THEOREM OnlyMembersPublish ==
  ASSUME RepositoryConstants
  PROVE  RepositorySpec => [][RemovedDoNotPublish]_repositoryVars
<1>1. ASSUME RepositoryInv, [RepositoryNext]_repositoryVars
      PROVE  [RemovedDoNotPublish]_repositoryVars
  <2>1. ASSUME NEW c \in Calls, revision'[c] # revision[c]
        PROVE  Author[Operation[c]] \in members
    <3>1. PICK d \in Calls : Commits(d)
      BY <1>1, <2>1 DEF RepositoryNext, Works, Posts, Loads, Previews, Begins, Snapshots, Prepares, Publishes,
                        Crashes, Removes, Views, Ticks, UnchangedStore, repositoryVars
    <3>2. c = d
      BY <1>1, <2>1, <3>1 DEF Commits, RepositoryInv, RepositoryTypeOK
    <3>3. at[d] = "commits"
      BY <3>1 DEF Commits
    <3> QED
      BY <1>1, <3>2, <3>3 DEF RepositoryInv, TakesInv
  <2> QED
    BY <2>1 DEF RemovedDoNotPublish
<1> QED
  BY <1>1, AlwaysRepositoryInv, PTL DEF RepositorySpec

-----------------------------------------------------------------------------
(***************************************************************************)
(* The promise                                                              *)
(***************************************************************************)

\* The place of a revision in the line is the number of those recorded before it.
Ahead(c) == Cardinality(Before(c))
OrderInv ==
    /\ Cardinality(Published) \in Nat
    /\ \A c \in Published : Ahead(c) \in 0..(Cardinality(Published) - 1)
    /\ \A i \in 0..(Cardinality(Published) - 1) : \E c \in Published : Ahead(c) = i
    /\ \A c, d \in Published : Ahead(c) = Ahead(d) => c = d

LEMMA OrderedAs ==
  ASSUME OrderInv
  PROVE  /\ Ordered \in [1..Cardinality(Published) -> Published]
         /\ \A c \in Published : Ordered[Ahead(c) + 1] = c
         /\ Ordered \in Seq(Published) /\ Len(Ordered) = Cardinality(Published)
<1> DEFINE n == Cardinality(Published)
<1>1. Ordered = [i \in 1..n |-> CHOOSE c \in Published : Ahead(c) = i - 1]
  BY DEF Ordered, Ahead
<1>2. n \in Nat /\ \A c \in Published : Ahead(c) \in 0..(n - 1)
  BY DEF OrderInv
<1>3. ASSUME NEW i \in 1..n PROVE Ordered[i] \in Published /\ Ahead(Ordered[i]) = i - 1
  <2>1. i - 1 \in 0..(n - 1)
    BY <1>2
  <2>2. PICK c \in Published : Ahead(c) = i - 1
    BY <2>1 DEF OrderInv
  <2> HIDE DEF n
  <2> QED
    BY <1>1, <2>2
<1> HIDE DEF n
<1>4. Ordered \in [1..n -> Published]
  BY <1>1, <1>3
<1>5. ASSUME NEW c \in Published PROVE Ordered[Ahead(c) + 1] = c
  <2>1. Ahead(c) + 1 \in 1..n /\ (Ahead(c) + 1) - 1 = Ahead(c)
    BY <1>2
  <2> QED
    BY <1>3, <2>1 DEF OrderInv
<1>6. Ordered \in Seq(Published) /\ Len(Ordered) = n
  BY <1>2, <1>4
<1> QED
  BY <1>4, <1>5, <1>6 DEF n

\* The line holds what is published, and ends in the head.
LEMMA LineIs ==
  ASSUME RepositoryInv, OrderInv
  PROVE  Promise!InLine = Published /\ Promise!Newest = head
<1> DEFINE n == Cardinality(Published)
<1>1. /\ Ordered \in [1..n -> Published] /\ Len(Ordered) = n /\ n \in Nat
      /\ \A c \in Published : Ahead(c) + 1 \in 1..n /\ Ordered[Ahead(c) + 1] = c
  BY OrderedAs DEF OrderInv
<1>2. Promise!InLine = Published
  BY <1>1 DEF Promise!InLine
<1>3. HeadInv /\ head \in Revisions /\ \A c \in Published : revision[c].created \in Nat
  BY DEF RepositoryInv, StoreInv, LineInv, RepositoryTypeOK, Published, Revision
<1>4. CASE head = None
  <2>1. Published = {} /\ n = 0
    BY <1>3, <1>4, FS_EmptySet DEF HeadInv
  <2>2. Ordered = <<>>
    BY <1>1, <2>1
  <2> QED
    BY <1>2, <1>4, <2>2 DEF Promise!Newest
<1>5. CASE head # None
  <2>1. head \in Published /\ IsFiniteSet(Published)
    BY <1>3, <1>5 DEF Revisions, HeadInv
  <2>2. Before(head) = Published \ {head}
    BY <1>3, <2>1 DEF Before, HeadInv
  <2>3. Ahead(head) = n - 1
    BY <2>1, <2>2, FS_RemoveElement DEF Ahead
  <2>4. Ordered[n] = head /\ n # 0
    BY <1>1, <2>1, <2>3
  <2>5. Ordered # <<>>
    BY <1>1, <2>4
  <2> QED
    BY <1>1, <1>2, <2>4, <2>5 DEF Promise!Newest
<1> QED
  BY <1>4, <1>5

\* A commit adds to the end of the line.
LEMMA CommitAppends ==
  ASSUME RepositoryConstants, RepositoryInv, OrderInv, NEW c \in Calls, Commits(c)
  PROVE  OrderInv' /\ Ordered' = Append(Ordered, c)
<1> DEFINE n == Cardinality(Published)
<1>0. /\ n \in Nat /\ \A d \in Published : Ahead(d) \in 0..(n - 1)
      /\ \A i \in 0..(n - 1) : \E d \in Published : Ahead(d) = i
      /\ \A d, e \in Published : Ahead(d) = Ahead(e) => d = e
  BY DEF OrderInv
<1>1. /\ c \notin Published /\ Published' = Published \cup {c} /\ revision'[c].created = stamp
      /\ head' = c /\ \A d \in Published : d # c /\ revision'[d] = revision[d]
  BY CommitAdds
<1>2. /\ IsFiniteSet(Published) /\ stamp \in Nat
      /\ \A d \in Published : revision[d].created \in Nat /\ revision[d].created < stamp
  <2>1. HeadInv' /\ HeadInv /\ RepositoryTypeOK
    BY CommitLine DEF RepositoryInv, StoreInv, LineInv
  <2>2. /\ stamp \in Nat /\ \A d \in Published : revision[d].created \in Nat
    BY <2>1 DEF RepositoryTypeOK, Published, Revision
  <2> QED
    BY <1>1, <2>1, <2>2 DEF HeadInv
<1>3. Cardinality(Published') = n + 1
  BY <1>1, <1>2, FS_AddElement
<1>4. \A d \in Published : Before(d)' = Before(d)
  BY <1>1, <1>2 DEF Before
<1>5. Before(c)' = Published
  BY <1>1, <1>2 DEF Before
<1>6. Ahead(c)' = n /\ \A d \in Published : Ahead(d)' = Ahead(d)
  BY <1>4, <1>5 DEF Ahead
<1> HIDE DEF n
<1>7. OrderInv'
  <2>1. \A d \in Published' : Ahead(d)' \in 0..n
    BY <1>0, <1>1, <1>6
  <2>2. \A i \in 0..n : \E d \in Published' : Ahead(d)' = i
    <3>1. \A i \in 0..n : i \in 0..(n - 1) \/ i = n
      BY <1>0
    <3> QED
      BY <1>0, <1>1, <1>6, <3>1
  <2>3. \A d, e \in Published' : Ahead(d)' = Ahead(e)' => d = e
    <3>1. \A d \in Published : Ahead(d) # n
      BY <1>0
    <3> QED
      BY <1>0, <1>1, <1>6, <3>1
  <2>4. (n + 1) - 1 = n /\ n + 1 \in Nat
    BY <1>0
  <2> QED
    BY <1>3, <2>1, <2>2, <2>3, <2>4 DEF OrderInv
<1>8. /\ Ordered \in [1..n -> Published] /\ Len(Ordered) = n /\ Ordered \in Seq(Published)
      /\ \A d \in Published : Ordered[Ahead(d) + 1] = d
  BY OrderedAs DEF n
<1>9. Ordered' = [i \in 1..(n + 1) |-> CHOOSE d \in Published' : Ahead(d)' = i - 1]
  BY <1>3 DEF Ordered, Ahead
<1>10. ASSUME NEW i \in 1..(n + 1)
       PROVE  Ordered'[i] = IF i = n + 1 THEN c ELSE Ordered[i]
  <2>1. Ordered'[i] = CHOOSE d \in Published' : Ahead(d)' = i - 1
    BY <1>9
  <2>2. ASSUME NEW e \in Published', Ahead(e)' = i - 1 PROVE Ordered'[i] = e
    BY <2>1, <2>2, <1>7 DEF OrderInv
  <2>3. CASE i = n + 1
    <3>1. c \in Published' /\ Ahead(c)' = i - 1
      BY <1>0, <1>1, <1>6, <2>3
    <3> QED
      BY <2>2, <2>3, <3>1
  <2>4. CASE i # n + 1
    <3>1. i - 1 \in 0..(n - 1)
      BY <1>0, <2>4
    <3>2. PICK d \in Published : Ahead(d) = i - 1
      BY <1>0, <3>1
    <3>3. Ordered[i] = d
      <4>1. (i - 1) + 1 = i
        BY <1>0
      <4> QED
        BY <1>8, <3>2, <4>1
    <3>4. d \in Published' /\ Ahead(d)' = i - 1
      BY <1>1, <1>6, <3>2
    <3> QED
      BY <2>2, <2>4, <3>3, <3>4
  <2> QED
    BY <2>3, <2>4
<1>11. Ordered' = Append(Ordered, c)
  <2> DEFINE new == Append(Ordered, c)
  <2>1. c \in Published \cup {c} /\ Ordered \in Seq(Published \cup {c})
    BY <1>8
  <2>2. /\ new \in Seq(Published \cup {c}) /\ Len(new) = n + 1
        /\ \A i \in 1..(n + 1) : new[i] = IF i = n + 1 THEN c ELSE Ordered[i]
    BY <1>0, <1>8, <2>1, AppendProperties
  <2> HIDE DEF new
  <2>3. new \in [1..(n + 1) -> Published \cup {c}]
    BY <2>2, LenProperties
  <2>4. Ordered' = [i \in 1..(n + 1) |-> Ordered'[i]]
    BY <1>9
  <2>5. \A i \in 1..(n + 1) : Ordered'[i] = new[i]
    BY <1>10, <2>2
  <2>6. Ordered' = new
    BY <2>3, <2>4, <2>5
  <2> QED
    BY <2>6 DEF new
<1> QED
  BY <1>7, <1>11

\* What a caller was told, as the promise has it.
Reply == [c \in Calls |-> IF told[c] \in Refusals THEN "refused" ELSE told[c]]

LEMMA SameLine ==
  ASSUME UNCHANGED <<head, revision>>
  PROVE  Ordered' = Ordered /\ (OrderInv => OrderInv')
<1>1. Published' = Published /\ \A c : Before(c)' = Before(c)
  BY DEF Published, Before
<1>2. \A c : Ahead(c)' = Ahead(c)
  BY <1>1 DEF Ahead
<1>3. Ordered' = Ordered
  BY <1>1 DEF Ordered
<1>4. OrderInv => OrderInv'
  BY <1>1, <1>2 DEF OrderInv
<1> QED
  BY <1>3, <1>4

\* A call that goes on says nothing new.
LEMMA MovesStutter ==
  ASSUME NEW c \in Calls, NEW place, Moves(c, place), UNCHANGED <<basis, head, revision>>
  PROVE  UNCHANGED Promise!promised
BY SameLine DEF Moves, Promise!promised

\* A refusal, and an answer that is lost.
LEMMA EndsRefuses ==
  ASSUME RepositoryConstants, RepositoryInv, OrderInv, NEW c \in Calls, at[c] # "ended",
         NEW answer \in Refusals \cup {"lost"}, Ends(c, answer), UNCHANGED <<basis, head, revision>>
  PROVE  Promise!Refuse(c)
<1>1. told \in [Calls -> Calls \cup Refusals \cup {"lost", None}] /\ told[c] = None /\ c \notin Published
  BY DEF RepositoryInv, RepositoryTypeOK, CallsInv
<1>2. None \notin Refusals /\ "lost" \notin Refusals /\ None # "lost"
  BY DEF RepositoryConstants, Refusals
<1>3. Reply[c] = None
  BY <1>1, <1>2 DEF Reply
<1>4. told' = [told EXCEPT ![c] = answer]
  BY DEF Ends
<1>5. Reply' \in {[Reply EXCEPT ![c] = "refused"], [Reply EXCEPT ![c] = "lost"]}
  <2>1. CASE answer \in Refusals
    BY <1>1, <1>4, <2>1 DEF Reply
  <2>2. CASE answer = "lost"
    BY <1>1, <1>2, <1>4, <2>2 DEF Reply
  <2> QED
    BY <2>1, <2>2
<1>6. c \notin Promise!InLine
  BY <1>1, LineIs
<1> QED
  BY <1>3, <1>5, <1>6, SameLine DEF Promise!Refuse, Reply

\* A retry is told what the operation published, or refused.
LEMMA ReplaysAnswer ==
  ASSUME RepositoryConstants, RepositoryInv, OrderInv, NEW c \in Calls, at[c] # "ended",
         Replays(c), UNCHANGED <<basis, head, revision>>
  PROVE  Promise!Answer(c) \/ Promise!Refuse(c)
<1> PICK d \in Receipts(c) : Ends(c, IF SameRequest(c, d) THEN d ELSE "conflict")
  BY DEF Replays
<1>1. CASE ~SameRequest(c, d)
  BY <1>1, EndsRefuses DEF Refusals
<1>2. CASE SameRequest(c, d)
  <2>1. /\ told \in [Calls -> Calls \cup Refusals \cup {"lost", None}] /\ told[c] = None
        /\ None \notin Refusals /\ d \in Published /\ d \in Calls /\ d \notin Refusals
        /\ Operation[d] = Operation[c]
    BY DEF RepositoryInv, RepositoryTypeOK, CallsInv, RepositoryConstants, Receipts, Published
  <2>2. basis[d] = basis[c]
    BY <1>2, <2>1 DEF SameRequest, RepositoryInv, StoreInv, LineInv, HeadInv
  <2>3. told' = [told EXCEPT ![c] = d]
    BY <1>2 DEF Ends
  <2>4. Reply[c] = None /\ Reply' = [Reply EXCEPT ![c] = d]
    BY <2>1, <2>3 DEF Reply
  <2>5. d \in Promise!InLine /\ Promise!Repeats(c, d)
    BY <2>1, <2>2, LineIs DEF Promise!Repeats
  <2> QED
    BY <2>4, <2>5, SameLine DEF Promise!Answer, Reply
<1> QED
  BY <1>1, <1>2

LEMMA PostsAsk ==
  ASSUME RepositoryConstants, RepositoryInv, OrderInv, NEW c \in Calls, Posts(c)
  PROVE  Promise!Ask(c)
<1>1. /\ told[c] = None /\ c \notin Published /\ None \notin Refusals
      /\ UNCHANGED <<told, head, revision>> /\ \E r \in Revisions : basis' = [basis EXCEPT ![c] = r]
  BY DEF RepositoryInv, CallsInv, RepositoryConstants, Posts, Moves, UnchangedStore
<1>2. Reply[c] = None /\ UNCHANGED Reply
  BY <1>1 DEF Reply
<1>3. c \notin Promise!InLine /\ Revisions = {None} \cup Promise!InLine
  BY <1>1, LineIs DEF Revisions
<1> QED
  BY <1>1, <1>2, <1>3, SameLine DEF Promise!Ask, Reply

LEMMA CommitsPublish ==
  ASSUME RepositoryConstants, RepositoryInv, OrderInv, NEW c \in Calls, Commits(c)
  PROVE  Promise!Publish(c)
<1>1. /\ told \in [Calls -> Calls \cup Refusals \cup {"lost", None}] /\ told[c] = None
      /\ head = basis[c] /\ Receipts(c) = {} /\ UNCHANGED basis
      /\ None \notin Refusals /\ "lost" \notin Refusals /\ c \notin Refusals
      /\ told' = [told EXCEPT ![c] = c] \/ told' = [told EXCEPT ![c] = "lost"]
  BY DEF RepositoryInv, RepositoryTypeOK, CallsInv, TakesInv, Commits, Ends, RepositoryConstants, Refusals
<1>2. Reply[c] = None /\ Reply' \in {[Reply EXCEPT ![c] = c], [Reply EXCEPT ![c] = "lost"]}
  BY <1>1 DEF Reply
<1>3. basis[c] = Promise!Newest /\ \A d \in Promise!InLine : Operation[d] # Operation[c]
  BY <1>1, LineIs DEF Receipts
<1> QED
  BY <1>1, <1>2, <1>3, CommitAppends DEF Promise!Publish, Reply

\* Every step is a step of the promise or leaves it as it is.
LEMMA StepKeepsPromise ==
  ASSUME RepositoryConstants, RepositoryInv, OrderInv, [RepositoryNext]_repositoryVars
  PROVE  [Promise!PromisedNext]_(Promise!promised) /\ OrderInv'
<1>1. ASSUME NEW c \in Calls, at[c] # "ended", UNCHANGED <<basis, head, revision>>,
             \/ \E place \in Places : Moves(c, place)
             \/ \E answer \in Refusals \cup {"lost"} : Ends(c, answer)
             \/ Replays(c)
      PROVE  [Promise!PromisedNext]_(Promise!promised) /\ OrderInv'
  BY <1>1, MovesStutter, EndsRefuses, ReplaysAnswer, SameLine DEF Promise!PromisedNext
<1>2. ASSUME NEW c \in Calls, Posts(c)
      PROVE  [Promise!PromisedNext]_(Promise!promised) /\ OrderInv'
  BY <1>2, PostsAsk, SameLine DEF Promise!PromisedNext, Posts, UnchangedStore
<1>3. ASSUME NEW c \in Calls, Commits(c)
      PROVE  [Promise!PromisedNext]_(Promise!promised) /\ OrderInv'
  BY <1>3, CommitsPublish, CommitAppends DEF Promise!PromisedNext
<1>4. ASSUME NEW c \in Calls,
             Loads(c) \/ Previews(c) \/ Begins(c) \/ Snapshots(c) \/ Prepares(c) \/ Publishes(c) \/ Crashes(c)
      PROVE  [Promise!PromisedNext]_(Promise!promised) /\ OrderInv'
  <2>1. at[c] # "ended" /\ UNCHANGED <<basis, head, revision>>
    BY <1>4 DEF Loads, Previews, Begins, Snapshots, Prepares, Publishes, Crashes, UnchangedStore
  <2>2. \/ \E place \in {"previews", "begins", "snapshots", "prepares", "publishes", "commits"} : Moves(c, place)
        \/ \E answer \in {"denied", "missing", "conflict", "unavailable", "lost"} : Ends(c, answer)
        \/ Replays(c)
    BY <1>4 DEF Loads, Previews, Begins, Snapshots, Prepares, Publishes, Crashes
  <2> QED
    BY <1>1, <2>1, <2>2 DEF Places, Refusals
<1>5. ASSUME UNCHANGED <<head, revision, basis, told>>
      PROVE  [Promise!PromisedNext]_(Promise!promised) /\ OrderInv'
  BY <1>5, SameLine DEF Promise!promised
<1> QED
  BY <1>2, <1>3, <1>4, <1>5
     DEF RepositoryNext, Works, Removes, Views, Ticks, repositoryVars

\* The repository keeps the promise of RevisionPromise: revisions in one line, each on the newest and
\* for a call that named it, an operation once, and answers only to who made or repeats it
\* (publish, replay, reviewKnowledgeProposal).
THEOREM RevisionPromiseKept ==
  ASSUME RepositoryConstants
  PROVE  RepositorySpec => Promise!PromisedSpec
<1>1. RepositoryInit => Promise!PromisedInit /\ OrderInv
  <2> SUFFICES ASSUME RepositoryInit PROVE Promise!PromisedInit /\ OrderInv
    OBVIOUS
  <2>1. Published = {} /\ None \notin Refusals /\ \A c \in Calls : told[c] = None
    BY DEF RepositoryInit, Published, RepositoryConstants
  <2>2. Cardinality(Published) = 0
    BY <2>1, FS_EmptySet
  <2>3. OrderInv
    BY <2>1, <2>2 DEF OrderInv
  <2>4. Ordered = <<>>
    BY <2>2, <2>3, OrderedAs
  <2>5. Reply = [c \in Calls |-> None]
    BY <2>1 DEF Reply
  <2> QED
    BY <2>3, <2>4, <2>5 DEF Promise!PromisedInit, RepositoryInit, Reply
<1>2. RepositoryInv /\ OrderInv /\ [RepositoryNext]_repositoryVars =>
          [Promise!PromisedNext]_(Promise!promised) /\ OrderInv'
  BY StepKeepsPromise
<1> QED
  BY <1>1, <1>2, AlwaysRepositoryInv, PTL DEF RepositorySpec, Promise!PromisedSpec
================================================================================
