--------------------------- MODULE MatrixAudience ---------------------------
(***************************************************************************)
(* server/matrix: who is in a team room.  The rows of the room say who has  *)
(* joined, left or been removed; the homeserver says who receives what is   *)
(* sent.  The two are brought together by requests made inside the          *)
(* transaction that holds the room, by the minute schedule, and by the      *)
(* m.room.member events the homeserver pushes.  An answer is sent only when *)
(* the rows promise that nobody receives it who may not.                    *)
(*                                                                         *)
(* One private room.  The bot alone invites and kicks; a person is a        *)
(* virtual user whose requests the server makes.  Failures are those in     *)
(* which something happened: a request carried out whose transaction then   *)
(* failed, and a request carried out after its caller gave up.              *)
(***************************************************************************)
EXTENDS Naturals, FiniteSets

CONSTANTS
    People,
    NoAnswer,
    MaxEpoch,     \* bound on the changes of the room
    MaxLate,      \* bound on the requests on their way after their caller gave up
    Failing       \* the transactions that may fail: "open", "join", "retire", "erase"

VARIABLES
    access,       \* members of the workspace and of its organization
    deleted,      \* accounts that were erased
    open,         \* the binding is not revoked
    epoch,        \* the binding's epoch
    member,       \* matrix_room_members.state
    pending,      \* matrix_room_members.native_pending
    departures,   \* matrix_erasure_departures
    native,       \* the homeserver's state of each person
    late,         \* requests the homeserver has still to carry out
    pushed,       \* people the homeserver has an event to push about
    answer        \* a delivery accepted and not yet answered

VARIABLE lost     \* history: people whom a transaction that failed, or two late requests that
                  \* met, may have brought in without a row, until they have one again

audienceVars ==
    <<access, deleted, open, epoch, member, pending, departures, native, late, pushed, answer, lost>>

Epochs == 1..MaxEpoch
Joined == {p \in People : member[p] = "joined"}
InRoom == {p \in People : native[p] = "join"}
Retiring == {p \in pending : member[p] \in {"left", "removed"}}
Noted == Joined \cup pending \cup departures   \* who a row says is in the room, or has to leave it

\* What is assumed of the constants.
AudienceConstants ==
    /\ MaxEpoch \in Nat \ {0} /\ MaxLate \in Nat
    /\ NoAnswer \notin [epoch : Epochs, members : SUBSET People]

AudienceTypeOK ==
    /\ access \subseteq People /\ deleted \subseteq People
    /\ open \in BOOLEAN /\ epoch \in Epochs
    /\ member \in [People -> {"none", "joined", "left", "removed"}]
    /\ pending \subseteq {p \in People : member[p] # "none"}
    /\ departures \subseteq deleted
    /\ native \in [People -> {"never", "invite", "join", "leave", "ban"}]
    /\ late \subseteq {"invite", "join", "leave"} \X People
    /\ pushed \subseteq People /\ lost \subseteq People
    /\ answer \in [epoch : Epochs, members : SUBSET People] \cup {NoAnswer}

AudienceInit ==
    /\ access = People /\ deleted = {} /\ open = TRUE /\ epoch = 1
    /\ member = [p \in People |-> "none"] /\ pending = {} /\ departures = {}
    /\ native = [p \in People |-> "never"] /\ late = {} /\ pushed = {}
    /\ answer = NoAnswer /\ lost = {}

(***************************************************************************)
(* The homeserver                                                           *)
(***************************************************************************)

\* What a request makes of a person's state: an invitation is needed to join,
\* whoever is banned stays so, and leaving or being kicked ends an invitation.
Effect(request, s) ==
    CASE request = "invite" /\ s \in {"never", "leave"} -> "invite"
      [] request = "join" /\ s = "invite" -> "join"
      [] request = "leave" /\ s \in {"invite", "join"} -> "leave"
      [] OTHER -> s

NativeIs(p, s) ==
    /\ native' = [native EXCEPT ![p] = s]
    /\ pushed' = IF s = native[p] THEN pushed ELSE pushed \cup {p}

\* Invited, joined and read again; whoever is there already is left alone.
Joins(p) == native[p] # "ban" /\ NativeIs(p, "join") /\ late' = late

\* The transaction fails: it had joined the person, or its caller gave up on one
\* of its requests, which the homeserver carries out later.
JoinIsLost(p) == Joins(p)
JoinIsLate(p, request) ==
    /\ native[p] \notin {"join", "ban"} /\ Cardinality(late) < MaxLate
    /\ NativeIs(p, IF request = "join" THEN "invite" ELSE native[p])
    /\ late' = late \cup {<<request, p>>}
JoinFails(p) == JoinIsLost(p) \/ \E request \in {"invite", "join"} : JoinIsLate(p, request)

\* Mutant of Departs: the kick was sent, nobody reads what it did.
DepartsUnread(p) ==
    /\ UNCHANGED <<native, pushed>>
    /\ late' = IF native[p] \in {"invite", "join"} THEN late \cup {<<"leave", p>>} ELSE late
Departs(p) == NativeIs(p, Effect("leave", native[p])) /\ late' = late
DepartureFails(p) ==
    \/ Departs(p)
    \/ /\ native[p] \in {"invite", "join"} /\ Cardinality(late) < MaxLate
       /\ late' = late \cup {<<"leave", p>>} /\ UNCHANGED <<native, pushed>>

\* A late invitation may meet a late request to join, whatever was confirmed meanwhile.
CarriesOut ==
    /\ \E l \in late :
         /\ NativeIs(l[2], Effect(l[1], native[l[2]]))
         /\ late' = late \ {l}
         /\ lost' = IF l[1] = "invite" /\ <<"join", l[2]>> \in late
                    THEN lost \cup ({l[2]} \ Noted) ELSE lost
    /\ UNCHANGED <<access, deleted, open, epoch, member, pending, departures, answer>>

Forgets ==
    /\ \E l \in late : late' = late \ {l}
    /\ UNCHANGED
         <<access, deleted, open, epoch, member, pending, departures, native, pushed, answer, lost>>

\* An administrator of the homeserver.
Bans(p) ==
    /\ native[p] = "join" /\ NativeIs(p, "ban")
    /\ UNCHANGED <<access, deleted, open, epoch, member, pending, departures, late, answer, lost>>

(***************************************************************************)
(* Joining                                                                  *)
(***************************************************************************)

Advances == epoch < MaxEpoch /\ epoch' = epoch + 1
RowIs(p, s, owed) ==
    /\ member' = [member EXCEPT ![p] = s]
    /\ pending' = IF owed THEN pending \cup {p} ELSE pending \ {p}
    /\ lost' = lost \ {p}

Enters(p) == RowIs(p, "joined", FALSE) /\ Advances

\* ensureMatrixParticipation: the intent is committed before any request.
OpensRoom(p) ==
    /\ open /\ p \in access /\ member[p] = "none"
    /\ RowIs(p, "joined", TRUE) /\ Advances
    /\ UNCHANGED <<access, deleted, open, departures, native, late, pushed, answer>>

\* completeGroupJoin, of the person or of the schedule.
CompletesJoin(p) ==
    /\ open /\ p \in Joined \cap pending /\ p \in access
    /\ \/ Joins(p) /\ RowIs(p, "joined", FALSE)
       \/ "open" \in Failing /\ JoinFails(p) /\ UNCHANGED <<member, pending, lost>>
    /\ UNCHANGED <<access, deleted, open, epoch, departures, answer>>

\* The row of a person who had none was in the transaction.
JoinIsForgotten(p) == JoinFails(p) /\ lost' = lost \cup ({p} \ Noted)

\* joinMatrixRoom: a first read, search or download joins before the row commits.
JoinsToRead(p) ==
    /\ open /\ p \in access /\ member[p] = "none"
    /\ \/ Joins(p) /\ Enters(p)
       \/ "join" \in Failing /\ JoinIsForgotten(p) /\ UNCHANGED <<epoch, member, pending>>
    /\ UNCHANGED <<access, deleted, open, departures, answer>>

\* changeMatrixGroupMembership, "add".
IsAdded(p) ==
    /\ open /\ p \in access
    /\ \/ /\ Joins(p)
          /\ \/ p \in Joined \ pending /\ UNCHANGED <<epoch, member, pending, lost>>
             \/ p \notin Joined \ pending /\ Enters(p)
       \/ "join" \in Failing /\ JoinIsForgotten(p) /\ UNCHANGED <<epoch, member, pending>>
    /\ UNCHANGED <<access, deleted, open, departures, answer>>

(***************************************************************************)
(* Leaving                                                                  *)
(***************************************************************************)

\* changeMatrixGroupMembership, "leave" and "remove": the row first.
IsDeparted(p, s) ==
    /\ open /\ p \in access
    /\ ~(member[p] = s /\ p \notin pending)
    /\ RowIs(p, s, TRUE) /\ Advances
    /\ UNCHANGED <<access, deleted, open, departures, native, late, pushed, answer>>
Leaves(p) == IsDeparted(p, IF member[p] = "removed" THEN "removed" ELSE "left")
IsRemoved(p) == IsDeparted(p, "removed")

\* Mutant of Admitted: a closed room keeps its members.
AdmittedAnyway(p) == p \in access
Admitted(p) == open /\ p \in access

\* reconcileMatrixRooms, and completeGroupJoin of the schedule, for whoever lost
\* access to the workspace or whose room was closed.
LosesRoom(p) ==
    /\ p \in Joined /\ ~Admitted(p)
    /\ RowIs(p, "removed", TRUE) /\ Advances
    /\ UNCHANGED <<access, deleted, open, departures, native, late, pushed, answer>>

\* retireMatrixGroupMember: the row is settled when the homeserver says so.
RetiresMember(p) ==
    /\ p \in Retiring
    /\ \/ Departs(p) /\ pending' = pending \ {p}
       \/ "retire" \in Failing /\ DepartureFails(p) /\ UNCHANGED pending
    /\ UNCHANGED <<access, deleted, open, epoch, member, departures, answer, lost>>

\* projectGroupMembership: an event says whom to look up, never what to believe.
Projects(p) ==
    /\ p \in pushed /\ pushed' = pushed \ {p}
    /\ \/ /\ open /\ native[p] = "join" /\ p \notin Joined
          /\ pending' = IF member[p] = "none" THEN pending ELSE pending \cup {p}
          /\ Advances /\ UNCHANGED <<member, lost>>
       \/ /\ open /\ native[p] \in {"leave", "ban"} /\ p \in Joined \cup pending
          /\ RowIs(p, IF member[p] = "removed" \/ native[p] = "ban" THEN "removed" ELSE "left", FALSE)
          /\ Advances
       \/ /\ \/ ~open \/ native[p] \in {"never", "invite"}
             \/ native[p] = "join" /\ p \in Joined
             \/ native[p] \in {"leave", "ban"} /\ p \notin Joined \cup pending
          /\ UNCHANGED <<epoch, member, pending, lost>>
    /\ UNCHANGED <<access, deleted, open, departures, native, late, answer>>

\* captureMatrixErasureDepartures and the deletion of the account.  An identity
\* may exist without a row of this room: another room made it.
Erases(p) ==
    /\ p \notin deleted /\ deleted' = deleted \cup {p} /\ access' = access \ {p}
    /\ \/ /\ p \in access \/ member[p] # "none"
          /\ departures' = departures \cup {p} /\ Advances
          /\ RowIs(p, "none", FALSE)
       \/ member[p] = "none" /\ UNCHANGED <<departures, epoch, member, pending, lost>>
    /\ UNCHANGED <<open, native, late, pushed, answer>>

\* retireDeparture: that nothing is known of the person confirms nothing.
RetiresDeparture(p) ==
    /\ p \in departures
    /\ \/ native[p] # "never" /\ Departs(p) /\ departures' = departures \ {p}
       \/ "erase" \in Failing /\ DepartureFails(p) /\ UNCHANGED departures
    /\ UNCHANGED <<access, deleted, open, epoch, member, pending, answer, lost>>

(***************************************************************************)
(* The workspace and the agent                                              *)
(***************************************************************************)

ChangesAccess(p) ==
    /\ \/ p \in access /\ access' = access \ {p}
       \/ p \notin access \cup deleted /\ access' = access \cup {p}
    /\ UNCHANGED
         <<deleted, open, epoch, member, pending, departures, native, late, pushed, answer, lost>>

ClosesMatrixRoom ==
    /\ open /\ open' = FALSE /\ Advances
    /\ UNCHANGED <<access, deleted, member, pending, departures, native, late, pushed, answer, lost>>

\* acceptMatrixTransaction: a member with access mentions Zoen.
Accepts ==
    /\ open /\ answer = NoAnswer /\ Joined \cap access # {}
    /\ answer' = [epoch |-> epoch, members |-> Joined]
    /\ UNCHANGED
         <<access, deleted, open, epoch, member, pending, departures, native, late, pushed, lost>>

\* requireWorkspaceAccess and requireSafeMatrixAudience.
Publishable ==
    /\ open /\ answer # NoAnswer /\ answer.epoch = epoch
    /\ departures = {} /\ pending = {} /\ Joined \subseteq access

Publishes ==
    /\ Publishable /\ answer' = NoAnswer
    /\ UNCHANGED
         <<access, deleted, open, epoch, member, pending, departures, native, late, pushed, lost>>

AudienceNext ==
    \/ \E p \in People :
         \/ Bans(p) \/ OpensRoom(p) \/ CompletesJoin(p) \/ JoinsToRead(p) \/ IsAdded(p)
         \/ Leaves(p) \/ IsRemoved(p) \/ LosesRoom(p) \/ RetiresMember(p) \/ Projects(p)
         \/ Erases(p) \/ RetiresDeparture(p) \/ ChangesAccess(p)
    \/ CarriesOut \/ Forgets \/ ClosesMatrixRoom \/ Accepts \/ Publishes

AudienceSpec == AudienceInit /\ [][AudienceNext]_audienceVars

\* The minute schedule completes, retires and reconciles; the homeserver pushes
\* an event until it is taken.  A request that fails does not fail for ever.
Schedule(p) ==
    \/ LosesRoom(p)
    \/ RetiresMember(p) /\ p \notin pending'
    \/ RetiresDeparture(p) /\ p \notin departures'
Completes(p) == CompletesJoin(p) /\ p \notin pending'

AudienceFairness ==
    \A p \in People : WF_audienceVars(Schedule(p)) /\ WF_audienceVars(Completes(p) \/ Projects(p))

-----------------------------------------------------------------------------
(***************************************************************************)
(* Properties                                                               *)
(***************************************************************************)

\* When an answer may be sent, everybody who receives it is a member of the room
\* with access, and was one when the answer was asked for, but for whom a join that failed
\* has left there without a row, or two late requests have brought back.
RecipientsAreMembers == Publishable => InRoom \ lost \subseteq answer.members \cap access

\* Not kept (README, section 6): when an answer may be sent, everybody who receives
\* it has access to the workspace: "current workspace/org and agent-member rows also fence recipient
\* revocation" (authority.ts).
RecipientsHaveAccess == Publishable => InRoom \subseteq access

\* The epoch names the members: as long as an answer carries the room's epoch,
\* the room has the members it had when the answer was asked for.
EpochNamesMembers == answer # NoAnswer /\ answer.epoch = epoch => answer.members = Joined

\* An erased account is forgotten only once it is out of the room, and no request
\* that comes late brings it back, but for an invitation that meets a join.
ForgottenAreOut == \A p \in deleted \ (departures \cup lost) : native[p] # "join"

\* An answer is sent only while everybody who receives it is a member with access, as they were when
\* it was asked for, but for whom a failed join left there or two late requests brought back; and but
\* for those an erased account is forgotten only once it is out of the room (the run rooms, and
\* AudienceSafe of RoomsProofs for any people and any number of late requests).
AudienceIsSafe == AudienceTypeOK /\ RecipientsAreMembers /\ EpochNamesMembers /\ ForgottenAreOut

Belongs(p) == open /\ member[p] = "joined" /\ p \in access

\* Whoever receives what is sent and is no member with access, because they left,
\* were removed, lost access or were erased or the room was closed, is out of the room in the end, or is a
\* member again; short of the bound on the changes.
StrangersLeave ==
    \A p \in People :
        (native[p] = "join" /\ ~Belongs(p)) ~> (native[p] # "join" \/ Belongs(p) \/ epoch = MaxEpoch)
=============================================================================
