--------------------------- MODULE ChannelResponses ---------------------------
(***************************************************************************)
(* agent/lib/channel-response.ts over server/messaging/input-response.ts:    *)
(* a person approves or cancels, in a message of a channel, what the agent   *)
(* proposed there.  A tool call of the turn of the message asks for the      *)
(* decision; the handler checks it, claims the request, checks it again,     *)
(* hands it to the session and marks the claim.                              *)
(*                                                                         *)
(* Eve and the provider are external: Eve keeps the requests of the session, *)
(* its turns and what was handed to it; the provider delivers the chunks of  *)
(* a proposal.  A turn is named by its message; a wake goes on with the      *)
(* credentials of a message, without a new one.                              *)
(***************************************************************************)
EXTENDS Naturals, FiniteSets, FiniteSetsExt

CONSTANTS
    Requests,  \* approvals that the session asks for
    Chunks,    \* messages of one proposal
    Messages,  \* messages of the person
    Calls,     \* tool calls
    Faults,    \* subset of {"timeout", "lost", "crash", "revoked", "elsewhere"}
    MaxTime,   \* bound on the clock of the provider
    None

VARIABLES
    active,     \* channel_identity without revoked_at
    now,        \* the clock of the provider
    sent,       \* channel_outbox: when each chunk was sent, or None
    request,    \* Eve: the requests
    source,     \* channel_inbox: the messages
    turn,       \* Eve: the turn that runs
    claim,      \* channel_input_response of each request, or None
    call,       \* submitChannelResponse
    flight,     \* calls with a response on its way to Eve
    handed,     \* history: calls that handed over a response
    taken       \* Eve: responses that it took

responseVars == <<active, now, sent, request, source, turn, claim, call, flight, handed, taken>>
nativeVars == <<active, now, sent, request, source, turn, taken>>

Decision == {"approve", "cancel"}
Turn == [of : Messages, wake : BOOLEAN]
Answer == [of : Messages, wake : BOOLEAN, decision : Decision]
Claim == [answer : Answer, status : {"attempted", "accepted", "uncertain"}]
Call == [at : {"idle", "context", "turn", "pending", "claims", "waits", "marks", "marked", "fails", "done"},
         pass : {1, 2}, request : Requests \cup {None}, answer : Answer \cup {None},
         result : {"none", "accepted", "rejected", "uncertain"}]

ResponsesTypeOK ==
    /\ active \in BOOLEAN /\ now \in 0..MaxTime
    /\ sent \in [Requests -> [Chunks -> (0..MaxTime) \cup {None}]]
    /\ request \in [Requests -> {"none", "pending", "approve", "cancel", "other"}]
    /\ source \in [Messages -> [at : (0..MaxTime) \cup {None}, started : BOOLEAN, accepted : BOOLEAN]]
    /\ turn \in Turn \cup {None}
    /\ claim \in [Requests -> Claim \cup {None}]
    /\ call \in [Calls -> Call]
    /\ flight \subseteq handed /\ handed \subseteq Calls /\ taken \subseteq handed

ASSUME NoneAssumption == None \notin Claim \cup Turn
ASSUME TimeAssumption == MaxTime \in Nat

NoCall == [at |-> "idle", pass |-> 1, request |-> None, answer |-> None, result |-> "none"]

ResponsesInit ==
    /\ active = TRUE /\ now = 0
    /\ sent = [r \in Requests |-> [k \in Chunks |-> None]]
    /\ request = [r \in Requests |-> "none"]
    /\ source = [m \in Messages |-> [at |-> None, started |-> FALSE, accepted |-> FALSE]]
    /\ turn = None /\ claim = [r \in Requests |-> None]
    /\ call = [c \in Calls |-> NoCall]
    /\ flight = {} /\ handed = {} /\ taken = {}

(***************************************************************************)
(* The person, the provider and the session                                 *)
(***************************************************************************)

Native == UNCHANGED <<claim, call, flight, handed>>

Tick ==
    /\ now < MaxTime /\ now' = now + 1
    /\ UNCHANGED <<active, sent, request, source, turn, taken>> /\ Native

Asks(r) ==
    /\ request[r] = "none" /\ request' = [request EXCEPT ![r] = "pending"]
    /\ UNCHANGED <<active, now, sent, source, turn, taken>> /\ Native

Delivers(r, k) ==
    /\ request[r] # "none" /\ sent[r][k] = None /\ sent' = [sent EXCEPT ![r][k] = now]
    /\ UNCHANGED <<active, now, request, source, turn, taken>> /\ Native

Says(m) ==
    /\ source[m].at = None /\ source' = [source EXCEPT ![m].at = now]
    /\ UNCHANGED <<active, now, sent, request, turn, taken>> /\ Native

\* The turn of a message starts, before or after its row is accepted.
Starts(m) ==
    /\ turn = None /\ source[m].at # None /\ ~source[m].started
    /\ source' = [source EXCEPT ![m].started = TRUE] /\ turn' = [of |-> m, wake |-> FALSE]
    /\ UNCHANGED <<active, now, sent, request, taken>> /\ Native

Accepts(m) ==
    /\ source[m].started /\ ~source[m].accepted
    /\ source' = [source EXCEPT ![m].accepted = TRUE]
    /\ UNCHANGED <<active, now, sent, request, turn, taken>> /\ Native

Wakes(m) ==
    /\ turn = None /\ source[m].started /\ turn' = [of |-> m, wake |-> TRUE]
    /\ UNCHANGED <<active, now, sent, request, source, taken>> /\ Native

Rests ==
    /\ turn # None /\ turn' = None
    /\ UNCHANGED <<active, now, sent, request, source, taken>> /\ Native

\* Answered on another surface, or withdrawn.
Elsewhere(r) ==
    /\ "elsewhere" \in Faults /\ request[r] = "pending"
    /\ request' = [request EXCEPT ![r] = "other"]
    /\ UNCHANGED <<active, now, sent, source, turn, taken>> /\ Native

Revokes ==
    /\ "revoked" \in Faults /\ active /\ active' = FALSE
    /\ UNCHANGED <<now, sent, request, source, turn, taken>> /\ Native

\* Eve asks authorizeApprovalResponse and settles the request.
Consumes(c) ==
    LET r == call[c].request
    IN /\ c \in taken /\ request[r] = "pending" /\ active
       /\ request' = [request EXCEPT ![r] = call[c].answer.decision]
       /\ UNCHANGED <<active, now, sent, source, turn, taken>> /\ Native

(***************************************************************************)
(* The checks                                                               *)
(***************************************************************************)

Ends(c, result) == call' = [call EXCEPT ![c].at = "done", ![c].result = result]
Fails(c, result) == call' = [call EXCEPT ![c].at = "fails", ![c].result = result]
\* Mutant of Stops: a second check that fails leaves the claim.
StopsUnmarked(c, result) == Ends(c, result)
\* Before the claim there is nothing to mark.
Stops(c, result) == IF call[c].pass = 1 THEN Ends(c, result) ELSE Fails(c, result)
Goes(c, at) == call' = [call EXCEPT ![c].at = at]

\* respond-to-approval: the credentials of the turn name the message.
Begins(c, r, d) ==
    /\ call[c].at = "idle" /\ turn # None /\ active /\ request[r] # "none"
    /\ call' = [call EXCEPT ![c] = [NoCall EXCEPT !.at = "context", !.request = r,
                  !.answer = [of |-> turn.of, wake |-> turn.wake, decision |-> d]]]
    /\ UNCHANGED nativeVars /\ UNCHANGED <<claim, flight, handed>>

\* readChannelResponseContext.
Context(c) ==
    /\ call[c].at = "context"
    /\ IF active /\ source[call[c].answer.of].accepted THEN Goes(c, "turn") ELSE Stops(c, "rejected")
    /\ UNCHANGED nativeVars /\ UNCHANGED <<claim, flight, handed>>

\* requireResponseTurn: the turn that runs received the message.
InTurn(a) == turn = [of |-> a.of, wake |-> FALSE] /\ ~a.wake

ReadsTurn(c) ==
    /\ call[c].at = "turn"
    /\ IF InTurn(call[c].answer) THEN Goes(c, "pending") ELSE Stops(c, "rejected")
    /\ UNCHANGED nativeVars /\ UNCHANGED <<claim, flight, handed>>

\* Mutant of Disclosed: a first chunk is a delivery.
DisclosedPart(r, m) ==
    \E k \in Chunks : sent[r][k] # None /\ sent[r][k] < source[m].at
\* deliveredInput and resolveConsentDelivery: every chunk was sent, and the last
\* one before the message.
Disclosed(r, m) ==
    /\ \A k \in Chunks : sent[r][k] # None
    /\ Max({sent[r][k] : k \in Chunks}) < source[m].at

\* The second time the response is handed to the session at once.
ReadsPending(c) ==
    LET m == call[c]
    IN /\ m.at = "pending"
       /\ IF request[m.request] = "pending" /\ Disclosed(m.request, m.answer.of)
          THEN IF m.pass = 1
               THEN Goes(c, "claims") /\ UNCHANGED <<flight, handed>>
               ELSE Goes(c, "waits") /\ flight' = flight \cup {c} /\ handed' = handed \cup {c}
          ELSE Stops(c, "rejected") /\ UNCHANGED <<flight, handed>>
       /\ UNCHANGED nativeVars /\ UNCHANGED claim

(***************************************************************************)
(* The claim and the response                                               *)
(***************************************************************************)

\* The unique index on session and request.
Acquires(r, a) == claim[r] = None

\* The same message, turn and decision.
Duplicate(r, a) == claim[r].answer = a

Claims(c) ==
    LET r == call[c].request
        a == call[c].answer
    IN /\ call[c].at = "claims"
       /\ IF ~active \/ ~source[a.of].accepted THEN Ends(c, "rejected") /\ UNCHANGED claim
          ELSE IF Acquires(r, a)
          THEN /\ claim' = [claim EXCEPT ![r] = [answer |-> a, status |-> "attempted"]]
               /\ call' = [call EXCEPT ![c].at = "context", ![c].pass = 2]
          ELSE /\ Ends(c, IF ~Duplicate(r, a) THEN "rejected"
                          ELSE IF claim[r].status = "accepted" THEN "accepted" ELSE "uncertain")
               /\ UNCHANGED claim
       /\ UNCHANGED nativeVars /\ UNCHANGED <<flight, handed>>

Uncertain(c) == Fails(c, "uncertain")

\* session.respond: Eve takes it or refuses it, and the answer may be lost.
Takes(c) ==
    /\ c \in flight /\ flight' = flight \ {c} /\ taken' = taken \cup {c}
    /\ IF call[c].at = "waits"
       THEN Goes(c, "marks") \/ ("lost" \in Faults /\ Uncertain(c))
       ELSE UNCHANGED call
    /\ UNCHANGED <<active, now, sent, request, source, turn, claim, handed>>

Refuses(c) ==
    /\ c \in flight /\ "lost" \in Faults /\ flight' = flight \ {c}
    /\ IF call[c].at = "waits" THEN Uncertain(c) ELSE UNCHANGED call
    /\ UNCHANGED nativeVars /\ UNCHANGED <<claim, handed>>

Marked(r, status) ==
    claim' = IF claim[r].status = "attempted" THEN [claim EXCEPT ![r].status = status] ELSE claim

MarksAccepted(c) ==
    LET r == call[c].request
    IN /\ call[c].at = "marks" /\ Marked(r, "accepted")
       /\ IF claim[r].status = "attempted" THEN Goes(c, "marked") ELSE Uncertain(c)
       /\ UNCHANGED nativeVars /\ UNCHANGED <<flight, handed>>

Returns(c) ==
    /\ call[c].at = "marked" /\ Ends(c, "accepted")
    /\ UNCHANGED nativeVars /\ UNCHANGED <<claim, flight, handed>>

\* The handler of a failure marks the claim and passes the failure on.
MarksUncertain(c) ==
    /\ call[c].at = "fails" /\ Marked(call[c].request, "uncertain") /\ Ends(c, call[c].result)
    /\ UNCHANGED nativeVars /\ UNCHANGED <<flight, handed>>

\* withTimeout: the caller goes on; what is on its way to Eve stays there.
TimesOut(c) ==
    /\ "timeout" \in Faults
    /\ call[c].at \in {"context", "turn", "pending", "waits", "marks", "marked"}
    /\ IF call[c].pass = 1 THEN Ends(c, "uncertain") ELSE Uncertain(c)
    /\ UNCHANGED nativeVars /\ UNCHANGED <<claim, flight, handed>>

\* The process ends, or the caller gives up and every later query is refused.
Crashes(c) ==
    /\ "crash" \in Faults /\ call[c].at \notin {"idle", "done"} /\ Ends(c, "uncertain")
    /\ UNCHANGED nativeVars /\ UNCHANGED <<claim, flight, handed>>

Handles(c) ==
    \/ Context(c) \/ ReadsTurn(c) \/ ReadsPending(c) \/ Claims(c)
    \/ MarksAccepted(c) \/ Returns(c) \/ MarksUncertain(c)

World ==
    \/ Tick \/ Rests \/ Revokes
    \/ \E r \in Requests : Asks(r) \/ Elsewhere(r) \/ \E k \in Chunks : Delivers(r, k)
    \/ \E m \in Messages : Says(m) \/ Starts(m) \/ Accepts(m) \/ Wakes(m)

ResponsesNext ==
    \/ World
    \/ \E c \in Calls :
         \/ Handles(c) \/ Consumes(c) \/ Takes(c) \/ Refuses(c) \/ TimesOut(c) \/ Crashes(c)
         \/ \E r \in Requests, d \in Decision : Begins(c, r, d)

ResponsesSpec == ResponsesInit /\ [][ResponsesNext]_responseVars

\* A handler goes on, and its timer fires.
ResponsesFairness ==
    \A c \in Calls : WF_responseVars(Handles(c)) /\ WF_responseVars(TimesOut(c))

(***************************************************************************)
(* Properties                                                               *)
(***************************************************************************)

\* A request gets one response from the channel, whoever calls at the same time
\* or again, and it is settled as its claim says (channel_input_response).
DecidedOnce ==
    \A r \in Requests :
        /\ Cardinality({c \in handed : call[c].request = r}) <= 1
        /\ request[r] \in Decision => claim[r] # None /\ claim[r].answer.decision = request[r]

\* A call that was told "rejected" handed nothing over, and never will: the
\* agent may propose again (respond-to-approval).
RejectedHadNoEffect == \A c \in Calls : call[c].result = "rejected" => c \notin handed

\* A claim that is accepted, and a call that was told so, stand for a response
\* of the same message and decision that Eve took.
AcceptedIsTrue ==
    /\ \A c \in Calls : call[c].at = "done" /\ call[c].result = "accepted" =>
         \E t \in taken : call[t].request = call[c].request /\ call[t].answer = call[c].answer
    /\ \A r \in Requests : claim[r] # None =>
         (claim[r].status = "accepted" =>
            \E t \in taken : call[t].request = r /\ call[t].answer = claim[r].answer)

\* What is handed over was decided by the turn of a message that the person
\* sent after the whole proposal had arrived (validateChannelConsent).
DisclosedBeforeDecided ==
    \A c \in handed :
        LET a == call[c].answer
        IN /\ ~a.wake /\ source[a.of].accepted
           /\ \A k \in Chunks : /\ sent[call[c].request][k] # None
                                /\ sent[call[c].request][k] < source[a.of].at

\* A request gets one response, to a message that came after the whole request; one that is
\* called rejected did not reach it, and one that is called accepted was taken.
ResponsesAreSafe ==
    /\ ResponsesTypeOK /\ DecidedOnce /\ RejectedHadNoEffect
    /\ AcceptedIsTrue /\ DisclosedBeforeDecided

\* Every call is answered, and no claim stays attempted, though Eve never
\* answers.
ClaimsSettle ==
    /\ \A c \in Calls : (call[c].at # "idle") ~> (call[c].at = "done")
    /\ \A r \in Requests :
         (claim[r] # None) ~> (claim[r] # None /\ claim[r].status \in {"accepted", "uncertain"})
=============================================================================
