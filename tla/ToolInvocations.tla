---------------------------- MODULE ToolInvocations ----------------------------
(***************************************************************************)
(* server/connectors/invocation.ts over the invocations journal and          *)
(* server/connectors/connections.ts: calls of remote tools through one        *)
(* connection, each with the key of its native call, while they wait for a    *)
(* slot of the process, time out, and the connection is revoked.             *)
(*                                                                         *)
(* The revision of a connection changes only when it is revoked, so the two  *)
(* are one switch.  The remote service is external.                          *)
(***************************************************************************)
EXTENDS Naturals, FiniteSets

CONSTANTS
    Calls,          \* executions of invokeRemoteTool
    Keys,
    Key,            \* [Calls -> Keys]: the session and call of Eve
    Request,        \* [Calls -> requests]: the hash of user, operation and input
    MaxRunning,     \* remote requests of the process at a time
    Deadline,       \* the budget of withTimeout, in units of time
    MaxTime,        \* bound on the time a call is followed
    Faults,         \* subset of {"timeout", "service", "crash"}
    None

ASSUME KeysAssumption == Key \in [Calls -> Keys]
ASSUME TimesAssumption == Deadline \in Nat /\ MaxTime \in Nat

VARIABLES
    invocation,     \* tool_invocations by key
    revoked,        \* the connection is revoked
    call,           \* what each execution does
    told,           \* what the caller of each execution was told
    sent,           \* executions whose request left for the service (history)
    done            \* the service did what a key asked (history)

toolVars == <<invocation, revoked, call, told, sent, done>>

Requests == {Request[c] : c \in Calls}
Invocation == [status : {"started", "completed", "uncertain"}, request : Requests,
               result : BOOLEAN]
Places == {"new", "queued", "permits", "claims", "replays", "checks", "sends", "completes",
           "marks", "ended"}
Call == [at : Places, spent : 0..Deadline, age : 0..MaxTime]
Answers == {"result", "changed", "uncertain", "denied", "timeout"}

ASSUME NoneAssumption == None \notin Invocation \cup Answers

ToolTypeOK ==
    /\ invocation \in [Keys -> Invocation \cup {None}]
    /\ revoked \in BOOLEAN
    /\ call \in [Calls -> Call]
    /\ told \in [Calls -> Answers \cup {None}]
    /\ sent \subseteq Calls
    /\ done \in [Keys -> BOOLEAN]

ToolInit ==
    /\ invocation = [k \in Keys |-> None] /\ revoked = FALSE
    /\ call = [c \in Calls |-> [at |-> "new", spent |-> 0, age |-> 0]]
    /\ told = [c \in Calls |-> None]
    /\ sent = {} /\ done = [k \in Keys |-> FALSE]

At(c, place) == call[c].at = place
Running(c) == call[c].at \notin {"new", "queued", "ended"}
Goes(c, place) == call' = [call EXCEPT ![c].at = place]
Tells(c, answer) == Goes(c, "ended") /\ told' = [told EXCEPT ![c] = answer]

\* remoteRequests: the waiters look again whenever one ends.
Free == Cardinality({c \in Calls : Running(c)}) < MaxRunning

Arrives(c) ==
    /\ At(c, "new") /\ Goes(c, "queued")
    /\ UNCHANGED <<invocation, revoked, told, sent, done>>

\* The budget starts when a slot is taken.
Enters(c) ==
    /\ At(c, "queued") /\ Free /\ Goes(c, "permits")
    /\ UNCHANGED <<invocation, revoked, told, sent, done>>

\* requireRemoteTool and toolConnectionCredentials.
Permits(c) ==
    /\ At(c, "permits")
    /\ IF revoked THEN Tells(c, "denied") ELSE Goes(c, "claims") /\ UNCHANGED told
    /\ UNCHANGED <<invocation, revoked, sent, done>>

Started(c) == [status |-> "started", request |-> Request[c], result |-> FALSE]

ClaimsKey(c) ==
    /\ At(c, "claims") /\ invocation[Key[c]] = None
    /\ invocation' = [invocation EXCEPT ![Key[c]] = Started(c)]
    /\ Goes(c, "checks")
    /\ UNCHANGED <<revoked, told, sent, done>>

\* The key was claimed before: its result, or the reason why there is none.
Finds(c) ==
    LET row == invocation[Key[c]] IN
    /\ At(c, "claims") /\ row # None
    /\ CASE row.request # Request[c] -> Tells(c, "changed")
         [] row.request = Request[c] /\ (row.status # "completed" \/ ~row.result) ->
              Tells(c, "uncertain")
         [] OTHER -> Goes(c, "replays") /\ UNCHANGED told
    /\ UNCHANGED <<invocation, revoked, sent, done>>

Replays(c) ==
    /\ At(c, "replays") /\ Tells(c, IF revoked THEN "denied" ELSE "result")
    /\ UNCHANGED <<invocation, revoked, sent, done>>

\* The second requireRemoteTool; MCP asks for a third after its handshake.
Checks(c) ==
    /\ At(c, "checks") /\ Goes(c, IF revoked THEN "marks" ELSE "sends")
    /\ UNCHANGED <<invocation, revoked, told, sent, done>>

\* invokeMcp or invokeOpenApi: the service acts and answers, or one of both fails.
Sends(c) ==
    /\ At(c, "sends")
    /\ sent' = sent \cup {c}
    /\ \/ Goes(c, "completes") /\ done' = [done EXCEPT ![Key[c]] = TRUE]
       \/ /\ "service" \in Faults /\ Goes(c, "marks")
          /\ done' \in {done, [done EXCEPT ![Key[c]] = TRUE]}
    /\ UNCHANGED <<invocation, revoked, told>>

\* Mutant of Completes: the connection is not asked about again.
CompletesAnyway(c) ==
    /\ At(c, "completes")
    /\ Tells(c, "result")
    /\ invocation' = [invocation EXCEPT ![Key[c]].status = "completed", ![Key[c]].result = TRUE]
    /\ UNCHANGED <<revoked, sent, done>>

\* One transaction asks again, under the lock of the connection, and keeps the result.
Completes(c) ==
    /\ At(c, "completes")
    /\ IF revoked THEN Goes(c, "marks") /\ UNCHANGED <<invocation, told>>
       ELSE /\ Tells(c, "result")
            /\ invocation' = [invocation EXCEPT ![Key[c]].status = "completed",
                                                ![Key[c]].result = TRUE]
    /\ UNCHANGED <<revoked, sent, done>>

Marks(c) ==
    /\ At(c, "marks") /\ Tells(c, "uncertain")
    /\ invocation' = [invocation EXCEPT ![Key[c]].status = "uncertain"]
    /\ UNCHANGED <<revoked, sent, done>>

\* withTimeout: the caller is told at once, and no query runs after the signal, so the
\* invocation stays started.  A request on its way may have arrived.
TimesOut(c) ==
    /\ Running(c) /\ "timeout" \in Faults /\ call[c].spent = Deadline
    /\ Tells(c, "timeout")
    /\ \/ UNCHANGED <<sent, done>>
       \/ /\ At(c, "sends") /\ sent' = sent \cup {c}
          /\ done' \in {done, [done EXCEPT ![Key[c]] = TRUE]}
    /\ UNCHANGED <<invocation, revoked>>

\* revokeToolConnection.
Revokes ==
    /\ ~revoked /\ revoked' = TRUE
    /\ invocation' = [k \in Keys |-> IF invocation[k] = None THEN None
                                     ELSE [invocation[k] EXCEPT !.result = FALSE]]
    /\ UNCHANGED <<call, told, sent, done>>

\* The process ends: nobody is told anything by its calls.
Crashes ==
    /\ "crash" \in Faults /\ \E c \in Calls : Running(c)
    /\ call' = [c \in Calls |-> IF At(c, "new") THEN call[c] ELSE [call[c] EXCEPT !.at = "ended"]]
    /\ UNCHANGED <<invocation, revoked, told, sent, done>>

\* Time passes while no call is past its budget.
Tick ==
    /\ "timeout" \in Faults
    /\ \A c \in Calls : ~At(c, "new") /\ call[c].age < MaxTime
    /\ \A c \in Calls : Running(c) => call[c].spent < Deadline
    /\ call' = [c \in Calls |-> [call[c] EXCEPT
                  !.age = IF At(c, "ended") THEN @ ELSE @ + 1,
                  !.spent = IF Running(c) THEN @ + 1 ELSE @]]
    /\ UNCHANGED <<invocation, revoked, told, sent, done>>

Step(c) ==
    \/ Enters(c) \/ Permits(c) \/ ClaimsKey(c) \/ Finds(c) \/ Replays(c)
    \/ Checks(c) \/ Sends(c) \/ Completes(c) \/ Marks(c)

ToolNext ==
    \/ \E c \in Calls : Arrives(c) \/ Step(c) \/ TimesOut(c)
    \/ Revokes \/ Crashes \/ Tick

ToolSpec == ToolInit /\ [][ToolNext]_toolVars

\* The event loop runs whatever is ready; a request ends at its service or in time.
ToolFairness ==
    \A c \in Calls : WF_toolVars(Step(c))

(***************************************************************************)
(* Properties                                                               *)
(***************************************************************************)

\* The request of a key leaves for the service once, whatever was lost, timed out,
\* crashed or was called again ("an interrupted or uncertain claim never sends again").
SentOnce == \A c, d \in sent : Key[c] = Key[d] => c = d

\* Who is given a result is given that of its own request, and the service did it.
ResultsAreTrue ==
    \A c \in Calls : told[c] = "result" =>
        /\ done[Key[c]] /\ \E d \in sent : Key[d] = Key[c] /\ Request[d] = Request[c]
        /\ invocation[Key[c]].request = Request[c]

\* A revoked connection has no results, also when a call completes at that moment
\* (the lock of the connection in the last transaction).
RevokedHasNoResults ==
    revoked => \A k \in Keys : IF invocation[k] = None THEN TRUE ELSE ~invocation[k].result

\* The request of a key leaves once, whatever was lost or retried, what is told is the
\* result of that request, and none is kept once the connection was revoked.
ToolsAreSafe == ToolTypeOK /\ SentOnce /\ ResultsAreTrue /\ RevokedHasNoResults

\* Every call that arrived ends, waiting for slots included.
CallsEnd == \A c \in Calls : At(c, "queued") ~> At(c, "ended")

\* Not kept (README, section 6): a call that may have reached the service is told that its outcome is uncertain.
UnknownIsUncertain ==
    \A c \in Calls : told[c] = "timeout" => c \notin sent

\* Not kept (README, section 6): a call ends within its budget from its arrival on.
EndsInBudget == \A c \in Calls : call[c].age <= Deadline
=============================================================================
