--------------------------- MODULE ChannelAccounts ---------------------------
(***************************************************************************)
(* server/accounts/index.ts, device.ts and controls.ts, and                 *)
(* server/channel-auth: signing in with a messenger, linking one to an       *)
(* account, and revoking it.  A browser holds a challenge, the owner of the  *)
(* messenger confirms it, and the browser that asked consumes it; the        *)
(* question itself goes through a small queue of prompts that the webhook    *)
(* and the tick drain at the same time.                                      *)
(*                                                                         *)
(* Every operation runs under the advisory lock (724193, 1), so that it is   *)
(* one action.  What is not under it is modelled apart: the request to the   *)
(* provider between two operations of a dispatcher, and the session of a     *)
(* sign-in, which is created after its challenge was consumed.               *)
(***************************************************************************)
EXTENDS Naturals, FiniteSets

CONSTANTS
    Users, Senders,
    Sessions,    \* ids of browser sessions
    Challenges,  \* ids of challenges; each is issued at most once
    Kinds,       \* what is issued: "login", "link", "native_login", "native_link"
    Dispatchers, \* runs of dispatchAuthPrompt, of a webhook or of the tick
    Faults,      \* subset of {"rejected", "timeout", "crash", "key"}
    Linked,      \* who owns each sender at the start, or None
    None

VARIABLES
    identity,    \* channel_identity: [user, active] of a sender, or None
    contact,     \* channel_pending_sender: a stranger that wrote
    session,     \* public.session: [user, age, by], or None
    challenge,   \* channel_auth_challenge
    completing,  \* the sender a consumed login is about to open a session for
    prompt,      \* channel_auth_prompt
    work,        \* the dispatchers
    asked,       \* history: requests of a challenge that reached the provider
    shown        \* history: challenges whose prompt the provider accepted

accountVars == <<identity, contact, session, challenge, completing>>
channelVars == <<identity, contact, session, challenge, completing, prompt, work, asked, shown>>

Identity == [user : Users, active : BOOLEAN]
Session == [user : Users, age : {"fresh", "old", "expired"}, by : Challenges \cup {None}]
Challenge ==
    [kind : {"login", "link", "native_login", "native_link"},
     stage : {"unissued", "open", "confirmed", "consumed", "deleted"},
     live : BOOLEAN,                   \* neither expired nor cancelled
     user : Users \cup {None},         \* target_user_id
     session : Sessions \cup {None},   \* requesting_session_id
     sender : Senders \cup {None},     \* confirmed_sender_id
     intended : Senders \cup {None},   \* intended_identity_id
     bound : BOOLEAN]                  \* a browser holds its secret
PromptStatus == {"none", "queued", "dispatching", "sent", "uncertain", "failed", "cancelled"}
Prompt == [status : PromptStatus, sender : Senders \cup {None},
           lease : Dispatchers \cup {None}, lapsed : BOOLEAN]
Work == [at : {"idle", "claimed", "checked", "answered"},
         challenge : Challenges \cup {None}, answer : {"none", "sent", "uncertain", "failed"}]

\* The types, and the foreign key of requesting_session_id.
AccountsTypeOK ==
    /\ identity \in [Senders -> Identity \cup {None}]
    /\ contact \in [Senders -> {"none", "told", "due"}]
    /\ session \in [Sessions -> Session \cup {None}]
    /\ challenge \in [Challenges -> Challenge]
    /\ completing \in [Challenges -> Senders \cup {None}]
    /\ prompt \in [Challenges -> Prompt]
    /\ work \in [Dispatchers -> Work]
    /\ asked \in [Challenges -> Nat] /\ shown \subseteq Challenges
    /\ \A c \in Challenges : challenge[c].session # None => session[challenge[c].session] # None

Unissued == [kind |-> "login", stage |-> "unissued", live |-> TRUE, user |-> None,
             session |-> None, sender |-> None, intended |-> None, bound |-> FALSE]
NoPrompt == [status |-> "none", sender |-> None, lease |-> None, lapsed |-> FALSE]
Idle == [at |-> "idle", challenge |-> None, answer |-> "none"]

AccountsInit ==
    /\ identity = [s \in Senders |->
                     IF Linked[s] = None THEN None ELSE [user |-> Linked[s], active |-> TRUE]]
    /\ contact = [s \in Senders |-> "none"]
    /\ session = [x \in Sessions |-> None]
    /\ challenge = [c \in Challenges |-> Unissued]
    /\ completing = [c \in Challenges |-> None]
    /\ prompt = [c \in Challenges |-> NoPrompt]
    /\ work = [d \in Dispatchers |-> Idle]
    /\ asked = [c \in Challenges |-> 0] /\ shown = {}

Known(s) == identity[s] # None
Active(s) == identity[s] # None /\ identity[s].active
IsLink(c) == challenge[c].kind \in {"link", "native_link"}
Native(c) == challenge[c].intended # None

\* requireSession, with and without requireFresh.
Valid(x) == x # None /\ session[x] # None /\ session[x].age # "expired"
Fresh(x) == x # None /\ session[x] # None /\ session[x].age = "fresh"

\* Deleting sessions deletes, by cascade, the challenges they requested and
\* the prompts of those.
Requested(gone) == {c \in Challenges : challenge[c].session \in gone}
WithoutChallenges(gone, ch) ==
    [c \in Challenges |->
       IF c \in gone THEN [ch[c] EXCEPT !.stage = "deleted", !.session = None] ELSE ch[c]]
WithoutPrompts(gone) == [c \in Challenges |-> IF c \in gone THEN NoPrompt ELSE prompt[c]]

(***************************************************************************)
(* Browsers: their sessions, and the challenges they ask for                *)
(***************************************************************************)

Opens(x, u, c) ==
    /\ session[x] = None
    /\ session' = [session EXCEPT ![x] = [user |-> u, age |-> "fresh", by |-> c]]

\* A Google sign-in.
SignsIn(x, u) ==
    /\ Opens(x, u, None)
    /\ UNCHANGED <<identity, contact, challenge, completing, prompt, work, asked, shown>>

\* Ten minutes, then the end of the session.
Ages(x) ==
    /\ Valid(x)
    /\ session' = [session EXCEPT ![x].age = IF @ = "fresh" THEN "old" ELSE "expired"]
    /\ UNCHANGED <<identity, contact, challenge, completing, prompt, work, asked, shown>>

SignsOut(x) ==
    /\ session[x] # None
    /\ session' = [session EXCEPT ![x] = None]
    /\ challenge' = WithoutChallenges(Requested({x}), challenge)
    /\ prompt' = WithoutPrompts(Requested({x}))
    /\ UNCHANGED <<identity, contact, completing, work, asked, shown>>

Issued(c, new) ==
    /\ challenge[c].stage = "unissued" /\ new.kind \in Kinds
    /\ challenge' = [challenge EXCEPT ![c] = new]
    /\ UNCHANGED <<identity, contact, session, completing, prompt, work, asked, shown>>

IssuesLogin(c) ==
    Issued(c, [Unissued EXCEPT !.kind = "login", !.stage = "open", !.bound = TRUE])

IssuesLink(c, x) ==
    /\ Fresh(x)
    /\ Issued(c, [Unissued EXCEPT !.kind = "link", !.stage = "open", !.bound = TRUE,
                                  !.user = session[x].user, !.session = x])

\* NativeDeviceAuth.issue: the agent of a linked messenger makes the challenge.
IssuesNative(c, s, kind) ==
    /\ Active(s)
    /\ Issued(c, [Unissued EXCEPT !.kind = kind, !.stage = "open", !.intended = s])

\* NativeDeviceAuth.bind: the first browser that opens it.
Binds(c, x) ==
    LET s == challenge[c].intended
    IN /\ challenge[c].stage = "open" /\ challenge[c].live
       /\ Native(c) /\ ~challenge[c].bound /\ Active(s)
       /\ IF IsLink(c) THEN Fresh(x) /\ session[x].user = identity[s].user ELSE x = None
       /\ challenge' = [challenge EXCEPT ![c].bound = TRUE, ![c].session = x,
                          ![c].user = IF x = None THEN None ELSE session[x].user]
       /\ UNCHANGED <<identity, contact, session, completing, prompt, work, asked, shown>>

\* Five minutes.
Expires(c) ==
    /\ challenge[c].stage \in {"open", "confirmed"} /\ challenge[c].live
    /\ challenge' = [challenge EXCEPT ![c].live = FALSE]
    /\ UNCHANGED <<identity, contact, session, completing, prompt, work, asked, shown>>

(***************************************************************************)
(* The messenger                                                            *)
(***************************************************************************)

\* recordUnlinkedContact: a stranger is told to sign in once a day.
Contacts(s) ==
    /\ ~Known(s) /\ contact' = [contact EXCEPT ![s] = "told"]
    /\ UNCHANGED <<identity, session, challenge, completing, prompt, work, asked, shown>>
DayPasses(s) ==
    /\ contact[s] = "told" /\ contact' = [contact EXCEPT ![s] = "due"]
    /\ UNCHANGED <<identity, session, challenge, completing, prompt, work, asked, shown>>

\* previewChallenge.
Previews(c, s) ==
    /\ challenge[c].stage = "open" /\ challenge[c].live /\ ~Native(c)
    /\ Known(s) => identity[s].active
    /\ ~IsLink(c) => Known(s)
    /\ IsLink(c) => /\ Fresh(challenge[c].session)
                    /\ Known(s) => identity[s].user = challenge[c].user

MayConfirm(c, s) ==
    /\ prompt[c].status # "none" => prompt[c].sender = s
    /\ IsLink(c) => Valid(challenge[c].session)
    /\ Known(s) => identity[s].active
    /\ Known(s) /\ IsLink(c) => identity[s].user = challenge[c].user
    /\ ~IsLink(c) => Known(s)

\* confirmChallenge; a repetition by the same sender changes nothing.
Confirms(c, s) ==
    /\ challenge[c].stage = "open" /\ challenge[c].live /\ ~Native(c) /\ MayConfirm(c, s)
    /\ challenge' = [challenge EXCEPT ![c].stage = "confirmed", ![c].sender = s]
    /\ UNCHANGED <<identity, contact, session, completing, prompt, work, asked, shown>>

\* NativeDeviceAuth.confirm, by the session of the agent that issued it.
ConfirmsNative(c) ==
    LET s == challenge[c].intended
    IN /\ challenge[c].stage = "open" /\ challenge[c].live
       /\ Native(c) /\ challenge[c].bound /\ Active(s)
       /\ IsLink(c) => challenge[c].user = identity[s].user /\ Fresh(challenge[c].session)
       /\ challenge' = [challenge EXCEPT ![c].stage = "confirmed", ![c].sender = s]
       /\ UNCHANGED <<identity, contact, session, completing, prompt, work, asked, shown>>

(***************************************************************************)
(* The browser again: consumeChallenge, then withLoginSession               *)
(***************************************************************************)

Consumable(c) == challenge[c].stage = "confirmed" /\ challenge[c].live

Logs(c) ==
    /\ ~IsLink(c) /\ Consumable(c) /\ Active(challenge[c].sender)
    /\ completing' = [completing EXCEPT ![c] = challenge[c].sender]
    /\ challenge' = [challenge EXCEPT ![c].stage = "consumed"]
    /\ UNCHANGED <<identity, contact, session, prompt, work, asked, shown>>

Linkable(s, u) == Known(s) => identity[s].active /\ identity[s].user = u

Acquainted(s) == [contact EXCEPT ![s] = "none"]

Links(c) ==
    LET s == challenge[c].sender
        u == challenge[c].user
    IN /\ IsLink(c) /\ Consumable(c) /\ Fresh(challenge[c].session) /\ Linkable(s, u)
       /\ identity' = [identity EXCEPT ![s] = [user |-> u, active |-> TRUE]]
       /\ contact' = IF Known(s) THEN contact ELSE Acquainted(s)
       /\ challenge' = [challenge EXCEPT ![c].stage = "consumed"]
       /\ UNCHANGED <<session, completing, prompt, work, asked, shown>>

MayComplete(s) == Active(s)

Completes(c, x) ==
    /\ completing[c] # None /\ MayComplete(completing[c])
    /\ Opens(x, identity[completing[c]].user, c)
    /\ completing' = [completing EXCEPT ![c] = None]
    /\ UNCHANGED <<identity, contact, challenge, prompt, work, asked, shown>>

\* The identity was revoked meanwhile, or the request ended in between.
Abandons(c) ==
    /\ completing[c] # None /\ completing' = [completing EXCEPT ![c] = None]
    /\ UNCHANGED <<identity, contact, session, challenge, prompt, work, asked, shown>>

(***************************************************************************)
(* revokeLinkedChannelIdentity                                              *)
(***************************************************************************)

HasOther(u, s) == \E r \in Senders \ {s} : Active(r) /\ identity[r].user = u

SessionsOf(u) == {x \in Sessions : session[x] # None /\ session[x].user = u}
Cancelled(u, s) ==
    {c \in Challenges : /\ challenge[c].stage \in {"open", "confirmed"}
                        /\ \/ challenge[c].intended = s \/ challenge[c].user = u
                           \/ challenge[c].session \in SessionsOf(u)
                           \/ challenge[c].sender = s}

Revokes(x, s) ==
    LET u == session[x].user
    IN /\ Valid(x) /\ Active(s) /\ identity[s].user = u /\ HasOther(u, s)
       /\ identity' = [identity EXCEPT ![s].active = FALSE]
       /\ session' = [y \in Sessions |-> IF y \in SessionsOf(u) THEN None ELSE session[y]]
       /\ challenge' = WithoutChallenges(Requested(SessionsOf(u)),
                         [c \in Challenges |-> [challenge[c] EXCEPT
                            !.live = @ /\ c \notin Cancelled(u, s)]])
       /\ prompt' = WithoutPrompts(Requested(SessionsOf(u)))
       /\ UNCHANGED <<contact, completing, work, asked, shown>>

(***************************************************************************)
(* Prompts: the question on its way to the messenger                        *)
(***************************************************************************)

Inactive(c) == ~challenge[c].live \/ challenge[c].stage \in {"confirmed", "consumed"}
Ends(p, status) == [p EXCEPT !.status = status, !.lease = None, !.lapsed = FALSE]

\* Mutant of Retired: an inactive challenge ends its prompt wherever it is.
RetiredOnItsWay ==
    [c \in Challenges |->
       IF prompt[c].status \in {"queued", "dispatching"} /\ Inactive(c)
         THEN Ends(prompt[c], "cancelled")
       ELSE IF prompt[c].status = "dispatching" /\ prompt[c].lapsed
         THEN Ends(prompt[c], "uncertain")
       ELSE prompt[c]]
\* retire, with which each operation on prompts starts.
Retired ==
    [c \in Challenges |->
       IF prompt[c].status = "dispatching" /\ prompt[c].lapsed THEN Ends(prompt[c], "uncertain")
       ELSE IF prompt[c].status = "queued" /\ Inactive(c) THEN Ends(prompt[c], "cancelled")
       ELSE prompt[c]]

\* A start command of the webhook, or its repetition.
Prepares(c, s) ==
    /\ \/ /\ Retired[c].status = "none" /\ Previews(c, s)
          /\ prompt' = [Retired EXCEPT ![c] = [NoPrompt EXCEPT !.status = "queued", !.sender = s]]
       \/ /\ Retired[c].status = "queued" /\ Retired[c].sender = s /\ ~Previews(c, s)
          /\ prompt' = [Retired EXCEPT ![c] = Ends(@, "cancelled")]
    /\ UNCHANGED <<accountVars, work, asked, shown>>

\* The tick lists what is queued.
Tick ==
    /\ Retired # prompt /\ prompt' = Retired
    /\ UNCHANGED <<accountVars, work, asked, shown>>

\* The webhook that prepared it, or the tick: claim.
Claims(d, c) ==
    /\ work[d].at = "idle" /\ Retired[c].status = "queued"
    /\ \/ /\ "key" \in Faults
          /\ prompt' = [Retired EXCEPT ![c] = Ends(@, "failed")] /\ UNCHANGED work
       \/ /\ ~Previews(c, Retired[c].sender)
          /\ prompt' = [Retired EXCEPT ![c] = Ends(@, "cancelled")] /\ UNCHANGED work
       \/ /\ Previews(c, Retired[c].sender)
          /\ prompt' = [Retired EXCEPT ![c].status = "dispatching", ![c].lease = d]
          /\ work' = [work EXCEPT ![d] = [at |-> "claimed", challenge |-> c, answer |-> "none"]]
    /\ UNCHANGED <<accountVars, asked, shown>>

HasLease(d, p) == p.status = "dispatching" /\ p.lease = d /\ ~p.lapsed

Checks(d) ==
    LET c == work[d].challenge
    IN /\ work[d].at = "claimed"
       /\ prompt' = Retired
       /\ work' = [work EXCEPT ![d] =
                     IF HasLease(d, Retired[c]) /\ Previews(c, Retired[c].sender)
                     THEN [@ EXCEPT !.at = "checked"] ELSE Idle]
       /\ UNCHANGED <<accountVars, asked, shown>>

\* The installation that the prompt names is no longer the configured one.
Misdirected(d) ==
    /\ "rejected" \in Faults /\ work[d].at = "claimed"
    /\ work' = [work EXCEPT ![d].at = "answered", ![d].answer = "failed"]
    /\ UNCHANGED <<accountVars, prompt, asked, shown>>

\* sendLoginConfirmation, outside any transaction.
Asks(d) ==
    LET c == work[d].challenge
    IN /\ work[d].at = "checked"
       /\ asked' = [asked EXCEPT ![c] = @ + 1]
       /\ \E answer \in {"sent", "uncertain", "failed"} :
            /\ answer = "failed" => "rejected" \in Faults
            /\ answer = "uncertain" => "timeout" \in Faults
            /\ work' = [work EXCEPT ![d].at = "answered", ![d].answer = answer]
            /\ \/ answer # "failed" /\ shown' = shown \cup {c}
               \/ answer # "sent" /\ UNCHANGED shown
       /\ UNCHANGED <<accountVars, prompt>>

\* markSent, markUncertain and markRejected.
Settles(d) ==
    LET c == work[d].challenge
    IN /\ work[d].at = "answered"
       /\ prompt' = IF HasLease(d, Retired[c])
                    THEN [Retired EXCEPT ![c] = Ends(@, work[d].answer)] ELSE Retired
       /\ work' = [work EXCEPT ![d] = Idle]
       /\ UNCHANGED <<accountVars, asked, shown>>

\* Thirty seconds.
Lapses(c) ==
    /\ prompt[c].status = "dispatching" /\ ~prompt[c].lapsed
    /\ prompt' = [prompt EXCEPT ![c].lapsed = TRUE]
    /\ UNCHANGED <<accountVars, work, asked, shown>>

Crashes(d) ==
    /\ "crash" \in Faults /\ work[d].at # "idle"
    /\ work' = [work EXCEPT ![d] = Idle]
    /\ UNCHANGED <<accountVars, prompt, asked, shown>>

Dispatches(d) ==
    \/ \E c \in Challenges : Claims(d, c)
    \/ Checks(d) \/ Misdirected(d) \/ Asks(d) \/ Settles(d)

AccountsNext ==
    \/ \E x \in Sessions, u \in Users : SignsIn(x, u)
    \/ \E x \in Sessions : Ages(x) \/ SignsOut(x)
    \/ \E c \in Challenges : IssuesLogin(c) \/ Expires(c)
    \/ \E c \in Challenges, x \in Sessions : IssuesLink(c, x)
    \/ \E c \in Challenges, s \in Senders, kind \in {"native_login", "native_link"} :
         IssuesNative(c, s, kind)
    \/ \E c \in Challenges, x \in Sessions \cup {None} : Binds(c, x)
    \/ \E s \in Senders : Contacts(s) \/ DayPasses(s)
    \/ \E c \in Challenges, s \in Senders : Confirms(c, s)
    \/ \E c \in Challenges : ConfirmsNative(c) \/ Logs(c) \/ Links(c) \/ Abandons(c)
    \/ \E c \in Challenges, x \in Sessions : Completes(c, x)
    \/ \E x \in Sessions, s \in Senders : Revokes(x, s)
    \/ \E c \in Challenges, s \in Senders : Dispatchers # {} /\ Prepares(c, s)
    \/ Tick
    \/ \E d \in Dispatchers : Dispatches(d) \/ Crashes(d)
    \/ \E c \in Challenges : Lapses(c)

AccountsSpec == AccountsInit /\ [][AccountsNext]_channelVars

\* Time passes, the minute schedule drains the prompts, and a dispatcher that
\* started goes on.
AccountsFairness ==
    /\ WF_channelVars(Tick)
    /\ WF_channelVars(\E d \in Dispatchers : Dispatches(d))
    /\ WF_channelVars(\E c \in Challenges : Lapses(c))

(***************************************************************************)
(* Properties                                                               *)
(***************************************************************************)

\* A browser that is signed in through a messenger is signed in as the user
\* that the messenger is linked to, and the link has not been revoked: neither
\* before the session was created, in the gap after its challenge was consumed
\* (withLoginSession), nor since (revokeIdentity deletes the sessions).
SignInsAreThroughLinks ==
    \A x \in Sessions : session[x] # None /\ session[x].by # None =>
      LET s == challenge[session[x].by].sender
      IN Active(s) /\ identity[s].user = session[x].user

\* The sender whom the prompt of a challenge asks is the one who confirms it,
\* in whatever order start and confirm commands of several senders arrive.
OneSenderPerChallenge ==
    \A c \in Challenges : prompt[c].status # "none" /\ challenge[c].sender # None =>
      prompt[c].sender = challenge[c].sender

\* A challenge is used once: two tabs that complete it at the same time never
\* hold two sessions (consumeChallenge).
OneSessionPerChallenge ==
    \A x, y \in Sessions :
      session[x] # None /\ session[y] # None /\ session[x].by # None
        /\ session[x].by = session[y].by => x = y

\* Whoever linked a messenger keeps one that works, whatever is revoked by
\* several browsers (revokeIdentity).
AnAccessRemains ==
    \A u \in Users : (\E s \in Senders : Known(s) /\ identity[s].user = u) =>
      \E s \in Senders : Active(s) /\ identity[s].user = u

\* No linked messenger is remembered as a stranger that must be told to sign
\* in (recordUnlinkedContact against linkIdentity).
StrangersAreUnlinked == \A s \in Senders : contact[s] # "none" => ~Known(s)

\* A messenger never moves to another account and a revoked link never comes
\* back, even if two accounts had it confirm challenges before either is
\* consumed (linkIdentity).
OwnersAreKept ==
    \A s \in Senders : Known(s) =>
        /\ Known(s)' /\ identity'[s].user = identity[s].user
        /\ identity'[s].active => identity[s].active

\* A challenge is put to its sender at most once, by the webhook or by the
\* tick, whatever dispatcher is slow or dies (claim and retire).
AskedOnce == \A c \in Challenges : asked[c] <= 1

\* What the queue says of a prompt is what happened: sent was shown, and what
\* is queued, failed or cancelled was not, also when the challenge ends while
\* the provider is being asked (retire, settle).
PromptReceiptsAreTrue ==
    \A c \in Challenges :
      /\ prompt[c].status = "sent" => c \in shown
      /\ prompt[c].status \in {"queued", "failed", "cancelled"} => c \notin shown

\* A queued prompt reaches its last status, or goes with its challenge.
PromptsSettle ==
    \A c \in Challenges :
      prompt[c].status = "queued" ~> prompt[c].status \notin {"queued", "dispatching"}
=============================================================================
