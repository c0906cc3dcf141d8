----------------------------- MODULE MCChannels -----------------------------
(***************************************************************************)
(* Messengers and the people behind them: ChannelAccounts and               *)
(* ChannelResponses on small instances.  A behaviour is a scene of one      *)
(* component while the other keeps still.                                   *)
(***************************************************************************)
EXTENDS ChannelResponses, TLC

CONSTANTS
    x1, x2,        \* two browser sessions, two dispatchers, two messages
    y1, y2,        \* two challenges, two tool calls
    u1, u2,        \* accounts
    s1, s2, s3,    \* messengers
    z, a1          \* a challenge, a request for approval

VARIABLES
    scene,
    identity, contact, session, challenge, completing, prompt, work, asked, shown

\* An account with two messengers, another one, and a messenger of nobody.
SignIn == INSTANCE ChannelAccounts WITH
    Users <- {u1, u2}, Senders <- {s1, s2, s3}, Sessions <- {x1, x2}, Challenges <- {y1, y2},
    Kinds <- {"login", "link", "native_login", "native_link"}, Dispatchers <- {}, Faults <- {},
    Linked <- s1 :> u1 @@ s2 :> u1 @@ s3 :> None

\* A challenge, two messengers it may be put to, and two dispatchers.
Prompts == INSTANCE ChannelAccounts WITH
    Users <- {u1, u2}, Senders <- {s1, s2}, Sessions <- {x1, x2}, Challenges <- {z},
    Kinds <- {"login", "link"}, Dispatchers <- {x1, x2}, Faults <- {"rejected", "timeout", "crash"},
    Linked <- s1 :> u1 @@ s2 :> u2

\* ChannelResponses: two messages that answer a request in two chunks, and two calls that
\* pass them on.
accountOnly == <<identity, contact, session, challenge, completing, prompt, work, asked, shown>>
vars == <<scene, accountOnly, responseVars>>

NoAccounts == /\ identity = <<>> /\ contact = <<>> /\ session = <<>> /\ challenge = <<>>
              /\ completing = <<>> /\ prompt = <<>> /\ work = <<>> /\ asked = <<>> /\ shown = {}

Init ==
    /\ ResponsesInit
    /\ \/ scene = "sign-in" /\ SignIn!AccountsInit
       \/ scene = "prompts" /\ Prompts!AccountsInit
       \/ scene = "responses" /\ NoAccounts

Next ==
    \/ /\ \/ scene = "sign-in" /\ SignIn!AccountsNext
          \/ scene = "prompts" /\ Prompts!AccountsNext
       /\ UNCHANGED <<scene, responseVars>>
    \/ scene = "responses" /\ ResponsesNext /\ UNCHANGED <<scene, accountOnly>>

Spec == Init /\ [][Next]_vars

Symmetry == Permutations({x1, x2}) \cup Permutations({y1, y2})

-----------------------------------------------------------------------------
\* ChannelAccounts: who is signed in by a messenger owns it while its link stands, by
\* one session for each challenge; a revocation leaves a way in, no messenger changes
\* its account, and none that is linked is told to sign in as a stranger is.  A challenge
\* is put to its messenger once, only that messenger confirms it, and what the queue says
\* of a prompt is what happened to it.
AccountsAreSafe ==
    /\ [](scene = "sign-in" =>
            /\ SignIn!AccountsTypeOK
            /\ SignIn!SignInsAreThroughLinks
            /\ SignIn!OneSessionPerChallenge
            /\ SignIn!AnAccessRemains
            /\ SignIn!StrangersAreUnlinked)
    /\ [](scene = "prompts" =>
            /\ Prompts!AccountsTypeOK
            /\ Prompts!OneSenderPerChallenge
            /\ Prompts!AskedOnce
            /\ Prompts!PromptReceiptsAreTrue)
    /\ [][scene = "sign-in" => SignIn!OwnersAreKept]_vars
=============================================================================
