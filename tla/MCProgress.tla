----------------------------- MODULE MCProgress -----------------------------
(***************************************************************************)
(* What must eventually happen: every component that promises progress, on  *)
(* a small instance, under the fairness that its code's scheduling gives.   *)
(* A behaviour is a scene of one component while the others keep their      *)
(* initial state.                                                           *)
(***************************************************************************)
EXTENDS Naturals, Sequences, FiniteSets, TLC

CONSTANT None

VARIABLES
    scene,
    run, granted, reads, dispatch, address, inbox, worker, tasks, answer, overtaken,
    rows, active, held, handoff, lock, stray, receipt, session, alive, mailbox, consumed,
    begun, turns,
    outboxRows, outboxActive, outboxHeld, drain, late, copies,
    reportsRows, reportsActive, reportsHeld, reportsDrain, reportsLate, reportsCopies,
    reportsRun, seal, read, member,
    grant, task, outbox, receipts, ses, chan, mail, deliverer, known, used, tasksAnswer,
    epoch, row, repliesReceipt, repliesSes, said, asked, before, attempt, repliesConsumed,
    access, deleted, open, audienceEpoch, audienceMember, pending, departures, native,
    audienceLate, pushed, audienceAnswer, lost,
    db, clock, store, payloadsLate, key, writer, backups, restores, journal, serving,
    acked, lineage, forked,
    now, job, runs, edit, seen, since,
    identity, contact, promptsSession, challenge, completing, prompt, work, promptsAsked,
    shown,
    responsesActive, responsesNow, sent, request, source, turn, claim, call, flight,
    handed, taken,
    billingRow, bought, changes, events, handler, checkout,
    erasureDb, backup, erasureJournal, vaults, linked, erasureHandler, startup, erased,
    restarts,
    invocation, revoked, toolsCall, told, toolsSent, done,
    head, revision, members, at, basis, savesTold, publisher, stamp, savesClock, viewed

\* A run with a second attempt and a question nobody answers.
Workers == INSTANCE ScheduledWorkers WITH
    Runs <- {"r"}, Channels <- {"interactive"}, Tokens <- {"t1", "t2"}, ReportTokens <- {"p"},
    Sessions <- {"t1", "t2"}, Turns <- {"u"}, Answers <- {}, Faults <- {"send_refused", "worker_failure"},
    MaxAttempts <- 2, MaxQuestions <- 1, MaxDelegations <- 0, MaxReads <- 2

\* A question and an answer that Eve may take without saying so.
Unsure == INSTANCE ScheduledWorkers WITH
    Runs <- {"r"}, Channels <- {"interactive"}, Tokens <- {"t1", "t2"}, ReportTokens <- {"p"},
    Sessions <- {"t1", "t2"}, Turns <- {"u"}, Answers <- {"a"}, Faults <- {"answer_unknown"},
    MaxAttempts <- 1, MaxQuestions <- 1, MaxDelegations <- 0, MaxReads <- 2

\* A message and two handoffs that may throw.
Inbox == INSTANCE InboxHandoff WITH
    Lane <- "inbox", MaxRows <- 1, Tokens <- {"t1", "t2"}, Contents <- {"c"}, MaxRetries <- 0,
    Handoffs <- {"h1", "h2"}, Faults <- {"send_throws"}, MaxSessions <- 1, MaxCopies <- 1

\* Two messages and two drains that may stop.
Outbox == INSTANCE OutboxDispatch WITH
    Lane <- "outbox", MaxRows <- 2, Tokens <- {"t1", "t2"}, Contents <- {}, MaxRetries <- 0,
    Drains <- {"d1", "d2"}, Faults <- {"rate_limited", "crash"},
    rows <- outboxRows, active <- outboxActive, held <- outboxHeld

\* A report of one chunk or of two.
Reports == INSTANCE NativeReports WITH
    Lane <- "outbox", MaxRows <- 2, Tokens <- {"t1", "t2"}, Contents <- {}, MaxRetries <- 0,
    Drains <- {"d"}, Faults <- {"refused"}, Runs <- {"r"}, Sizes <- {1, 2}, MaxReports <- 1,
    rows <- reportsRows, active <- reportsActive, held <- reportsHeld, drain <- reportsDrain,
    late <- reportsLate, copies <- reportsCopies, run <- reportsRun

\* A task that two deliverers send while it is cancelled.
Agents == INSTANCE AgentTasks WITH
    Tasks <- {"t"}, Deliverers <- {"d1", "d2"}, Questions <- {}, Answers <- {}, Faults <- {"timeout"},
    answer <- tasksAnswer

\* A mention and a reply, in a room that changes once.
Deliveries == INSTANCE MatrixDeliveries WITH
    Events <- 1..2, Decisions <- {2}, Attempts <- {"d"}, Requests <- {"q"}, Approvals <- {"q"},
    Prompts <- {"p"}, MaxEpoch <- 2, Faults <- {"lost"},
    receipt <- repliesReceipt, ses <- repliesSes, consumed <- repliesConsumed

\* A person who may join behind a commit that is lost.
Audience == INSTANCE MatrixAudience WITH
    People <- {"p"}, NoAnswer <- None, MaxEpoch <- 5, MaxLate <- 1, Failing <- {"open", "retire", "erase"},
    epoch <- audienceEpoch, member <- audienceMember, late <- audienceLate, answer <-
    audienceAnswer

\* An object that a late PUT or a restore may bring back.
Payloads == INSTANCE PrivatePayloads WITH
    Objects <- {"o"}, Owners <- {"w"}, Erasable <- {"w"}, Nothing <- None, Window <- 1,
    LastTime <- 2, MaxBackups <- 1, MaxRestores <- 1,
    late <- payloadsLate

\* A schedule that a conversation and a page change.
Jobs == INSTANCE ScheduledJobs WITH
    Timings <- {{1, 2, 3}, {2}}, Policy <- "catch_up", Editors <- {"e"}, Pages <- {},
    MaxTime <- 3, MaxRevision <- 2

\* A challenge, two messengers and two dispatchers, and a sealed text that does not open.
Prompts == INSTANCE ChannelAccounts WITH
    Users <- {"u1", "u2"}, Senders <- {"s1", "s2"}, Sessions <- {}, Challenges <- {"c"}, Kinds <- {"login"},
    Dispatchers <- {"d1", "d2"}, Faults <- {"timeout", "crash", "key"}, Linked <- ("s1" :> "u1" @@ "s2" :> "u2"),
    session <- promptsSession, asked <- promptsAsked

\* A call about a request, and an Eve that may not answer.
Responses == INSTANCE ChannelResponses WITH
    Requests <- {"r"}, Chunks <- {"k"}, Messages <- {"m"}, Calls <- {"c"},
    Faults <- {"timeout", "lost", "revoked", "elsewhere"}, MaxTime <- 1,
    active <- responsesActive, now <- responsesNow

\* A subscription that changes four times while Stripe and handlers fail.
Billing == INSTANCE BillingEntitlements WITH
    Subscriptions <- {"k"}, Checkouts <- {"b"}, Handlers <- {"h"}, Delivery <- "ordered",
    Faults <- {"stripe", "crash"}, MaxChanges <- 4,
    row <- billingRow

\* A deletion, a late member and a restart.
Erasure == INSTANCE AccountErasure WITH
    Users <- {"u1", "u2"}, Companies <- {"c"}, Handlers <- {"u1"}, Asks <- [h \in {"u1"} |-> h],
    Administrators <- {}, LateJoins <- TRUE, Removals <- {"u1", "u2"},
    Failures <- {"abort", "restart", "providers"}, MaxRestarts <- 1,
    Nobody <- None, accounts <- erasureDb, tombstones <- erasureJournal, handler <- erasureHandler

\* Three calls for one slot.
Tools == INSTANCE ToolInvocations WITH
    Calls <- {"c1", "c2", "c3"}, Keys <- {"k1", "k2"},
    Key <- [c \in {"c1", "c2", "c3"} |-> IF c = "c3" THEN "k2" ELSE "k1"],
    Request <- [c \in {"c1", "c2", "c3"} |-> "r"],
    MaxRunning <- 1, Deadline <- 1, MaxTime <- 1, Faults <- {"service"},
    call <- toolsCall, sent <- toolsSent

\* Two saves of one file, each of which may die between two statements.
Saves == INSTANCE WorkspaceRepository WITH
    Calls <- {"c1", "c2"}, Operations <- {"o1", "o2"},
    Operation <- ("c1" :> "o1" @@ "c2" :> "o2"), Kind <- [o \in {"o1", "o2"} |-> "save"],
    Author <- [o \in {"o1", "o2"} |-> "member"], Files <- {"f"}, Path <- [o \in {"o1", "o2"} |-> "f"],
    Sources <- [o \in {"o1", "o2"} |-> {}], Draft <- [o \in {"o1", "o2"} |-> o],
    Users <- {"owner", "member"}, Managers <- {"owner"}, MaxTime <- 1, Faults <- {"crash", "storage"},
    told <- savesTold, clock <- savesClock

runsVars == <<run, granted, reads, dispatch, address, inbox, worker, tasks, answer, overtaken>>
inboxVars == <<rows, active, held, handoff, lock, stray, receipt, session, alive, mailbox,
              consumed, begun, turns>>
outboxVars == <<outboxRows, outboxActive, outboxHeld, drain, late, copies>>
reportsVars == <<reportsRows, reportsActive, reportsHeld, reportsDrain, reportsLate,
              reportsCopies, reportsRun, seal, read, member>>
tasksVars == <<grant, task, outbox, receipts, ses, chan, mail, deliverer, known, used,
              tasksAnswer>>
repliesVars == <<epoch, row, repliesReceipt, repliesSes, said, asked, before, attempt,
              repliesConsumed>>
audienceVars == <<access, deleted, open, audienceEpoch, audienceMember, pending, departures,
              native, audienceLate, pushed, audienceAnswer, lost>>
payloadsVars == <<db, clock, store, payloadsLate, key, writer, backups, restores, journal,
              serving, acked, lineage, forked>>
jobsVars == <<now, job, runs, edit, seen, since>>
promptsVars == <<identity, contact, promptsSession, challenge, completing, prompt, work,
              promptsAsked, shown>>
responsesVars == <<responsesActive, responsesNow, sent, request, source, turn, claim, call,
              flight, handed, taken>>
billingVars == <<billingRow, bought, changes, events, handler, checkout>>
erasureVars == <<erasureDb, backup, erasureJournal, vaults, linked, erasureHandler, startup,
              erased, restarts>>
toolsVars == <<invocation, revoked, toolsCall, told, toolsSent, done>>
savesVars == <<head, revision, members, at, basis, savesTold, publisher, stamp, savesClock,
              viewed>>
vars == <<scene, runsVars, inboxVars, outboxVars, reportsVars, tasksVars, repliesVars,
          audienceVars, payloadsVars, jobsVars, promptsVars, responsesVars,
          billingVars, erasureVars, toolsVars, savesVars>>

Init ==
    /\ scene \in {"runs", "unsure", "inbox", "outbox", "reports", "tasks", "replies", "audience",
                  "payloads", "jobs", "prompts", "responses", "billing",
                  "erasure", "tools", "saves"}
    /\ IF scene = "unsure" THEN Unsure!WorkersInit ELSE Workers!WorkersInit
    /\ Inbox!InboxInit
    /\ Outbox!OutboxInit
    /\ Reports!NativeInit
    /\ Agents!TaskInit
    /\ Deliveries!MatrixInit
    /\ Audience!AudienceInit
    /\ Payloads!PayloadInit
    /\ Jobs!JobInit
    /\ Prompts!AccountsInit
    /\ Responses!ResponsesInit
    /\ Billing!BillingInit
    /\ Erasure!DeletionInit /\ erasureDb.alive = {"u1", "u2"}
    /\ Tools!ToolInit
    /\ Saves!RepositoryInit
    /\ scene # "jobs" => job.timing = {2}

Next ==
    /\ UNCHANGED scene
    /\ scene = "runs" => Workers!WorkersNext
    /\ scene = "unsure" => Unsure!WorkersNext
    /\ scene \notin {"runs", "unsure"} => UNCHANGED runsVars
    /\ IF scene = "inbox" THEN Inbox!InboxNext ELSE UNCHANGED inboxVars
    /\ IF scene = "outbox" THEN Outbox!OutboxNext ELSE UNCHANGED outboxVars
    /\ IF scene = "reports" THEN Reports!NativeNext ELSE UNCHANGED reportsVars
    /\ IF scene = "tasks" THEN Agents!TaskNext /\ Len(mail'["t"]) <= 1 ELSE UNCHANGED tasksVars
    /\ IF scene = "replies" THEN Deliveries!MatrixNext ELSE UNCHANGED repliesVars
    /\ IF scene = "audience" THEN Audience!AudienceNext ELSE UNCHANGED audienceVars
    /\ IF scene = "payloads" THEN Payloads!PayloadNext ELSE UNCHANGED payloadsVars
    /\ IF scene = "jobs" THEN Jobs!JobNext ELSE UNCHANGED jobsVars
    /\ IF scene = "prompts" THEN Prompts!AccountsNext ELSE UNCHANGED promptsVars
    /\ IF scene = "responses" THEN Responses!ResponsesNext ELSE UNCHANGED responsesVars
    /\ IF scene = "billing" THEN Billing!BillingNext ELSE UNCHANGED billingVars
    /\ IF scene = "erasure" THEN Erasure!DeletionNext ELSE UNCHANGED erasureVars
    /\ IF scene = "tools" THEN Tools!ToolNext ELSE UNCHANGED toolsVars
    /\ IF scene = "saves" THEN Saves!RepositoryNext ELSE UNCHANGED savesVars

Spec == Init /\ [][Next]_vars

-----------------------------------------------------------------------------
\* ScheduledWorkers, ScheduledJobs and NativeReports: a due occurrence gets its run, a run
\* that runs has somebody who will move it on and finishes or waits for its user, and a
\* queued report gets its last status or waits for an operator.  An answer that Eve may
\* have taken leaves questions without a worker (README, section 6); its route still uses
\* the store only as ScheduledRuns allows.
SchedulesProgress ==
    /\ [](scene = "runs" => Workers!RunningIsOwned)
    /\ [][scene = "unsure" => Unsure!Next]_<<run, granted, reads>>
    /\ scene = "runs" => (Workers!Fairness => Workers!RunSettles)
    /\ scene = "jobs" => (Jobs!JobFairness => Jobs!DueIsRun)
    /\ scene = "reports" => (Reports!NativeFairness => Reports!ReportsSettle)

\* InboxHandoff, OutboxDispatch, ChannelAccounts and ChannelResponses: a received message is
\* accepted or refused while its identity is active, one that is sent is settled or behind
\* one that an operator must judge, and no prompt or claim of a response stays on its way.
MessagesProgress ==
    /\ scene = "inbox" => (Inbox!InboxFairness => Inbox!MessagesAccepted)
    /\ scene = "outbox" => (Outbox!OutboxFairness => Outbox!MessagesSettle)
    /\ scene = "prompts" => (Prompts!AccountsFairness => Prompts!PromptsSettle)
    /\ scene = "responses" => (Responses!ResponsesFairness => Responses!ClaimsSettle)

\* AgentTasks, MatrixDeliveries and MatrixAudience: an accepted task or mention is delivered,
\* a cancelled session is told, an answer reaches the room or is suppressed, and who does
\* not belong to a room is taken out of it.
RoomsProgress ==
    /\ scene = "tasks" =>
        (Agents!TaskFairness => Agents!CancellationIsDurable /\ Agents!SubmittedIsDelivered)
    /\ scene = "replies" =>
        (Deliveries!MatrixFairness => Deliveries!AcceptedIsHandled /\ Deliveries!AnswersAreSettled)
    /\ scene = "audience" => (Audience!AudienceFairness => Audience!StrangersLeave)

\* PrivatePayloads, BillingEntitlements, AccountErasure, ToolInvocations and
\* WorkspaceRepository: the objects of an erased owner vanish for good, the stored plan
\* follows what is paid, a restart ends with the service, and every call ends.
ServicesProgress ==
    /\ scene = "payloads" => (Payloads!PayloadFairness => Payloads!ErasedObjectsVanish)
    /\ scene = "billing" => (Billing!BillingFairness => Billing!PlansFollow)
    /\ scene = "erasure" => (Erasure!DeletionFairness => Erasure!ServiceReturns)
    /\ scene = "tools" => (Tools!ToolFairness => Tools!CallsEnd)
    /\ scene = "saves" => (Saves!RepositoryFairness => Saves!CallsEnd)
=============================================================================
