# Zoen in TLA+

Zoen is a personal and team assistant: a TypeScript server on the Eve agent
runtime, with PostgreSQL as the owner of product records, receipts and leases
(`docs/eve/architecture.md`). The hard part of it is not any one handler. It is
that work is handed between processes that may stop, sessions that may end and
providers that may answer late, and that the only memory they share is rows,
lease tokens, receipts and objects in a store. This directory models that part.

- [1. Inventory](#1-inventory)
- [2. Modules](#2-modules)
- [3. Runs](#3-runs)
- [4. Fairness](#4-fairness)
- [5. Proofs](#5-proofs)
- [6. Disagreements between code and documentation](#6-disagreements-between-code-and-documentation)
- [7. What the models leave out](#7-what-the-models-leave-out)
- [8. Plan](#8-plan)

`PROJECT.json` holds the same facts for tools: the components, the runs, one
mutant for every property, the lines of source behind every definition, the
hazards and the theorems.

    tlc -workers 2 -config MCOutbox.cfg MCOutboxDispatch     # one run
    tlapm OutboxDispatchProofs.tla                           # one module of proofs

## 1. Inventory

| Component | State it keeps | Operations | What makes it correct |
|---|---|---|---|
| **Scheduled run store** `db/services/scheduled-agent-jobs.ts`, `scheduled-agent-run-leases.ts` | one `scheduled_agent_runs` row per occurrence: status, attempts, lease, session, report, outcome, question | claim, set session, start, wait, defer, complete, release, the input and report calls | attempts are bounded and fenced; a run ends once; a settled report stays settled |
| **Scheduled workers** `agent/schedules/dynamic.ts`, `agent/hooks/scheduled-run-completion.ts`, `agent/channels/scheduled-run.ts` | a dispatch, an Eve session, an answer under way | the tick, the hook of each event, the answer route | a due run ends or asks its user; interim messages do not end it; a waiting run can be answered |
| **Schedule management** `shared/schedules/timing.ts`, `server/schedules/manage.ts`, `updateScheduledAgentJob` | a row per schedule with its next occurrence | materialize, edit, pause and resume | local time is kept across clock changes; no occurrence is lost |
| **Scheduled reports** `server/schedules/native-report.ts` | a status computed from outbox rows | enqueue, project | what is reported delivered was delivered |
| **Durable messaging queues** `server/messaging/store.ts`, `index.ts`, `native-receipts.ts` | `channel_inbox` and `channel_outbox` | insert, claim, complete, stop, defer, prepare, resolve, revoke | one at a time, in order; settled for good; fenced; prepared once |
| **Channel transport** `server/channels/transport.ts` | a drain and its request | candidates, drain, dispatch, record | sent once, plus once per authorized retry |
| **Channel sessions and durable delivery** `agent/lib/channel-session.ts`, `durable-delivery.ts` | receipts, a session's checkpoint, a lock per address | claim, recover, prepare, send, accept | one turn per message, in order, with the content first prepared |
| **Answers to channel questions** `agent/lib/channel-response.ts`, `server/messaging/input-response.ts` | one claim per request | check, claim, hand over, mark | one answer per request; `rejected` had no effect |
| **Channel accounts and prompts** `server/accounts`, `server/channel-auth` | identities, challenges, sessions, prompts | start, confirm, consume, link, revoke, dispatch | who is signed in owns the messenger |
| **Matrix deliveries** `server/matrix/{inbound,inputs,delivery}.ts` | a delivery per event | accept, hand over, answer, settle | one answer per event, shown when recorded |
| **Matrix rooms** `server/matrix/{rooms,membership,participation,erasure}.ts` | members, epochs, departures | invite, join, kick, project, reconcile | an answer is received by members only |
| **A2A tasks** `server/a2a` | tasks, inputs, a cancellation outbox | submit, bind, ask, answer, cancel, delete | what ended stays so; a cancelled session is told |
| **Trust networks** `server/workspaces/{network,bots,access}.ts`, `server/matrix/{conversations,network-delivery,retirement}.ts` | invitations, trust, blocks, grants, conversations, a retirement outbox | invite, answer, end, block, open, send, receive, answer, close, retire | no grant, task or answer outlives the trust it was given under |
| **Private payloads** `server/payloads` | objects with intents, retention, erasures | register, put, adopt, quarantine, collect, erase | nothing a backup names is removed; what is erased stays gone |
| **Learned memory** `server/memory/{repository,claims,git,namespace}.ts` | a line of commits per person, receipts, recalls | change, recall, switch, back up, restore, rebuild | forgotten stays forgotten; nothing learned while paused; archives neither fork nor roll back |
| **Session archive** `server/memory/session-{capture,files,export}.ts`, `erasure*.ts` | rows, immutable files, a count and a high-water mark | capture, deliver, export, restore, rebuild, erase | acknowledged events are kept; exports are complete |
| **Account deletion** `server/accounts/deletion.ts`, `erasure-journal.ts` | receipts, obligations, a journal | delete, replay, reconcile | a company keeps an administrator; deleted stays deleted |
| **Billing** `server/billing`, `db/services/billing.ts` | an entitlement per subject | checkout, webhook | the plan is what is paid |
| **Tool invocations** `server/connectors/invocation.ts` | a journal of calls by key, slots of the process | invoke, retry, revoke | one request per key |
| **Workspaces** `server/workspaces/{repository,git,team,access}.ts`, `knowledge` | a head and its revisions, proposals | publish, propose, review, remove, view | one line of revisions; an operation once; reviewed as written |

The rest (creators, connectors, models, tools of the agent, interfaces, vendored
code, infrastructure) is listed in `PROJECT.json` with the reason it is not
modelled: single transactions, data validation, rendering or third-party code.

### How they interact

    schedule row --tick--> scheduled_agent_runs <--hook of each event-- Eve session
                               |        ^  \--- answer route --respond----^
                               | send   |                                 |
                               +--------|--------> (address scheduled-run:<id>)
    native report --insert--> channel_outbox --claim--> drain --request--> provider
    webhook --insert--> channel_inbox --claim--> handoff --send--> Eve session
                                            \--- receipts <--- deliverOnce ---/
    homeserver --event--> matrix delivery --handoff--> Eve session --answer--> room (audience check)
    person --trust--> grant --conversation--> room --message--> a2a task --answer--> room
    other agent --task--> a2a task --deliver--> Eve session --report--> task, cancellation outbox
    browser --challenge--> channel account <--confirm-- messenger <--prompt-- dispatcher
    memory, workspace, archive --register, put, adopt--> payload store
    deletion of an account --journal--> replay at start --> payloads, memory, rooms, obligations

No transaction spans two of these: between any two statements another process
may claim, expire, revoke, answer or stop. Most hand-overs are guarded in the same
way: a row is claimed under a random token with an expiry, every write names the
token, and what is left behind is aged by the next claim. What differs is what is
done with doubt. A run is tried again. A message is never sent again under doubt
("Unknown external outcomes remain uncertain instead of being retried under a
new identity", `docs/eve/architecture.md`): an outbox row waits for an operator,
an inbox row is recovered through its receipt, a remote call is told that its outcome is
uncertain. Where bytes are uploaded (payloads, shared files, memory), two
transactions with an upload between them end in a compare-and-swap.

### What is hard here

- *Interleaving*: two holders of one row, one of them superseded; an answer that
  meets a failing turn; two handoffs at one address; two saves on one head.
- *Crashes and timeouts*: between a claim and its record, during a request, with
  a send under way whose transaction outlives its caller.
- *Order*: webhooks that arrive late, a fast turn before the statement that
  records it, joins that are carried out after their caller gave up.
- *Stale reads*: releases and edits of schedules that read and write in two
  statements; proposals previewed on an older head; challenges that end during a prompt.
- *Restored databases*: objects, journals and archives are not rewound with the
  rows that name them.
- *Liveness*: everything is picked up by polling, so a row in a state that no
  poll looks for stays there for good.

## 2. Modules

| Module | Models |
|---|---|
| `RunPromise` | abstract: what a scheduled run promises its user; implemented by `ScheduledRuns` |
| `ScheduledRuns` | the store of runs: one action per service |
| `ScheduledWorkers` | tick, hooks, answer route and Eve session over `ScheduledRuns` |
| `ScheduleTiming` | `computeNextRun` and `computeLatestRun`, and a schedule that runs by them |
| `ScheduledJobs` | the row of a schedule under the tick, a conversation and the reminders page |
| `MessagePromise` | abstract: what the outbox promises; implemented by `OutboxDispatch` |
| `MessageQueue` | one lane of one identity: `store.ts` |
| `OutboxDispatch` | drains and the provider over the outbox lane |
| `NativeReports` | reports of runs as chunks in the outbox, over `OutboxDispatch` |
| `InboxHandoff` | handoffs, receipts and the Eve session over the inbox lane |
| `ChannelResponses` | decisions about requests for approval, made in a channel |
| `ChannelAccounts` | signing in with, linking and revoking a messenger; prompts |
| `MatrixDeliveries` | a mention or a reply in a room, its session and its answer |
| `MatrixAudience` | who is in a room, by its rows and by the homeserver |
| `AgentTasks` | tasks of another agent |
| `NetworkTrust` | trust between two people, and the conversation of one with the bot of the other |
| `PrivatePayloads` | objects, intents, collection, erasure, backups |
| `LearnedMemory` | the line of what an agent remembers of a person |
| `SessionArchive` | the record of what was said |
| `AccountErasure` | deletion of accounts, companies, the replay of the journal |
| `BillingEntitlements` | checkouts and webhooks of Stripe |
| `ToolInvocations` | remote calls with a key, slots and deadlines |
| `RevisionPromise` | abstract: what a repository promises to those who publish; implemented by `WorkspaceRepository` |
| `WorkspaceRepository` | publication of revisions, proposals and reviews |
| `…Proofs` | the theorems, [section 5](#5-proofs) |
| `MC…` | instances for TLC |

A definition whose comment begins "Mutant of" is a plausible bug in the
definition that follows it. Nothing refers to it; it shows that some property
fails when the code is changed that way (`PROJECT.json`, "mutants").

### State and time

In the modules of runs and queues a timestamp is `"none"`, `"future"` or `"reached"`, and
time is an action that turns `future` into `reached` at any moment, so every
race between an expiry and a call is explored, whatever the durations are.
Other modules have a small clock where what matters is which of two instants
is earlier. Lease tokens are `randomUUID`s; a model cannot have infinitely many, so a token
is fresh when no row and no live caller still holds it. In `ScheduledRuns` every token ever
granted stays with its caller for good, because a superseded session may act at any later
time; the attempts bound how many there are. A variable whose comment says "history" is
not in the code; it records what the properties compare with.

### Scheduled work

**ScheduledRuns.** `run[r]` is the row; `granted[r]` the tokens ever handed out
for it; `reads` the first halves of releases whose second half has not been
written. Each service is one action, because each is one statement or one
transaction, except `releaseScheduledAgentRun`, which is `ReleaseRead` then
`ReleaseWrite`. *Any* holder of a token may make *any* call at any time, which
is more than the workers do; what holds here holds of every caller.

**ScheduledWorkers.** `dispatch[r][t]` is where the tick is with the attempt of
token `t`; `address[r]` the session behind `scheduled-run:<id>`, named by the
token of the dispatch that opened it, because that is what `auth.initiator`
keeps; `worker[r]` the current turn, `tasks[r]` its background tasks and
`answer[a]` each execution of the answer route. Every event of a turn is an
action that includes the hook's call. Faults are a constant. `overtaken` is a history of the runs whose
worker went on past an answer: it asked again while an execution of the route was under way, or the
route, which does not know the outcome of its own answer, is about to put back a question that Eve has taken. `FollowsStore` says
that the composition only makes the calls `ScheduledRuns` allows.

**ScheduleTiming.** Days of `Day` units and hours of `Hour`; a zone changes its
offset once. The passes over the offset, the shift by an hour and the search over
dates are as in `timing.ts`; a local time is a number and not a text.

**ScheduledJobs.** A timing is the set of its occurrences. An edit in a
conversation is two actions (`updateScheduledAgentJob` reads, computes and
writes without a condition on what it read); the page is one look and one
conditional write; the tick is one transaction with both policies for what
was missed.

**NativeReports.** A report is one or two chunks in the lane of
`OutboxDispatch`, whose actions it takes over; the projection reads the rows of
the chunks and writes the status in another statement. `seal` is what the last
status said (history). The member may be removed at any time.

### Messages

**MessageQueue.** `rows[i]` is the row in place `i` of the sequence, `active`
whether the identity is not revoked, `held` the leases that running callers have.
Every operation of `store.ts` locks the identity first, so each is one action,
and identities are independent. Both lanes are here, chosen by `Lane`, because
the code is one store with two tables. A claim first ages lapsed rows (`Aged`)
and then hands out the first claimable one, if nothing `Blocks`.

**OutboxDispatch.** `drain[d]` follows `drainOutbox` and `dispatch`. The
provider may take, refuse, answer 429, take and lose its answer; the drain may
give up or die with the request under way, which is then `late` and may be taken at
any later time. `FateOf` maps rows to the fates of `MessagePromise`.

**InboxHandoff.** `handoff[h]` follows `handoffChannelMessage`, one phase per
await. `stray` holds sends under way that nobody waits for any more; after a
timeout the transaction, and with it the advisory `lock`, lives until the send
returns. `receipt[i]` is the row of `native_delivery_receipts`, `consumed` the
receipts in the session's checkpointed state, `begun` the gap between the two.

**ChannelResponses.** A tool call of a turn asks for a decision; `call[c]`
follows the handler through its check, claim, second check, hand-over under the
budget of eight seconds, and mark. The claim of a request is a row that no two
calls can make. A turn may be woken with the credentials of an older message.

**ChannelAccounts.** Operations under the advisory lock (724193, 1) are one
action each. The session of a sign-in is made after its challenge was consumed;
the request of a dispatcher to its provider lies between two locked operations.

### Rooms and tasks

**MatrixDeliveries.** A delivery goes through `pending`, `dispatched`,
`answer_ready`, `completed` or `suppressed`; two attempts at one event meet at
the row. The homeserver keeps what it took under a transaction id (`said`), so a
transaction that fails after the send repeats it.

**MatrixAudience.** Rows say who joined, left or was removed; `native` says who
receives what is sent. Requests run inside the transaction that holds the room,
and may be carried out after their caller gave up (`late`). The two are brought together
by the tick and by pushed events. A join whose transaction failed leaves a person whom no row names;
`lost` is a history of them, and of whom a late invitation finds with a late join on its way; no guard reads it.

**AgentTasks.** The row of a task, its address, the messages on their way to
its session (`mail`), the cancellation outbox, and questions that are answered
through the row. Two deliverers may send one task.

**NetworkTrust.** The one module whose atom is a statement and not a transaction:
what the operations promise each other rests on the order in which they lock rows.
`tx[p]` is a transaction with the rows it holds, shared or owned; a step waits
until it may lock what it needs, reads what is committed, and the writes are applied at the
commit, with the triggers of migration 0052 (`RevokesAll`, `Closes`). Every use of a conversation
shares its grant, the trust and the conversation (`SharesGrant`, `SharesTrust`, `SharesConversation`),
the end of trust owns the trust before it looks for grants (`DropsEdge`, `FindsGrants`, `ClearsTrust`), and an
opening holds the bot from its first statement. A cycle of waiting is a deadlock to PostgreSQL,
which aborts one of them: `Aborts`, which also stands for refusals, the minute's budget and
crashes. What was asked of the homeserver is not undone by it.

### Accounts and what they own

**PrivatePayloads.** A writer registers, puts and adopts; the tick quarantines,
waits for the oldest retained backup and removes; a restore of the database
leaves the store and the journal of erasures as they are. A backup holds the whole database, so
that what a restore brings back is whatever was true when the backup began. Two histories say how the
database in use came about: `lineage` has the retained backups it descends from, `forked` whether it
was ever restored from another one, one that an earlier restore had abandoned.

**LearnedMemory.** A memory is a line of entries, each of one operation, kept in
a bundle behind a head. A change reads, plans and registers in one transaction,
uploads, and publishes in another, under the lock of the namespace; so each
transaction is an action (`Plans`, `Publishes`). A restore of an archive is the same.
Rows, receipts, bundles and answers may be lost, the person may pause memory, leave and come
back, and the database may be restored; head and receipts are never lost
together, which is the limit the code itself states (`repository.ts:277`).

**SessionArchive.** Capture, delivery, export and repair hold the row of the
namespace, so each is one action, but files outlive a transaction that fails:
`Delivers` writes the first `n` files of a batch and acknowledges all rows or
none.

**AccountErasure.** The database is one record so that a restore puts back an
earlier one; the journal is not restored. A deletion is its look at the
companies under locks, the record in the journal, and the commit. `Removals` are the
people whom somebody may remove from a workspace, and `LateJoins` lets a person join a
company during their own deletion.

**BillingEntitlements.** Checkouts and webhooks read and write the entitlement in
separate statements. `Delivery` says whether Stripe keeps the order of events,
which it does not promise.

### The workspace

**ToolInvocations.** The journal row of a key is made, sent, finished or called
uncertain; callers wait for one of `MaxRunning` slots and a clock runs out.

**WorkspaceRepository.** A call of `publish` replays, snapshots, prepares
outside any transaction and swaps the head. `revision[x]` is named by the call
that made it. Locks of PostgreSQL that matter (the advisory lock of the workspace, the
shared lock of the author's access) are guards; two statements of one
transaction may see two states.

## 3. Runs

All nine passing runs are exhaustive. Counts are distinct states.

| Run | Module, config | States | Shows |
|---|---|---|---|
| `store` | `MCScheduledRuns` | 36,830 | `RunsInv` (inductive), bounded attempts, finality, fencing, reports that settle once, `RunPromise` |
| `workers` | `MCScheduledWorkers` | 535,834 | waiting runs can be answered and their session is parked on that question, unless the worker went on past an earlier answer; only final words end a run; the store is used as allowed |
| `outbox` | `MCOutboxDispatch`, `MCOutbox.cfg` | 75,188 | implements `MessagePromise`; requests never exceed authorizations |
| `inbox` | `MCInboxHandoff`, `MCInbox.cfg` | 812,360 | one turn per message, in order; accepted means consumed; no conflicting replay |
| `rooms` | `MCRooms` | 1,429,299 | audience, deliveries, tasks and trust |
| `channels` | `MCChannels` | 1,645,059 | accounts, prompts and responses |
| `workspace` | `MCWorkspace` | 1,243,324 | schedules, reports, tools, repository, memory |
| `accounts` | `MCAccounts` | 1,467,170 | deletions, payloads, archive, plans |
| `progress` | `MCProgress` | 69,787 | every component's liveness |
| `workers_stranded`, `timing_midnight`, `erasure_replay` | | | expected violations, [section 6](#6-disagreements-between-code-and-documentation) |

### Scenes

Five runs check several components that do not interact. The variable `scene`
picks one instance of one component when a behaviour begins; the others keep their
initial or an empty value, so the states of the run are the sum of those of
its scenes and not their product. A property names its scene
(`scene = "audience" => ...`). Components share a variable where both have one of
that name, and pairs of interchangeable constants (`x1`, `x2`) where both have such pairs, so
that one symmetry set serves all scenes. Each property of such a run is the
conjunction of what its component promises, one named formula of the component's module for
each promise:

| Property | Of |
|---|---|
| `AudienceIsSafe` | `RecipientsAreMembers`, `EpochNamesMembers`, `ForgottenAreOut`, the first and the last but for the people in `lost` |
| `DeliveriesAreSafe` | `CompletedIsShown`, `RepliesAreDecisions`, `RetriesAgree`, `EndsAreKept` |
| `TasksAreSafe` | `ParkedIsAnswerable`, `OneAnswerEach`, `EndedStaysEnded`; `GrantsNeedTrust`, `OneLiveGrant`, `ClosedIsQuiet`, `ClosedRoomsAreLeft`, `AnswersAreTrusted` |
| `AccountsAreSafe` | `SignInsAreThroughLinks`, `OneSessionPerChallenge`, `AnAccessRemains`, `StrangersAreUnlinked`, `OwnersAreKept`, `OneSenderPerChallenge`, `AskedOnce`, `PromptReceiptsAreTrue` |
| `ResponsesAreSafe` | `DecidedOnce`, `RejectedHadNoEffect`, `AcceptedIsTrue`, `DisclosedBeforeDecided` |
| `SchedulesAreSafe` | `KeepsLocalTime`, `LatestIsTheLastRun`, `IntervalsKeepTheirAnchor`, `NothingIsPassed`, `OncePerDate`, `EveryWeek`; `ActiveHasNext`, `NothingOwedIsLost`, `PagesChangeWhatTheyShow`, `OnlyTheLatestIsRun` |
| `ReportsAreSafe` | `ReceiptsAreTrue`, `NothingStartsByItself` |
| `ToolsAreSafe` | `SentOnce`, `ResultsAreTrue`, `RevokedHasNoResults` |
| `RepositoryIsSafe` | `OperationsOnce`, `AnswersAreTrue`, `StampsFollow`, `HistoryIsALine`, `ReviewedAsWritten`, `DecidedOnce`, `RemovedDoNotPublish` |
| `MemoryIsSafe` | `OperationsOnce`, `ForgottenStays`, `OneAnswerPerRecall`, `NothingIsForgotten`, `ErasedStaysErased`, `PausedLearnsNothing`, `LineOnlyGrows` |
| `DeletionsAreSafe` | `DeletedStayDeleted`, `ErasedIsTrue`; `ReceiptsStoreExpiry` with one request for each account; `CompanyKeepsAdmin` until a restart, and `CompanyIsManaged` while no administrator may be removed from the workspace |
| `PayloadsAreSafe` | `ErasureSurvivesRestore`, `SweptHasNoWriter`; `PointersAreStored` and `BackupsAreRecoverable` until the database is restored from a backup it does not descend from (`~forked`) |
| `ArchiveIsSafe` | `AcknowledgedIsKept`, `DeliveredInOrder`, `ArchivesRepair`, `ExportsAreComplete`, `NumbersAreUnique`, `ErasedStaysErased`, `FilesAreImmutable` |
| `PlansAreSafe` | `NothingForNothing`, `PaidIsEntitled`, `UnpaidIsFree`, `OnlyWebhooksChangePlans` |
| `QuestionsStand` | `WaitingIsAnswerable`, `WaitingHasParkedWorker`, `QuestionKeepsItsSequence`, of the runs that are not `overtaken` |
| `FinalWordsEnd` | `InterimIsNotFinal`, `SilenceWaitsForTasks` |

A component that needs different instances has several scenes. Which formula is checked in
which scene is written in the `MC` module.

### Instances and why they are enough

The cardinalities are at the top of each `MC` module, with the reason of a scene in the comment
above its instance.

- *Runs.* Rows of different runs never appear in one another's guards, so one
  run is general but for the batch of a claim, which is proved (section 5). A superseded
  holder needs two attempts and the effects of a last attempt need a third; two
  questions are needed for one sequence number to be confused with another. In
  `workers` native runs ask nothing and delegate up to two tasks; interactive
  ones delegate at most once, or ask a second time or have an answer of unknown outcome in their
  first attempt, where two executions of the answer route may meet; later attempts have one
  (`Bounded`). The faults of a question and those of two tasks do not meet, and what goes on past
  an answer is the same in every attempt; the theorems have none of these bounds.
- *Queues.* Whatever could overtake in a lane does so pairwise, and the theorems
  hold for any number of messages. Two drains or handoffs and three tokens give
  one holder, one superseded holder and one newcomer. One authorized retry
  separates "sent once" from "sent once per authorization". Two contents are
  needed for a disagreement, two sessions for a receipt that names another one.
- *Rooms.* Two people make a recipient and one who leaves; the epoch is bounded by
  4, which lets a person join, leave and join again (with 5, in 2,297,601 states of the
  run, all holds as well). Where every transaction may
  fail one request is carried out late (scene `audience`); where only `open` and `erase` fail,
  two are (`crossing`), so that a late invitation meets a late join of somebody who was erased in between.
  Mail of a task is bounded by three
  copies, one in `progress`.
- *Trust.* Two transactions at a time, any number one after the other: one to
  be overtaken and one to overtake. Two grants, since an expired or revoked one is replaced,
  without messages; one grant with a message. Both with two grants and a message is
  2,471,125 states and holds as well.
- *Channels.* Two challenges, browsers and messengers meet in every order; a
  third messenger is nobody's. Two messages answer one request of two chunks.
- *Schedules.* Days of six hours of two units, every change of the clocks by one
  hour or half of one on the third day of a week, every weekday and time, and the
  runs of three weeks. The change may skip or repeat any local time but not one
  over midnight, which is `timing_midnight`. Schedules are changed twice.
- *Repository.* Two deliveries of one save and a save of another author; or a
  save, a proposal that depends on it, two deliveries of an approval and a rejection.
- *Memory.* Two things to remember in lines of three for what follows what; one in
  lines of two where pauses, losses, archives and restores are added, since these
  concern the line as a whole.
- *Archive.* Three events, batches of two and at most two pending, so that a batch
  is full, part of one fails and one is left; four numbers, so that one is lost to an
  aborted transaction.
- *Accounts.* Three people of a company, all of whom may ask for their deletion and one of
  whom may be removed; or two with a backup and a restart or a restore;
  two uploads of one owner, two backups and a restore (scene `kept`), or one upload and two restores,
  so that the second may be of the backup that the first one abandoned (`twice`); an erasure with
  a backup and two restores (`wiped`); eight changes of a subscription in
  order, or one with events in any order.

The bounds are guards of actions (`MaxAttempts`, `MaxReads`, `MaxEpoch`,
`MaxTime`, `LastTime`, ...), never state constraints, so they do not hide behaviours from
liveness checking. Only `MaxAttempts`, `PendingLimit`, `Batch` and `MaxRunning` are bounds of the
code. Symmetry is used in safety runs only.

Deadlock is not checked, because the systems really stop: a finished run, a
settled lane, an uncertain message without an operator or a spent bound have no
next step. What must not stop is stated as liveness.

**Mutants.** Every property of every passing run is violated by a change of some
modelled definition, among them: an attempt that is not counted, a release that is not
fenced, a lapsed lease that requeues its row, a claim that snapshots again, a
timeout taken for a rejection, a receipt taken for a checkpoint, a head swapped
without comparing, an archive restored without its lineage, a batch that is acknowledged
although a file was not written.

## 4. Fairness

The specifications used for safety have none. The modules with a promise of progress define a
formula of fairness (`InboxFairness`, `DeletionFairness` and the like), and each conjunct
of the properties of `progress` assumes the one of its own component, because a behaviour of
that run is a scene of one component and nothing else moves.

- *Weak, the tick*: cron runs the schedules every minute, so what stays ready,
  due or eligible is picked up.
- *Weak, a live process*: each dispatch, drain, handoff, request and route takes its
  next statement; Node runs it unless it crashes, and a crash is a fault, not a
  choice of fairness.
- *Weak, time*: leases, delays, budgets and deadlines end.
- *Weak, Eve*: it drives a session until its turn ends, and returns from calls.
- *Strong, a provider, a homeserver, Stripe or an object store* asked for the same thing again and
  again does not refuse for ever.
- *Strong, leases*: a lease that is long enough most of the time does not end at
  the same statement at every attempt. A handoff has a lease of 150 seconds and
  gives up on a delivery after 25, and no other assumption is made of durations.

Nothing obliges a user to answer, an operator to judge, an administrator to act, an identity to be
revoked, or a fault to happen. `RunSettles` therefore counts waiting for the user as
settled, `MessagesSettle` standing behind a doubt, `MessagesAccepted` a
revoked identity, and `ReportsSettle` a report that waits for an operator.

The instances of `progress` are smaller than those of the safety runs, and have no fault under which
the promise does not hold: handoffs have throwing sends but no timeouts, which could
repeat for ever, no crash, ended session or missing artifacts, after which the code has
no way on (section 6). Its scene `unsure` is for safety: an answer that Eve may have taken without saying so
keeps to the store's services, although the questions it leaves are not answerable.

## 5. Proofs

Eight modules of proofs: the store of runs, its workers, the queues, their drains and their
handoffs, calls of tools, answers to questions, the trust of networks, the repository of a
workspace, private payloads, the deletion of accounts, and who is in a team room are proved as well as checked. TLAPS checks every theorem below for
all values of the constants, under the assumptions the modules name: naturals for the bounds, values such as
`None` outside the sets they are compared with, a lane, finite `Drains` and `Calls`. No theorem
assumes a bound of an instance or the absence of a fault. Where the code does not do what a property
says (section 6), the property itself has the exception, by a history of what led
to it: `lost` in `AudienceIsSafe`, `forked` in `PayloadsAreSafe`, `overtaken` in `QuestionsStand`. The runs reach
each of them, and without it each of the three properties is violated.

**ScheduledWorkersProofs**, first for the store alone: `RunsInv` is inductive: `LeaseInv` (attempts are counted by the tokens granted, a row's token is one of
them, and only running and waiting rows have one),
`EndingInv` (status, outcome and report agree), `ReportInv` (native rows and settled
reports have no report lease) and `ReadInv` (what a half-done release read is still
true of the row, or the row's token is another). `ReadInv` is the part that makes it inductive: without it the
second half of a release could write the outcome of a row that has moved on.
From it follow bounded attempts, `FinishedMeansOutcome`, finality, fencing, and
reports that settle once, by what each service does to a row (`StepOfRow`); and
`PromiseKept`, that every step maps to a step of `RunPromise` or a stutter.

The second half carries these theorems to the composition:
`WorkersUseTheStore` shows that every step of the tick, the hooks and the answer
route is a call `ScheduledRuns` allows or leaves the rows alone, so runs stay
fenced (`WorkersStayFenced`) and keep their promise (`WorkersKeepPromise`) with
their real callers, at any fault. What has to be shown is that each call names a
lease, since a release with no token would match every row that has none. The
invariant is `CallersOK`: a turn takes its lease from its message or from the
initiator of its session, so nothing of a session outlives it (`Rooted`), a
dispatch that was sent has a session to record, and an answer under way has the
token it was asked with.

Two invariants relate a row to the turn of its session. Both rest on one fact: a lease is given to
a session once, so a session that has been delivered the lease of a row is the one that works for it
(`Delivered`). `QuestionsInv` says of every way to a waiting row who can still take
the answer: the row is asked by a session that is parked (`AskOK`); an
answer that has claimed it leaves that session parked until it answers, or the hook's
release has been read and is about to put the row back (`ClaimOK`); and a restart replaces the session only while
its run is held for it (`StageOK`). Each says so of a run that is not `overtaken`, which grows only
where the worker goes on past an answer; of every run, a lease is answered for only after it was given to a session (`PastOK`).
`QuestionsAreAnswerable` follows for any number of questions and executions of the answer
route, at every fault. `WordsInv` says that a turn that delegated is remembered in the row's
deferral, and so is outstanding work, as long as the run has asked nothing (`Remembered`); for this the session has to be
recorded before it can delegate (`Recorded`), and of the leases a session was given the one
in the row has to be the one that takes the step (`StepIsCurrent`). `LastWordsAreLast` has no assumption.

**MessageQueueProofs.** `QueueInv` is stated for an arbitrary array of rows
(`QInv(r)`), because a claim first ages the rows and then hands one out of the
aged array. It says that tokens belong to dispatched rows, rows are filled in
order, and everything before a dispatched or uncertain row is settled, which is
what keeps a deferred or recovered row from being overtaken. Order, finality, fencing and
stability of content follow from what a step may do to one row
(`StepChanges`).

**OutboxDispatchProofs** shows that each drain has a lease of its own (`DrainOK`),
so the drains only make calls the queue allows (`DrainsUseTheQueue`) and its
theorems carry over. `RequestsAreAuthorized` is then a budget: requests taken,
late and about to be made never exceed the first sending and the authorized
retries, and a row that is queued or refused has one to spare.
The second half adds that a message with any possible request stands behind
settled ones (`Behind`), and that a drain that was told "confirmed" has a copy to
show (`ConfirmedTaken`); from these, `OutboxPromiseKept`. `OutboxTyped` collects the types.

**InboxHandoffProofs** shows the same ownership for handoffs, then the invariant
`HandoffInv` of handoffs, receipts and session together: `Agree` (whatever
carries a message carries what it was first prepared as), `TurnOK` (a message
that began a turn has a receipt, and if that names the session at the address
it is in its checkpoint), `Outcome` (accepted rows began their turn, failed rows
were never prepared, and a claimed row stands behind settled ones) and the order
of turns. They need one another: a turn cannot overtake because the later message
was prepared, hence the earlier one settled, hence it had its turn; and it cannot
repeat because its receipt either names another session or is checkpointed.

**ServicesProofs** is about the three components whose effects are outside the database.
For tools, `ToolInv` says who owns a key (`OwnersInv`), that a request which left is that of its
key's row and its call no longer sends (`SentInv`), and that a result was produced by such a
request (`ResultsInv`); `ToolsSafe` follows. For payloads, a restore may put any
backup in the place of the database, so the invariant is stated for a database `d` and must
hold of the one in use and of each backup: `Sound(d)` relates its rows, pointers,
orphans and claims to what no restore rewinds, the keys, the journal and the clock.
`SoundKept` shows that any step keeps `Sound` of a database that stays put. With the writers under way
(`WritersInv`) this is `PayloadsInv`, which says of erasures what `PayloadsAreSafe` does.
What is stored needs `StoredInv` as well: whatever a
retained backup points to was not retired, or found without a row, before that backup
began (`Keeps`); this holds of the database in use (`RetainedInv`) and of each backup it
descends from (`LineageInv`, by `Past`: what such a backup says was retired is retired in whatever came after it). The floor of
the collector is never later than the start of a retained backup (`Floors`), so nothing that is kept
expires. A restore of a backup in the lineage makes one of these databases the one in use, so the
invariant holds for any number of them. After a restore, a new backup may point to what a backup that was
abandoned has retired, so nothing is known of that one's database: going back to it is what `forked` records.
For deletions, `DeletionsInv` has three parts. `DeletionInv` says of the tables and of the backup that
what the ledger calls erased is at no provider and of nobody who is there (`LedgerInv`; a restore exchanges the
tables, and wipes and pairings go on afterwards), and of the journal that it has whoever was erased and is
about to be. `ReceiptInv` adds that a request which is about to be refused is of a
person who is there, so with one request for each account a refusal cannot
write over a receipt. `CompaniesInv` is about locks: the companies a deletion has read are all those of its
account, no other deletion that erases holds one of them, and none of them needs the account (`HoldsCompanies`); whoever
changes a company that is held would have to lock it. It assumes that no restart has happened and that nobody joins
a company during their own deletion, which the code does not prevent (section 6). `DeletionsSafe` follows.

**ChannelResponsesProofs.** `ResponsesInv` describes a call at each statement (`Handler`):
once it has passed the checks before a claim, the claim of the request is its own (`ClaimantsInv`) and its answer the one
it was checked with; what Eve settled and what a claim says is the response of the call
that holds it (`SettledInv`). `ResponsesSafe` is "a request gets one response" and its companions.

**RoomsProofs**, of the conversations of trust: `TrustInv` says of each transaction which rows it holds (`LocksInv`,
`LocksItsGrant`) and what it therefore still knows: `Clearing`, `Opening` and `Using` are
the reads a transaction made under locks and has not yet written. Whoever owns the edge has
found every grant that is not revoked; an opening that shares it cannot meet the end of trust. From
it follow `TrustSafe` and `AnswersTrusted` for any transactions interleaved by statements. These two are
parts of `TasksAreSafe`, whose other part is about `AgentTasks`.

Of a team room: `RoomInv` is inductive for any number of late requests. An epoch that is over does not come back, and
names the members while it lasts (`EpochsInv`), which is `EpochsNameMembers`; whoever was erased has
neither a row nor access (`ForgottenInv`). `AudienceSafe` needs `KnownInv` as well: whoever is in the room, or is
invited with a request to join on its way, is known to the rows or to the departures, or is in `lost`.
A departure is taken off only when the homeserver said the person is out, and only another request under way can undo
that. A late join alone finds no invitation, and a late invitation alone lets nobody in; the two together bring the
person back, and are the one way into `lost` besides a failed join.

**WorkspaceRepositoryProofs.** `RepositoryInv` says that the one call between its swap of the head
and its commit is on the head with a new operation, of a member, at a later time (`TakesInv`), that the head
is the latest of finitely many revisions (`HeadInv`), and that a review still on the head found there what
it is about (`ReviewsInv`). From it follow `RepositorySafe`, `OnlyMembersPublish` and
`RevisionPromiseKept`: `RevisionPromise` under the mapping that lists the revisions in
the order of their times, whose end is the head because each commit is later than the head it
replaces. The place of a revision is the number of those before it, and that each place up to their number has
exactly one revision is an invariant of its own (`OrderInv`), since a commit takes the place after the last.

| Only model-checked | Why |
|---|---|
| the four properties of `progress` | liveness under fairness is outside the prover's reach |
| `DeliveriesAreSafe`, the part of `TasksAreSafe` about `AgentTasks` | not proved yet |
| `AccountsAreSafe` | not proved yet |
| `SchedulesAreSafe`, `ReportsAreSafe` | the first is arithmetic on calendars, checked for every change of the clocks; the second not proved yet |
| `MemoryIsSafe`, `ArchiveIsSafe`, `PlansAreSafe` | not proved yet; the last holds of the faults its scenes allow (section 6) |

## 6. Disagreements between code and documentation

Three are runs: TLC finds the violation, and `PROJECT.json` quotes the comment,
document or test that the code contradicts. The others are stated here with the
instance that shows them; the passing runs avoid each by the instance or by a condition of
the property.

| Finding | What happens | Shown by |
|---|---|---|
| `scheduled-agent-jobs.ts:252` | a second attempt whose process stops during its dispatch is never reclaimed: the reclaim wants a row without a session | run `workers_stranded` |
| `timing.ts:172` | where the clocks skip the last hour of a date (America/Nuuk, Saturday 23:00), a weekly run of Saturday 23:30 is skipped for a week: the weekday is tested after the candidate was moved to the next date | run `timing_midnight` |
| `deletion.ts:281` | a deletion that was rolled back has its record in the journal, and the next start erases the account without asking whether it is a sole administrator | run `erasure_replay` |
| `identity.ts:18` | a retry that reuses the session of a slow first dispatch, asks and is answered resumes under the dead lease of the first attempt and never ends | `RunSettles`, 2 attempts, 1 question, `Faults = {}`, an answer |
| `scheduled-agent-jobs.ts:570` | a worker woken by its background task that has nothing to report stays running | `RunSettles`, 1 delegation |
| `scheduled-agent-jobs.ts:545` | the end of an answer erases the deferral that the answered turn has recorded, and an interim message completes the run | `InterimIsNotFinal` without `seq = 0`, a question and a delegation |
| `payloads/collection.ts:42` | a restored row that was retired keeps its time, although a newer backup may point to its object: backup 1, retirement, backup 2, restore of 1, backup 3, restore of 2 | `BackupsAreRecoverable`, `Objects = {o1}`, `LastTime = 4`, 3 backups, 2 restores; `PayloadsAreSafe` excepts it (`forked`) |
| `a2a/delivery.ts:64` | a process that stops between the native acceptance and the binding leaves a session that a cancellation never reaches | `CancellationIsDurable`, `Faults = {"crash"}` |
| `matrix/inputs.ts:217` | a second attempt at a reply finds the question resolved by that very reply and tells the room that it authorized nothing | `NoticesAreRejections`, 2 attempts |
| `matrix/delivery.ts:210` | a notice and an answer share a transaction id; an answer after a lost notice is dropped by the homeserver and recorded as completed | `CompletedIsShown`, `Decisions = {}`, `Approvals = {}` |
| `matrix/rooms.ts:219` | a join whose commit is lost leaves a person in the room without a row, who receives every later answer | `RecipientsHaveAccess`, `Failing = {"join"}`; `AudienceIsSafe` excepts them (`lost`) |
| `scheduled-agent-jobs.ts:165` | a conversation edits a paused schedule while the page resumes it: active, without a next occurrence, for good | `ActiveHasNext` with a page, `MaxRevision = 3` |
| `team.ts:178` | a report in doubt survives the removal of its member, and a retry that an operator authorizes later sends it | `NothingStartsByItself` without the operator |
| `billing/webhook.ts:103` | an event that is repeated after a later one restores the plan that was ended | `UnpaidIsFree`, `Delivery = "any"` |
| `billing/webhook.ts:106` | the end of one of two subscriptions makes a paying subject free | `PaidIsEntitled`, 2 subscriptions |
| `billing/checkout.ts:172` | a read that fails counts as the free plan, and the checkout stores it over the paid one | `OnlyWebhooksChangePlans`, `"database"` |
| `deletion.ts:85` | a company that the person creates after the look of a deletion is not locked, and is left without an administrator | `CompanyKeepsAdmin`, `LateJoins = TRUE` |
| `deletion.ts:475` | a blocked request writes its receipt over that of another request which has deleted the account | `ReceiptsStoreExpiry`, two requests of one person |
| `deletion.ts:168` | a transfer to a person who has no place in the workspace leaves nobody who can manage the company | `CompanyIsManaged`, `Removals = Users` |
| `deletion.ts:557` | every start replays every record and sets what was erased back to pending | `ErasedStaysErased` of `AccountErasure` |
| `invocation.ts:124` | at the deadline the caller is told of a timeout and the call stays started, not uncertain | `UnknownIsUncertain` |
| `invocation.ts:26` | the wait for a slot is outside the total deadline | `EndsInBudget` |
| `knowledge/index.ts:277` | of two deliveries of one approval at the same time the later one is told that the proposal is missing | `ReviewRetriesAreIdempotent` |
| `workspaces/repository.ts:950` | a revision is stamped before it commits, so a view of a past instant may change | `RecordedViewsHold` |
| `workspaces/network.ts:97` | an invitation that is made and accepted while a block is between its first statement and its commit restores the trust the block has passed; a grant opened under it stays live, though every use of it is refused | `BlockedHasNoGrant` |

The formulas that only this table uses are kept in their modules ("Not kept").

Met while modelling, and not stated by any document:

- An answer route that stops between claim and finish leaves the run running; of
  two answers to successive questions the late finish of the first erases the
  second question; an answered turn that fails before the finish keeps the old
  question in the row. An answer that Eve took without saying so leaves a question
  that is waiting without a worker, or a worker without its row
  (`scheduled-run.ts:177`, `scheduled-agent-jobs.ts:513`). In each of these the worker has gone on past an answer:
  `QuestionsStand` excepts such runs (`overtaken`), and fails in `workers` if any of the three marks is left out.
- An invitation and a join of one person that both timed out may be carried out one after the other after the
  person left or was erased and the homeserver confirmed the departure (`matrix/membership.ts:132`). They are back in the
  room and receive its answers: who left, until the push of the join marks their row; who was erased, for good, since
  no row and no identity is left to mark (`matrix/inbound.ts:229`).
  `AudienceIsSafe` excepts them (`lost`).
- An inbox row whose session ended after the receipt (`durable-delivery.ts:118`), or
  whose artifacts are gone (`channel-session.ts:108`), is claimed every minute and
  blocks its identity. Identities that stay candidates without progress may fill the
  25 of a tick (`transport.ts:244`).
- A retry an operator authorized may be refused, and the row is then `failed`
  although the first copy was delivered (`messaging/index.ts:200`); `MessagePromise` allows this
  after an authorization only.
- A company whose administrators delete their accounts while the service restarts,
  with deletions that are rolled back or members who join late, may lose its last administrator
  (`erasure_replay` is the shortest case).
- The end of an account's Matrix identity blocks what leaves a room until the homeserver has
  let the person go; a person who never joined natively stays blocked, as
  `erasure-reconcile.test.ts:515` wants it.
- After the restore of a database an event that is captured again may find its
  older file under another number: the delivery of that namespace fails for good, and archives
  made before do not repair it. Files of a namespace that was made after the backup
  stay without an obligation to remove them.
- An opening whose transaction is rolled back after the homeserver made the room leaves that room
  for good: the next one has a new grant and a new alias, and only conversations that were
  committed are retired (`conversations.ts:125`). A bot that is hidden and shown again after the sweep has closed
  its conversation refuses to open another one until the grant expires (`conversations.ts:118`).
- A sixth message while five tasks are active makes `acceptProtocolTask` throw inside the
  transaction of the homeserver, which is refused as a whole and sent again (`network-delivery.ts:98`).
- `memory/evidence.ts:11` says that claims whose cited passage has changed are withheld; the
  code fails the whole recall.

## 7. What the models leave out

- *Data*: prompts, texts, formatting, parsing of webhooks and of provider
  answers, chunking of long texts, request hashes (abstracted to the request),
  paths and their validation, limits of size.
- *Queues*: the identity's other lane; several identities under the limit of 25
  candidates; several addresses of one identity; `inspect`, which only reads.
- *Rooms and tasks*: encrypted history, profiles and media of Matrix; limits on
  tasks and contexts; several rooms (their rows do not meet).
- *Reports*: the PostgreSQL deadlock between a dispatch and the removal of a member, which
  aborts one of them and changes nothing.
- *Schedules*: deletion by an account or a removed member (`AccountErasure`,
  `WorkspaceRepository` have the removal itself).
- *Channel accounts*: the cascade of an account's deletion, notices after a confirmation, conflicts of
  the ids of events.
- *Responses*: the revision of a request does not change; a claim in doubt is never answered
  again, by design.
- *Billing*: seats, prices, customers shared by subjects, events without metadata; the portal only
  reads.
- *Account deletion*: the erasure of rooms, payloads and memory, which is in `MatrixAudience`,
  `PrivatePayloads`, `LearnedMemory` and `SessionArchive`. Obligations of the vault are retried at starts
  only, as in the code.
- *Repository*: citations at fixed revisions, the generation of a workspace, grants,
  invitations, vault.
- *Trust*: networks of a company (access follows its membership), grants of external agents, what becomes of a task
  (`AgentTasks`), the approval of a destination, lists and reads, the expiry of invitations, deletion of an account.
- *Memory*: the verification of cited evidence (it may fail a change at any
  time, `Fails`), relations between claims, search, receipts of preference operations (the preference
  changes by comparing with the one that was read), loss of head and receipts together.
- *Archive*: several accounts in one tick (they share no row but the sequence), the owner of
  a session, one session's export; a rebuild is of all sessions of the person.
- *Eve*: external. Its sessions take messages in order, its turns end, a replay
  repeats what was not checkpointed; modelled from the calls and events this
  repository uses, and marked external in the map. So are the providers, the
  homeserver, Stripe, the object store and the backups of the database.

### Not modelled

The remaining components are interfaces, connectors, the instructions and tools of
the agent, the browser agent, evaluations, infrastructure and vendored code. They are most of the repository's
lines and hold no state of their own between two calls, or hand it to the parts above; what they do is rendering,
validation, single statements and calls of other services. `PROJECT.json` gives the reason for each.

## 8. Plan

Done: all parts of the inventory as models with safety, the promises of progress,
three abstract specifications, and proofs for runs, queues, tools, responses, trust, the
repository, payloads and team rooms. What follows is proofs:

1. `LearnedMemory`: `NothingIsForgotten` and `LineOnlyGrows` for any lines.
2. `MatrixDeliveries` and `AgentTasks`: `RetriesAgree` and `OneAnswerEach` for any number of
   attempts and deliverers.
3. Models of what is left of the parts: invitations and grants of a workspace, the replies a
   session writes to its channel, the connections of tools.
