----------------------------- MODULE MCWorkspace -----------------------------
(***************************************************************************)
(* What people and agents do in a workspace: ScheduleTiming, ScheduledJobs, *)
(* NativeReports, ToolInvocations, WorkspaceRepository and LearnedMemory on *)
(* small instances.  A behaviour is a scene of one component while the others     *)
(* keep still.                                                              *)
(***************************************************************************)
EXTENDS ToolInvocations, Integers, TLC

CONSTANTS
    x1, x2,        \* two calls with the same request, two lease tokens
    c3, c4, c5,    \* other calls
    e, p           \* an editor of schedules, a page that shows them

VARIABLES
    scene, clock,
    timing, at, ran,
    job, runs, edit, seen, since,
    rows, active, held, drain, late, copies, run, seal, read, member,
    head, revision, members, basis, saved, publisher, stamp, viewed,
    memory, edits, replied, capable, asked, archives, backup, restores, known, indexed, heard

-----------------------------------------------------------------------------
\* Days of six hours of two units; the clocks change on the third day of a week,
\* by one hour or half of one, and not over midnight.
Day == 12
Hour == 2
Zones ==
    {zone \in [change : (16 * Day)..(17 * Day - 1), before : {-5, 0, 4}, after : -7..6] :
        /\ zone.after - zone.before \in {-2, -1, 1, 2}
        /\ \/ zone.after < zone.before
           \/ (zone.change + zone.before) \div Day = (zone.change + zone.after - 1 + Hour) \div Day}
Calendar(f, days) ==
    {[kind |-> "calendar", frequency |-> f, wall |-> wall, weekday |-> d, zone |-> z] :
        wall \in 0..(Day - 1), d \in days, z \in Zones}

Timing == INSTANCE ScheduleTiming WITH
    Timings <- Calendar("daily", {0}) \cup Calendar("weekdays", {0}) \cup Calendar("weekly", 1..3)
               \cup {[kind |-> "interval", anchor |-> a, every |-> n] : a \in {0, 181}, n \in {1, 7, 12}}
               \cup {[kind |-> "once", at |-> a] : a \in {180, 181, 230}},
    Starts <- {15 * Day, 15 * Day + 5}, End <- 228

\* A timing that goes on, another one, and a single occurrence.
JobTimings == {{1, 2, 4, 6}, {3, 5, 7}, {2}}

Edited == INSTANCE ScheduledJobs WITH
    Timings <- JobTimings, Policy <- "catch_up", Editors <- {e}, Pages <- {},
    MaxTime <- 5, MaxRevision <- 2, now <- clock

Paged == INSTANCE ScheduledJobs WITH
    Timings <- JobTimings, Policy <- "catch_up", Editors <- {e}, Pages <- {p},
    MaxTime <- 4, MaxRevision <- 2, now <- clock

Latest == INSTANCE ScheduledJobs WITH
    Timings <- JobTimings, Policy <- "run_latest", Editors <- {e}, Pages <- {},
    MaxTime <- 5, MaxRevision <- 2, now <- clock

\* A question and an outcome, of one chunk or two, sent by one drain.
Reports == INSTANCE NativeReports WITH
    Lane <- "outbox", MaxRows <- 2, Tokens <- {x1, x2}, Contents <- {}, MaxRetries <- 1,
    Drains <- {"d"}, Faults <- {"refused", "answer_lost"},
    Runs <- {"r"}, Sizes <- {1, 2}, MaxReports <- 2

\* ToolInvocations: three calls of one key, one of them with other arguments, and another key.
ToolKey == [c \in Calls |-> IF c = c4 THEN "k2" ELSE "k1"]
ToolRequest == [c \in Calls |-> IF c = c3 THEN "r2" ELSE "r1"]

\* Two deliveries of one save, and a save of another member.
Saves == INSTANCE WorkspaceRepository WITH
    Calls <- {x1, x2, c3}, Operations <- {"first", "second"},
    Operation <- x1 :> "first" @@ x2 :> "first" @@ c3 :> "second",
    Kind <- [o \in {"first", "second"} |-> "save"],
    Author <- "first" :> "member" @@ "second" :> "guest",
    Files <- {"f1", "f2"}, Path <- [o \in {"first", "second"} |-> "f1"],
    Sources <- [o \in {"first", "second"} |-> {}], Draft <- [o \in {"first", "second"} |-> o],
    Users <- {"owner", "member", "guest"}, Managers <- {"owner"},
    MaxTime <- 2, Faults <- {"crash", "storage", "clock"},
    told <- saved

\* A save, a proposal that depends on it, two deliveries of an approval, a rejection.
Steps == {"save", "propose", "approve", "reject"}
Reviews == INSTANCE WorkspaceRepository WITH
    Calls <- {x1, x2, c3, c4, c5}, Operations <- Steps,
    Operation <- c3 :> "save" @@ c4 :> "propose" @@ x1 :> "approve" @@ x2 :> "approve" @@ c5 :> "reject",
    Kind <- [o \in Steps |-> o],
    Author <- [o \in Steps |-> IF o \in {"save", "propose"} THEN "member" ELSE "owner"],
    Files <- {"f1", "f2"}, Path <- [o \in Steps |-> IF o = "save" THEN "f1" ELSE "f2"],
    Sources <- [o \in Steps |-> IF o = "propose" THEN {"f1"} ELSE {}],
    Draft <- [o \in Steps |-> "propose"],
    Users <- {"owner", "member", "guest"}, Managers <- {"owner"}, MaxTime <- 0, Faults <- {},
    told <- saved

\* What the proofs about the repository assume.
ASSUME RepositoryAssumption == Saves!RepositoryConstants /\ Reviews!RepositoryConstants

\* Two things to remember, asserted, corrected, forgotten and reversed.
Remembered == INSTANCE LearnedMemory WITH
    Calls <- {x1, x2}, Claims <- {c3, c4}, Operations <- 1..3, Recalls <- {},
    MaxLine <- 3, MaxPreferences <- 1, MaxNamespaces <- 1, MaxArchives <- 0, MaxRestores <- 0,
    Events <- {}, call <- edits, told <- replied

\* Recalls, while memory is switched off and on.
Pauses == INSTANCE LearnedMemory WITH
    Calls <- {x1, x2}, Claims <- {c3}, Operations <- 1..2, Recalls <- {"q"},
    MaxLine <- 2, MaxPreferences <- 3, MaxNamespaces <- 1, MaxArchives <- 0, MaxRestores <- 0,
    Events <- {"capability"}, call <- edits, told <- replied

\* Rows, payloads and answers are lost; an archive repairs.
Repairs == INSTANCE LearnedMemory WITH
    Calls <- {x1, x2}, Claims <- {c3}, Operations <- 1..2, Recalls <- {},
    MaxLine <- 2, MaxPreferences <- 1, MaxNamespaces <- 1, MaxArchives <- 1, MaxRestores <- 0,
    Events <- {"projection", "payload", "answer_lost"}, call <- edits, told <- replied

\* The memory is erased, and an older database restored.
Returns == INSTANCE LearnedMemory WITH
    Calls <- {x1, x2}, Claims <- {c3}, Operations <- 1..2, Recalls <- {},
    MaxLine <- 2, MaxPreferences <- 1, MaxNamespaces <- 2, MaxArchives <- 1, MaxRestores <- 1,
    Events <- {"database"}, call <- edits, told <- replied

timingOnly == <<timing, ran>>
jobOnly == <<job, runs, edit, seen, since>>
reportOnly == <<rows, active, held, drain, late, copies, run, seal, read, member>>
repositoryOnly == <<head, revision, members, basis, saved, publisher, stamp, viewed>>
memoryOnly == <<memory, edits, replied, capable, asked, archives, backup, restores, known, indexed, heard>>
vars == <<scene, clock, at, timingOnly, jobOnly, reportOnly, toolVars, repositoryOnly, memoryOnly>>

NoTiming == timing = None /\ ran = FALSE
NoJobs == job = None /\ runs = {} /\ edit = None /\ seen = None /\ since = 0
NoReports == /\ rows = <<>> /\ active = FALSE /\ held = <<>> /\ drain = <<>> /\ late = <<>>
             /\ copies = <<>> /\ run = <<>> /\ seal = <<>> /\ read = <<>> /\ member = FALSE
NoRepository == /\ head = None /\ revision = None /\ members = {} /\ basis = None /\ saved = None
                /\ publisher = None /\ stamp = 0 /\ viewed = None
NoMemory == /\ memory = None /\ edits = None /\ replied = None /\ capable = FALSE /\ asked = None
            /\ archives = {} /\ backup = None /\ restores = 0 /\ known = <<>> /\ indexed = FALSE
            /\ heard = None

Init ==
    /\ ToolInit
    /\ \/ /\ scene = "timing" /\ Timing!TimingInit
          /\ clock = 0 /\ NoJobs /\ NoReports /\ NoRepository /\ NoMemory
       \/ /\ \/ scene \in {"edited", "latest"} /\ Edited!JobInit
             \/ scene = "paged" /\ Paged!JobInit
          /\ at = 0 /\ NoTiming /\ NoReports /\ NoRepository /\ NoMemory
       \/ /\ scene = "reports" /\ Reports!NativeInit
          /\ clock = 0 /\ at = 0 /\ NoTiming /\ NoJobs /\ NoRepository /\ NoMemory
       \/ /\ scene = "tools"
          /\ clock = 0 /\ at = 0 /\ NoTiming /\ NoJobs /\ NoReports /\ NoRepository /\ NoMemory
       \/ /\ \/ scene = "saves" /\ Saves!RepositoryInit
             \/ scene = "reviews" /\ Reviews!RepositoryInit
          /\ NoTiming /\ NoJobs /\ NoReports /\ NoMemory
       \/ /\ \/ scene = "remembered" /\ Remembered!MemoryInit
             \/ scene = "pauses" /\ Pauses!MemoryInit
             \/ scene = "repairs" /\ Repairs!MemoryInit
             \/ scene = "returns" /\ Returns!MemoryInit
          /\ clock = 0 /\ at = 0 /\ NoTiming /\ NoJobs /\ NoReports /\ NoRepository

Next ==
    \/ /\ scene = "timing" /\ Timing!Runs
       /\ UNCHANGED <<scene, clock, jobOnly, reportOnly, toolVars, repositoryOnly, memoryOnly>>
    \/ /\ \/ scene = "edited" /\ Edited!JobNext
          \/ scene = "paged" /\ Paged!JobNext
          \/ scene = "latest" /\ Latest!JobNext
       /\ UNCHANGED <<scene, at, timingOnly, reportOnly, toolVars, repositoryOnly, memoryOnly>>
    \/ /\ scene = "reports" /\ Reports!NativeNext
       /\ UNCHANGED <<scene, clock, at, timingOnly, jobOnly, toolVars, repositoryOnly, memoryOnly>>
    \/ /\ scene = "tools" /\ ToolNext
       /\ UNCHANGED <<scene, clock, at, timingOnly, jobOnly, reportOnly, repositoryOnly, memoryOnly>>
    \/ /\ \/ scene = "saves" /\ Saves!RepositoryNext
          \/ scene = "reviews" /\ Reviews!RepositoryNext
       /\ UNCHANGED <<scene, timingOnly, jobOnly, reportOnly, toolVars, memoryOnly>>
    \/ /\ \/ scene = "remembered" /\ Remembered!MemoryNext
          \/ scene = "pauses" /\ Pauses!MemoryNext
          \/ scene = "repairs" /\ Repairs!MemoryNext
          \/ scene = "returns" /\ Returns!MemoryNext
       /\ UNCHANGED <<scene, clock, at, timingOnly, jobOnly, reportOnly, toolVars, repositoryOnly>>

Spec == Init /\ [][Next]_vars

Symmetry == Permutations({x1, x2})

-----------------------------------------------------------------------------
\* ScheduleTiming: a calendar schedule keeps its local time when the clocks change, and
\* none of its times passes without a run; an interval keeps its anchor; and at a run,
\* until the next, that run is the latest.  ScheduledJobs: an active schedule has a next
\* occurrence, with catch_up none is lost, with run_latest only the latest missed one is
\* run, and a page pauses or resumes the schedule that it shows.
SchedulesAreSafe ==
    /\ [](scene = "timing" =>
            /\ Timing!KeepsLocalTime
            /\ Timing!LatestIsTheLastRun
            /\ Timing!IntervalsKeepTheirAnchor)
    /\ [][scene = "timing" =>
            Timing!NothingIsPassed /\ Timing!OncePerDate /\ Timing!EveryWeek]_vars
    /\ [](scene = "edited" => Edited!JobTypeOK /\ Edited!ActiveHasNext)
    /\ [](scene = "paged" => Paged!JobTypeOK /\ Paged!NothingOwedIsLost)
    /\ [](scene = "latest" => Latest!JobTypeOK)
    /\ [][scene = "paged" => Paged!PagesChangeWhatTheyShow]_vars
    /\ [][scene = "latest" => Latest!OnlyTheLatestIsRun]_vars

\* NativeReports: a report is called delivered, failed or cancelled only when its chunks
\* can make it nothing else, and nothing is sent of the reports of a removed member but
\* what an operator authorizes.
ReportsAreSafe ==
    /\ [](scene = "reports" => Reports!NativeTypeOK /\ Reports!ReceiptsAreTrue)
    /\ [][scene = "reports" => Reports!NothingStartsByItself]_vars

\* WorkspaceRepository: an operation is published once, and who is told a revision is told
\* that of the same request; recorded times follow the line of the revisions; what is
\* approved is as it was proposed and decided once; and nobody publishes after their removal.
RepositoryIsSafe ==
    /\ [](scene = "saves" =>
            /\ Saves!RepositoryTypeOK
            /\ Saves!OperationsOnce
            /\ Saves!AnswersAreTrue
            /\ Saves!StampsFollow)
    /\ [](scene = "reviews" =>
            /\ Reviews!RepositoryTypeOK
            /\ Reviews!HistoryIsALine
            /\ Reviews!ReviewedAsWritten
            /\ Reviews!DecidedOnce)
    /\ [][scene = "saves" => Saves!RemovedDoNotPublish]_vars

\* LearnedMemory: an operation is in the line of a memory once, and whoever was told finds
\* it; what was forgotten or erased stays so; nothing is learned while memory is paused, and
\* the retry of a recall hears what the first one did; lost rows and bytes, archives and
\* restored databases neither roll the line back nor fork it.
MemoryIsSafe ==
    /\ [](scene = "remembered" =>
            Remembered!MemoryTypeOK /\ Remembered!OperationsOnce /\ Remembered!ForgottenStays)
    /\ [](scene = "pauses" => Pauses!MemoryTypeOK /\ Pauses!OneAnswerPerRecall)
    /\ [](scene = "repairs" =>
            /\ Repairs!MemoryTypeOK
            /\ Repairs!OperationsOnce
            /\ Repairs!ForgottenStays
            /\ Repairs!NothingIsForgotten)
    /\ [](scene = "returns" =>
            /\ Returns!MemoryTypeOK
            /\ Returns!OperationsOnce
            /\ Returns!NothingIsForgotten
            /\ Returns!ErasedStaysErased)
    /\ [][scene = "pauses" => Pauses!PausedLearnsNothing]_vars
    /\ [][scene = "repairs" => Repairs!LineOnlyGrows]_vars
    /\ [][scene = "returns" => Returns!LineOnlyGrows]_vars

\* WorkspaceRepository implements RevisionPromise.
KeepsRevisionPromise ==
    /\ scene = "saves" => Saves!Promise!PromisedInit
    /\ [][scene = "saves" => Saves!KeepsRevisionPromise]_vars
=============================================================================
