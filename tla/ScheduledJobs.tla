---------------------------- MODULE ScheduledJobs ----------------------------
(***************************************************************************)
(* db/services/scheduled-agent-jobs.ts and server/schedules/manage.ts: the  *)
(* row of a schedule, which the minute schedule turns into runs while its   *)
(* owner changes it in a conversation, which reads first and writes later,   *)
(* or on the page of reminders, which changes what it saw or nothing.        *)
(*                                                                         *)
(* One schedule.  A timing is the set of its occurrences, as ScheduleTiming  *)
(* computes them; a timing without end has one after MaxTime.                *)
(***************************************************************************)
EXTENDS Naturals, FiniteSets

CONSTANTS
    Timings,     \* the timings an owner may choose, as sets of instants
    Policy,      \* missedRunPolicy: "catch_up" or "run_latest"
    Editors,     \* conversations that update the schedule
    Pages,       \* pages of reminders that show it
    None,
    MaxTime,     \* bound on the time that passes
    MaxRevision  \* bound on the changes

VARIABLES
    now,         \* the clock
    job,         \* the row of scheduled_agent_jobs
    runs,        \* scheduled_agent_runs: the occurrences that have one
    edit,        \* what each editor read, and the change it is about to write
    seen,        \* the row each page shows; it sends back its revision
    since        \* history: the occurrences after this instant are owed

jobVars == <<now, job, runs, edit, seen, since>>

Statuses == {"active", "paused", "completed", "deleted"}
Job == [status : Statuses, next : Nat \cup {None}, timing : Timings, revision : 0..MaxRevision]
Patch == [status : {"active", "paused", "deleted", None}, timing : Timings \cup {None}]
Edit == [read : Job, patch : Patch, at : Nat]

JobTypeOK ==
    /\ now \in 0..MaxTime /\ job \in Job /\ runs \subseteq 0..now
    /\ edit \in [Editors -> Edit \cup {None}]
    /\ seen \in [Pages -> Job] /\ since \in 0..MaxTime

After(s, t) == {o \in s : o > t}
Least(s) == CHOOSE o \in s : \A u \in s : o <= u
NextRun(s, t) == IF After(s, t) = {} THEN None ELSE Least(After(s, t))

\* createScheduledAgentJob.
JobInit ==
    /\ now = 0 /\ runs = {} /\ since = 0
    /\ \E s \in Timings :
         /\ NextRun(s, 0) # None
         /\ job = [status |-> "active", next |-> NextRun(s, 0), timing |-> s, revision |-> 0]
    /\ edit = [e \in Editors |-> None] /\ seen = [p \in Pages |-> job]

Passes == now < MaxTime /\ now' = now + 1 /\ UNCHANGED <<job, runs, edit, seen, since>>

(***************************************************************************)
(* The minute schedule: materializeDueScheduledAgentRuns                    *)
(***************************************************************************)

\* Mutant of Due: a minute is waited for to be over.
DueLate(j) == j.status = "active" /\ j.next # None /\ j.next < now
Due(j) == j.status = "active" /\ j.next # None /\ j.next <= now

\* Mutant of ScheduledFor: whatever was missed is run late.
ScheduledForNext(j) == j.next
\* computeLatestRun of a stored timing that has no occurrence yet falls back.
ScheduledFor(j) ==
    IF Policy = "catch_up" \/ \A o \in j.timing : o > now THEN j.next
    ELSE CHOOSE o \in j.timing : o <= now /\ \A u \in j.timing : u > now \/ u <= o

Advanced(j, o) ==
    [j EXCEPT !.next = NextRun(j.timing, o),
              !.status = IF NextRun(j.timing, o) = None THEN "completed" ELSE "active"]

Materializes ==
    /\ Due(job)
    /\ runs' = runs \cup {ScheduledFor(job)}
    /\ job' = Advanced(job, ScheduledFor(job))
    /\ UNCHANGED <<now, edit, seen, since>>

(***************************************************************************)
(* The conversation: updateScheduledAgentJob, in two statements             *)
(***************************************************************************)

Reads(e, patch) ==
    /\ edit[e] = None /\ job.status # "deleted" /\ job.revision < MaxRevision
    /\ edit' = [edit EXCEPT ![e] = [read |-> job, patch |-> patch, at |-> now]]
    /\ UNCHANGED <<now, job, runs, seen, since>>

Else(value, other) == IF value = None THEN other ELSE value

Recomputes(m) ==
    \/ m.patch.timing # None
    \/ m.patch.status = "active" /\ m.read.status # "active"

NextOf(m) ==
    CASE Else(m.patch.status, m.read.status) # "active" -> None
      [] Else(m.patch.status, m.read.status) = "active" /\ Recomputes(m) ->
           NextRun(Else(m.patch.timing, m.read.timing), m.at)
      [] OTHER -> m.read.next

\* "That schedule has no future occurrence."
Refused(m) == Else(m.patch.status, m.read.status) = "active" /\ NextOf(m) = None

Updated(m) ==
    [status |-> Else(m.patch.status, job.status), next |-> NextOf(m),
     timing |-> Else(m.patch.timing, m.read.timing), revision |-> job.revision + 1]

Writes(e) ==
    /\ edit[e] # None /\ edit' = [edit EXCEPT ![e] = None]
    /\ \/ Refused(edit[e]) /\ UNCHANGED <<job, since>>
       \/ /\ ~Refused(edit[e]) /\ job.revision < MaxRevision
          /\ job' = Updated(edit[e])
          /\ since' = IF Recomputes(edit[e]) THEN edit[e].at ELSE since
    /\ UNCHANGED <<now, runs, seen>>

(***************************************************************************)
(* The page of reminders: setReminderStatus, on the locked row               *)
(***************************************************************************)

Looks(p) ==
    /\ job.status # "deleted" /\ seen' = [seen EXCEPT ![p] = job]
    /\ UNCHANGED <<now, job, runs, edit, since>>

Unchanged(p) == job.status # "deleted" /\ seen[p].revision = job.revision

SetsStatus(p, status) ==
    LET next == IF status = "active" THEN NextRun(job.timing, now) ELSE None
    IN /\ Unchanged(p) /\ job.revision < MaxRevision
       /\ status = "active" => next # None
       /\ job' = [job EXCEPT !.status = status, !.next = next, !.revision = @ + 1]
       /\ since' = IF status = "active" THEN now ELSE since
       /\ UNCHANGED <<now, runs, edit, seen>>

JobNext ==
    \/ Passes \/ Materializes
    \/ \E e \in Editors : Writes(e) \/ \E patch \in Patch : Reads(e, patch)
    \/ \E p \in Pages : Looks(p) \/ \E status \in {"active", "paused"} : SetsStatus(p, status)

JobSpec == JobInit /\ [][JobNext]_jobVars

JobFairness == WF_jobVars(Materializes)

-----------------------------------------------------------------------------
(***************************************************************************)
(* Properties                                                               *)
(***************************************************************************)

\* A schedule that is active has a next occurrence: the code refuses any change
\* that would leave it without one.
ActiveHasNext == job.status = "active" => job.next # None

\* With catch_up no occurrence is lost: those before the next one, since the
\* timing was chosen or the schedule resumed, have a run.
NothingOwedIsLost ==
    job.status = "active" /\ job.next # None /\ Policy = "catch_up" =>
        {o \in job.timing : since < o /\ o < job.next} \subseteq runs

\* With run_latest what was missed while the tick did not run is run once, for the
\* latest occurrence of the timing; older ones are not run late.
OnlyTheLatestIsRun ==
    Policy = "run_latest" => \A o \in runs' \ runs : \A u \in job.timing : u <= o \/ u > now

\* An occurrence that is due is run, unless the schedule is changed
\* meanwhile.
DueIsRun ==
    \A o \in 0..MaxTime, r \in 0..MaxRevision :
        (job.status = "active" /\ job.next = o /\ o <= now /\ job.revision = r)
            ~> (o \in runs \/ (Policy = "run_latest" /\ \E u \in runs : u > o) \/ job.revision # r)

\* A page changes what it shows: since it was read nobody chose another timing,
\* paused or resumed the schedule; at most the schedule ran for the last time.
PagesChangeWhatTheyShow ==
    \A p \in Pages, status \in {"active", "paused"} :
        SetsStatus(p, status) =>
            job.timing = seen[p].timing /\ job.status \in {seen[p].status, "completed"}
=============================================================================
