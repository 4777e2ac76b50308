------------------------ MODULE MaintenanceScheduler ------------------------
(***************************************************************************)
(* When a vault's maintenance runs: the job table, the alarm or timer that *)
(* serves it, the drain that runs the jobs, and the two jobs themselves,   *)
(* blob collection and the flush of the health summary to the control      *)
(* plane.  Collection is abstracted to the deadlines of what it has to do. *)
(*                                                                         *)
(* serialized is the Node runtime: requests wait for the drain, the timer  *)
(* lives in memory, and after a crash the vault stays closed until a       *)
(* request opens it.  Otherwise it is the Durable Object: requests run     *)
(* while the drain waits for the bucket or the control plane, and the      *)
(* alarm is stored and delivered again.                                    *)
(***************************************************************************)
EXTENDS Integers, FiniteSets, FiniteSetsExt

CONSTANTS
  Runtimes,      \* the values of serialized to consider
  NoJob,
  GcBucket,      \* BLOB_GC_ALARM_BUCKET_MS
  FlushDelay,    \* DEFAULT_HEALTH_SUMMARY_FLUSH_DELAY_MS
  RetryMin,      \* MAINTENANCE_RETRY_MIN_MS
  RetryMax,      \* MAINTENANCE_RETRY_MAX_MS
  AlarmRetry,    \* ALARM_FAILURE_RETRY_MS
  SuspendDelay,  \* the hour collection waits when it may not collect
  Grace,         \* BLOB_GRACE_PERIOD
  Retention,     \* how long a version is kept
  WarnAfter,     \* ACTIVE_WITHOUT_RECENT_COMMIT_MS
  MaxDrained,    \* MAX_DRAINED_JOBS_PER_ALARM
  GcBatch,       \* GC_BATCH_SIZE
  MaxTime,       \* bound on the time that passes with nothing armed
  MaxRequest,    \* bound on the requests
  MaxFailure     \* bound on failures, refusals and crashes

ASSUME RuntimesAssumption == Runtimes \subseteq BOOLEAN

ASSUME DelayAssumption ==
  /\ {GcBucket, RetryMin, RetryMax, AlarmRetry, SuspendDelay} \subseteq Nat \ {0}
  /\ {FlushDelay, Grace, Retention, WarnAfter} \subseteq Nat
  /\ {MaxDrained, GcBatch} \subseteq Nat \ {0}

VARIABLES
  serialized,
  jobs,       \* maintenance_jobs: when each job is due, and its failures in a row
  armed,      \* the alarm or timer, or Unset
  waiting,    \* alarms that went off and have not begun to drain
  stage,      \* what the drain is doing
  at,         \* the clock as the drain read it
  left,       \* how many more jobs this drain may take
  listed,     \* the work the running collection asked the bucket to delete
  seen,       \* the summary the running flush has read
  scheduled,  \* HealthService.scheduledFlushAt, in memory
  changes,    \* the request that last changed the summary
  flushed,    \* the summary the control plane has
  warnAt,     \* when the summary will warn that nothing was committed
  work,       \* what collection has to do, and from when
  open,       \* the vault's coordinator runs
  forgotten,  \* history variable: jobs a crash kept from being written
  requests,   \* history variable: requests so far
  failures,   \* history variable: failures so far
  now

coordinator == <<jobs, armed, scheduled>>
drain == <<stage, at, left, listed, seen>>
tables == <<changes, flushed, warnAt, work>>
vars == <<serialized, coordinator, waiting, drain, tables, open, forgotten, requests,
          failures, now>>

Unset == -1

Key == {"blob_gc", "health_summary_flush"}

Time == Nat \cup {Unset}

Job == [due: Nat, retries: Nat]

Work == [id: Nat, due: Nat]

ASSUME JobAssumption == NoJob \notin Job

TypeOK ==
  /\ serialized \in BOOLEAN /\ open \in BOOLEAN
  /\ jobs \in [Key -> Job \cup {NoJob}]
  /\ armed \in Time /\ scheduled \in Time /\ warnAt \in Time
  /\ stage \in {"idle", "picking", "allowing", "deleting", "flushing"}
  /\ work \subseteq Work /\ listed \subseteq Work
  /\ seen \in [changes: Nat, warnAt: Time]
  /\ forgotten \subseteq Key
  /\ {waiting, at, left, changes, flushed, requests, failures, now} \subseteq Nat

Init ==
  /\ serialized \in Runtimes
  /\ jobs = [k \in Key |-> NoJob]
  /\ armed = Unset /\ scheduled = Unset /\ warnAt = Unset
  /\ stage = "idle" /\ at = 0 /\ left = 0 /\ listed = {}
  /\ seen = [changes |-> 0, warnAt |-> Unset]
  /\ changes = 0 /\ flushed = 0 /\ work = {}
  /\ open = TRUE /\ forgotten = {}
  /\ waiting = 0 /\ requests = 0 /\ failures = 0 /\ now = 0

-----------------------------------------------------------------------------
(* The job table *)

Queued(js) == {k \in Key: js[k] # NoJob}

EarliestDue(js) == Min({js[k].due : k \in Queued(js)})

\* maintenanceJobDueAt
DueAt(k, t) == IF k = "blob_gc" THEN ((t + GcBucket - 1) \div GcBucket) * GcBucket ELSE t

\* A job keeps the earlier of the times it was asked for.
Deferred(js, k, t) ==
  IF js[k] # NoJob /\ js[k].due <= DueAt(k, t)
  THEN js
  ELSE [js EXCEPT ![k] = [due |-> DueAt(k, t),
                          retries |-> IF js[k] = NoJob THEN 0 ELSE js[k].retries]]

\* Mutant: a job that is done is put off all the same.
RescheduledAlways(js, k, t) == [js EXCEPT ![k] = [due |-> DueAt(k, t), retries |-> 0]]

\* What a handler returned: when to run the job next, or that it is done.
Rescheduled(js, k, t) ==
  [js EXCEPT ![k] = IF t = Unset THEN NoJob ELSE [due |-> DueAt(k, t), retries |-> 0]]

Backoff(n) ==
  LET delay == RetryMin * 2 ^ (n - 1)
  IN IF delay \in 0 .. RetryMax THEN delay ELSE RetryMax

\* Mutant: a failed job is dropped.
Dropped(js, k) == [js EXCEPT ![k] = NoJob]

Retried(js, k) ==
  [js EXCEPT ![k] = [due |-> at + Backoff(@.retries + 1), retries |-> @.retries + 1]]

Rearmed(js) == IF Queued(js) = {} THEN Unset ELSE EarliestDue(js)

\* Mutant: an alarm that is set is left alone, also by an earlier job.
ArmedUnlessArmed(js) == IF armed = Unset THEN Rearmed(js) ELSE armed

\* defer arms the alarm again only if it changed the table.
ArmedAfter(js) == IF js = jobs THEN armed ELSE Rearmed(js)

\* Mutant: nothing is armed when the coordinator starts.
StartsUnarmed(a) == a

\* ensureArmed, with a the alarm that survived.
EnsuredArmed(a) ==
  IF Queued(jobs) # {} /\ (a = Unset \/ a > EarliestDue(jobs)) THEN EarliestDue(jobs) ELSE a

\* scheduleSummaryFlush trusts the time it remembers.
Remembered == scheduled # Unset /\ scheduled <= now + FlushDelay

\* readGcDeadlines and earliestGcDeadline
NextGcAt(w, t) ==
  LET earliest == Min({x.due : x \in w})
  IN IF w = {} THEN Unset ELSE IF earliest <= t THEN t ELSE earliest

\* scheduleNext, which reads the deadlines of all tables.
GcScheduled(w) == IF w = {} THEN jobs ELSE Deferred(jobs, "blob_gc", NextGcAt(w, now))

-----------------------------------------------------------------------------
(* Requests *)

\* On Node a request waits for the vault lock, which the drain holds.
Admitted ==
  /\ open /\ requests < MaxRequest
  /\ IF serialized THEN stage = "idle" ELSE stage # "picking"

Request == requests' = requests + 1

Announce(js) ==
  IF Remembered
  THEN jobs' = js /\ UNCHANGED scheduled
  ELSE /\ jobs' = Deferred(js, "health_summary_flush", now + FlushDelay)
       /\ scheduled' = now + FlushDelay

\* What a commit or a purge leaves behind: blobs it took into use need no
\* collection any more; what it replaced or dropped may need it, at once or
\* when its last version expires.
CommitTables ==
  /\ \E kept \in SUBSET work, dues \in {{}, {now}, {now + Retention}}:
       work' = kept \cup [id: {requests + 1}, due: dues]
  /\ changes' = requests + 1
  /\ warnAt' = now + WarnAfter
  /\ UNCHANGED flushed

Commit ==
  /\ Admitted /\ Request
  /\ CommitTables
  /\ Announce(GcScheduled(work'))
  /\ armed' = ArmedAfter(jobs')
  /\ forgotten' = {}
  /\ UNCHANGED <<serialized, waiting, drain, open, failures, now>>

\* An upload is staged; only its own deadline is scheduled.
Stage ==
  /\ Admitted /\ Request
  /\ work' = work \cup {[id |-> requests + 1, due |-> now + Grace]}
  /\ jobs' = Deferred(jobs, "blob_gc", now + Grace)
  /\ armed' = ArmedAfter(jobs')
  /\ forgotten' = forgotten \ {"blob_gc"}
  /\ UNCHANGED <<serialized, scheduled, waiting, drain, changes, flushed, warnAt, open,
                 failures, now>>

\* A repair drops rows and asks for a collection now.
Repair ==
  /\ Admitted /\ Request
  /\ work' \in SUBSET work
  /\ jobs' = Deferred(jobs, "blob_gc", now)
  /\ armed' = ArmedAfter(jobs')
  /\ forgotten' = forgotten \ {"blob_gc"}
  /\ UNCHANGED <<serialized, scheduled, waiting, drain, changes, flushed, warnAt, open,
                 failures, now>>

\* A socket opens or closes, a local vault is detached, a policy arrives.
Connect ==
  /\ Admitted /\ Request
  /\ changes' = requests + 1
  /\ Announce(jobs)
  /\ armed' = ArmedAfter(jobs')
  /\ forgotten' = forgotten \ {"health_summary_flush"}
  /\ UNCHANGED <<serialized, waiting, drain, flushed, warnAt, work, open, failures, now>>

-----------------------------------------------------------------------------
(* The alarm and the drain *)

\* A timer goes off whenever it is time; an alarm is not delivered while the
\* one before it is being handled.
Fire ==
  /\ open /\ armed # Unset /\ armed <= now
  /\ IF serialized THEN stage # "picking" ELSE stage = "idle" /\ waiting = 0
  /\ armed' = Unset
  /\ waiting' = waiting + 1
  /\ UNCHANGED <<serialized, jobs, scheduled, drain, tables, open, forgotten, requests,
                 failures, now>>

StartDrain ==
  /\ open /\ waiting > 0 /\ stage = "idle"
  /\ waiting' = waiting - 1
  /\ stage' = "picking"
  /\ at' = now
  /\ left' = MaxDrained
  /\ UNCHANGED <<serialized, coordinator, listed, seen, tables, open, forgotten, requests,
                 failures, now>>

DueJobs == {k \in Queued(jobs): jobs[k].due <= at}

\* The order of due_at, key.
Before(k, other) ==
  \/ jobs[k].due < jobs[other].due
  \/ jobs[k].due = jobs[other].due /\ k = "blob_gc"

\* Up to its first await, which the next job of the drain is part of.
\* readHealthSnapshot, one statement over all tables: the changes it covers, and
\* when time alone will make it worse.
HealthSnapshot == [changes |-> changes, warnAt |-> warnAt]

PickJob(k) ==
  /\ stage = "picking" /\ left > 0
  /\ k \in DueJobs /\ \A other \in DueJobs \ {k}: Before(k, other)
  /\ left' = left - 1
  /\ IF k = "blob_gc"
     THEN stage' = "allowing" /\ UNCHANGED seen
     ELSE /\ stage' = "flushing"
          /\ seen' = HealthSnapshot
  /\ UNCHANGED <<serialized, coordinator, waiting, at, listed, tables, open, forgotten,
                 requests, failures, now>>

EndDrain ==
  /\ stage = "picking" /\ (left = 0 \/ DueJobs = {})
  /\ armed' = Rearmed(jobs)
  /\ stage' = "idle" /\ at' = 0 /\ left' = 0
  /\ seen' = [changes |-> 0, warnAt |-> Unset]
  /\ UNCHANGED <<serialized, jobs, scheduled, waiting, listed, tables, open, forgotten,
                 requests, failures, now>>

-----------------------------------------------------------------------------
(* Collection *)

Failing == failures < MaxFailure /\ failures' = failures + 1

\* The run is over: the summary is flushed by this very drain, and the job is
\* put off to the next deadline.
Collected(w) ==
  LET deferred == Deferred(jobs, "health_summary_flush", at)
  IN /\ armed' = ArmedAfter(deferred)
     /\ jobs' = Rescheduled(deferred, "blob_gc", NextGcAt(w, at))
     /\ work' = w
     /\ listed' = {}
     /\ stage' = "picking"

GcAllowed ==
  /\ stage = "allowing"
  /\ LET due == {x \in work: x.due <= at}
     IN IF due = {}
        THEN Collected(work)
        ELSE /\ \E S \in SUBSET due:
                  /\ Cardinality(S) = Min({GcBatch, Cardinality(due)})
                  /\ listed' = S
             /\ stage' = "deleting"
             /\ UNCHANGED <<jobs, armed, work>>
  /\ UNCHANGED <<serialized, scheduled, waiting, at, left, seen, changes, flushed, warnAt,
                 open, forgotten, requests, failures, now>>

\* The organization's subscription does not allow collection now.
GcSuspended ==
  /\ stage = "allowing" /\ Failing
  /\ jobs' = Rescheduled(jobs, "blob_gc", at + SuspendDelay)
  /\ stage' = "picking"
  /\ UNCHANGED <<serialized, armed, scheduled, waiting, at, left, listed, seen, tables,
                 open, forgotten, requests, now>>

GcSucceeds ==
  /\ stage = "deleting"
  /\ Collected(work \ listed)
  /\ UNCHANGED <<serialized, scheduled, waiting, at, left, seen, changes, flushed, warnAt,
                 open, forgotten, requests, failures, now>>

\* The control plane does not answer, or the bucket fails for some blobs.
GcFails ==
  /\ stage \in {"allowing", "deleting"} /\ Failing
  /\ \E done \in SUBSET listed:
       /\ stage = "deleting" => done # listed
       /\ work' = work \ done
  /\ jobs' = Retried(jobs, "blob_gc")
  /\ listed' = {}
  /\ stage' = "picking"
  /\ UNCHANGED <<serialized, armed, scheduled, waiting, at, left, seen, changes, flushed,
                 warnAt, open, forgotten, requests, now>>

-----------------------------------------------------------------------------
(* The health summary *)

\* nextHealthSummaryFlushAt: when time alone will change the summary.
NextFlushAt == IF seen.warnAt > at THEN seen.warnAt ELSE Unset

\* Mutant: the time of this flush stays remembered.
StillRemembered == scheduled

RememberedAfterFlush == NextFlushAt

FlushSucceeds ==
  /\ stage = "flushing"
  /\ flushed' = seen.changes
  /\ scheduled' = RememberedAfterFlush
  /\ jobs' = Rescheduled(jobs, "health_summary_flush", NextFlushAt)
  /\ stage' = "picking"
  /\ UNCHANGED <<serialized, armed, waiting, at, left, listed, seen, changes, warnAt, work,
                 open, forgotten, requests, failures, now>>

\* The row may have been written although the answer was lost.
FlushFails ==
  /\ stage = "flushing" /\ Failing
  /\ flushed' \in {flushed, seen.changes}
  /\ scheduled' = Unset
  /\ jobs' = Retried(jobs, "health_summary_flush")
  /\ stage' = "picking"
  /\ UNCHANGED <<serialized, armed, waiting, at, left, listed, seen, changes, warnAt, work,
                 open, forgotten, requests, now>>

-----------------------------------------------------------------------------
(* Failures of the runtime *)

\* The alarm handler throws, before the drain or between two jobs.
AlarmFails ==
  /\ open /\ Failing
  /\ \/ stage = "idle" /\ waiting > 0 /\ waiting' = waiting - 1
     \/ stage = "picking" /\ UNCHANGED waiting
  /\ armed' = now + AlarmRetry
  /\ stage' = "idle" /\ at' = 0 /\ left' = 0
  /\ seen' = [changes |-> 0, warnAt |-> Unset]
  /\ UNCHANGED <<serialized, jobs, scheduled, listed, tables, open, forgotten, requests,
                 now>>

\* What is in memory is lost.
Restart ==
  /\ scheduled' = Unset
  /\ stage' = "idle" /\ at' = 0 /\ left' = 0 /\ listed' = {}
  /\ seen' = [changes |-> 0, warnAt |-> Unset]

CrashNode ==
  /\ serialized /\ open /\ Failing
  /\ Restart
  /\ armed' = Unset /\ waiting' = 0
  /\ open' = FALSE
  /\ UNCHANGED <<serialized, jobs, tables, forgotten, requests, now>>

\* Each statement commits on its own: the process dies after the commit and
\* before one of the jobs it calls for is in the table.
CrashDuringCommit ==
  /\ serialized /\ Admitted /\ Request /\ Failing
  /\ CommitTables
  /\ \/ /\ UNCHANGED jobs
        /\ forgotten' = Key
     \/ /\ jobs' = GcScheduled(work')
        /\ forgotten' = {"health_summary_flush"}
  /\ Restart
  /\ armed' = Unset /\ waiting' = 0
  /\ open' = FALSE
  /\ UNCHANGED <<serialized, now>>

\* Any request creates the coordinator of its vault.
OpenVault ==
  /\ ~open
  /\ open' = TRUE
  /\ armed' = EnsuredArmed(Unset)
  /\ UNCHANGED <<serialized, jobs, scheduled, waiting, drain, tables, forgotten, requests,
                 failures, now>>

\* An object that is evicted or fails starts again; the alarm it was handling
\* is delivered again.
RestartObject ==
  /\ ~serialized /\ stage # "picking" /\ Failing
  /\ Restart
  /\ waiting' = IF stage = "idle" THEN waiting ELSE 1
  /\ armed' = EnsuredArmed(armed)
  /\ UNCHANGED <<serialized, jobs, tables, open, forgotten, requests, now>>

Tick ==
  /\ stage # "picking"
  /\ now < MaxTime \/ armed > now
  /\ now' = now + 1
  /\ UNCHANGED <<serialized, coordinator, waiting, drain, tables, open, forgotten, requests,
                 failures>>

-----------------------------------------------------------------------------

Requests == Commit \/ Stage \/ Repair \/ Connect

Alarms == Fire \/ StartDrain \/ (\E k \in Key: PickJob(k)) \/ EndDrain

Answers == GcAllowed \/ GcSucceeds \/ FlushSucceeds

Failures ==
  GcSuspended \/ GcFails \/ FlushFails \/ AlarmFails \/ CrashNode \/ CrashDuringCommit
    \/ RestartObject

Next == Requests \/ Alarms \/ Answers \/ Failures \/ OpenVault \/ Tick

Spec == Init /\ [][Next]_vars

\* The clock runs, timers go off, a drain goes on, and the bucket and the
\* control plane answer.  Nobody has to send a request or open a vault.
Fairness ==
  /\ WF_vars(Tick)
  /\ WF_vars(Fire)
  /\ WF_vars(StartDrain)
  /\ WF_vars(\E k \in Key: PickJob(k))
  /\ WF_vars(EndDrain)
  /\ WF_vars(Answers)

FairSpec == Spec /\ Fairness

-----------------------------------------------------------------------------
(* Properties *)

CollectionCovered ==
  work # {} /\ stage \notin {"allowing", "deleting"} /\ "blob_gc" \notin forgotten =>
    /\ jobs["blob_gc"] # NoJob
    /\ \/ \E t \in {NextGcAt(work, now), now + SuspendDelay, now + Grace}:
            jobs["blob_gc"].due <= DueAt("blob_gc", t)
       \/ jobs["blob_gc"].due <= now + RetryMax

SummaryCovered ==
  serialized /\ flushed # changes /\ "health_summary_flush" \notin forgotten =>
    /\ jobs["health_summary_flush"] # NoJob
    /\ \/ jobs["health_summary_flush"].due <= now + FlushDelay
       \/ jobs["health_summary_flush"].due <= now + RetryMax

\* Whatever is due is scheduled.  As long as there is something to collect, the
\* collection job is in the table, and it is not later than the work needs or
\* a failure or a refusal put it off, or than the deadline of the upload that
\* asked for it.  As long as a Node vault has a change the control plane has not
\* seen, the flush is in the table, no later than the delay of a flush or of a
\* retry, although scheduleSummaryFlush trusts the time it remembers and does
\* not look.  A crash of the Node process between a commit and its job is the
\* exception, until the job is asked for again (maintenance-scheduler.ts:28-52,
\* 183-204, mutation-service.ts:257-260, health-service.ts:33-83).
JobsCoverWork == CollectionCovered /\ SummaryCovered

\* Between drains an alarm is set for the first job, or to retry a failed one,
\* whoever armed it last (maintenance-scheduler.ts:82-105,
\* node-maintenance-scheduler.ts:84-131).
AlarmCoversJobs ==
  open /\ stage = "idle" /\ waiting = 0 /\ Queued(jobs) # {} =>
    /\ armed # Unset
    /\ armed <= EarliestDue(jobs) \/ armed <= now + AlarmRetry

\* Everything there is to collect is collected in the end, if the vault stays
\* open (maintenance-service.ts:15-35, blob-gc-service.ts:79-130).
WorkIsCollected ==
  \A n \in 1 .. MaxRequest:
    (\E x \in work: x.id = n) ~>
      ((\A x \in work: x.id # n) \/ ~open \/ "blob_gc" \in forgotten)

\* Every change reaches the control plane in the end, if the vault stays open:
\* "the health summary observes the new connection"
\* (socket-connection-service.ts:29-37, health-service.ts:33-83).
SummaryCatchesUp ==
  \A n \in 1 .. MaxRequest:
    changes = n ~> (flushed >= n \/ ~open \/ "health_summary_flush" \in forgotten)

\* On Node, where no request runs between the reading of a summary and the end
\* of its flush, that is so.
SummaryCatchesUpOnNode == serialized => SummaryCatchesUp
=============================================================================
