-------------------- MODULE MaintenanceScheduler_proofs --------------------
(***************************************************************************)
(* What holds of the scheduler for any delays, batch sizes and number of   *)
(* requests and failures, in either runtime.                               *)
(***************************************************************************)
EXTENDS MaintenanceScheduler, WellFoundedInduction, TLAPS

-----------------------------------------------------------------------------
(* Times *)

LEMMA Delays ==
  /\ GcBucket \in Nat \ {0} /\ RetryMin \in Nat \ {0} /\ RetryMax \in Nat \ {0}
  /\ AlarmRetry \in Nat \ {0} /\ SuspendDelay \in Nat \ {0} /\ MaxDrained \in Nat \ {0}
  /\ FlushDelay \in Nat /\ Grace \in Nat /\ Retention \in Nat /\ WarnAfter \in Nat
PROOF BY DelayAssumption

LEMMA MinOfNats ==
  ASSUME NEW S \in SUBSET Nat, S # {}
  PROVE  Min(S) \in S /\ \A n \in S: Min(S) <= n
<1>1. PICK m \in S: \A n \in S: ~(<<n, m>> \in OpToRel(<, Nat))
  BY WFMin, NatLessThanWellFounded, Zenon
<1>2. \A n \in S: ~(n < m)
  BY <1>1, Zenon DEF OpToRel
<1>3. \A n \in S: m <= n
  BY <1>2
<1> QED
  BY <1>3 DEF Min

LEMMA DueAtType ==
  ASSUME NEW k \in Key, NEW t \in Nat
  PROVE  DueAt(k, t) \in Nat
<1>1. (t + GcBucket - 1) \div GcBucket \in Nat
  BY Delays
<1> DEFINE q == (t + GcBucket - 1) \div GcBucket
<1>2. q * GcBucket \in Nat
  <2> HIDE DEF q
  <2> QED  BY <1>1, Delays DEF q
<1> QED
  BY <1>1, <1>2 DEF DueAt

LEMMA DueAtMonotone ==
  ASSUME NEW k \in Key, NEW s \in Nat, NEW t \in Nat, s <= t
  PROVE  DueAt(k, s) <= DueAt(k, t)
<1> DEFINE low == (s + GcBucket - 1) \div GcBucket
           high == (t + GcBucket - 1) \div GcBucket
<1>1. low \in Nat /\ high \in Nat /\ low <= high
  BY Delays
<1>2. low * GcBucket <= high * GcBucket
  <2> HIDE DEF low, high
  <2> QED  BY <1>1, Delays
<1> QED
  BY <1>2 DEF DueAt

LEMMA BackoffBound ==
  ASSUME NEW n \in Nat
  PROVE  Backoff(n) \in Nat /\ Backoff(n) <= RetryMax
<1> DEFINE delay == RetryMin * 2 ^ (n - 1)
<1>1. Backoff(n) = IF delay \in 0 .. RetryMax THEN delay ELSE RetryMax
  BY DEF Backoff
<1> HIDE DEF delay
<1> QED
  BY <1>1, Delays

\* The earliest deadline, but not before t.
LEMMA NextGcAtType ==
  ASSUME NEW w \in SUBSET Work, w # {}, NEW t \in Nat
  PROVE  NextGcAt(w, t) \in Nat
<1> DEFINE S == {x.due : x \in w}
<1>1. S \in SUBSET Nat /\ S # {}
  BY DEF Work
<1>2. Min(S) \in Nat
  BY <1>1, MinOfNats
<1> QED
  BY <1>2 DEF NextGcAt

LEMMA NextGcAtMonotone ==
  ASSUME NEW w \in SUBSET Work, w # {}, NEW s \in Nat, NEW t \in Nat, s <= t
  PROVE  NextGcAt(w, s) <= NextGcAt(w, t)
<1> DEFINE S == {x.due : x \in w}
<1>1. S \in SUBSET Nat /\ S # {}
  BY DEF Work
<1>2. Min(S) \in Nat
  BY <1>1, MinOfNats
<1>3. \A u: NextGcAt(w, u) = IF Min(S) <= u THEN u ELSE Min(S)
  BY DEF NextGcAt
<1> HIDE DEF S
<1> QED
  BY <1>2, <1>3

-----------------------------------------------------------------------------
(* The job table *)

JobTable == [Key -> Job \cup {NoJob}]

LEMMA EarliestDueFirst ==
  ASSUME NEW js \in JobTable, Queued(js) # {}
  PROVE  /\ EarliestDue(js) \in Nat
         /\ \A k \in Queued(js): EarliestDue(js) <= js[k].due
<1> DEFINE S == {js[k].due : k \in Queued(js)}
<1>1. S \in SUBSET Nat /\ S # {}
  BY DEF JobTable, Queued, Job
<1>2. Min(S) \in S /\ \A n \in S: Min(S) <= n
  BY <1>1, MinOfNats
<1> QED
  BY <1>1, <1>2 DEF EarliestDue

LEMMA DeferredFacts ==
  ASSUME NEW js \in JobTable, NEW k \in Key, NEW t \in Nat
  PROVE  /\ Deferred(js, k, t) \in JobTable
         /\ Deferred(js, k, t)[k] # NoJob
         /\ Deferred(js, k, t)[k].due <= DueAt(k, t)
         /\ js[k] # NoJob => Deferred(js, k, t)[k].due <= js[k].due
         /\ \A other \in Key \ {k}: Deferred(js, k, t)[other] = js[other]
<1>1. DueAt(k, t) \in Nat
  BY DueAtType
<1>2. CASE js[k] # NoJob /\ js[k].due <= DueAt(k, t)
  <2>1. js[k].due \in Nat
    BY <1>2 DEF JobTable, Job
  <2> QED
    BY <1>2, <2>1 DEF Deferred
<1>3. CASE ~(js[k] # NoJob /\ js[k].due <= DueAt(k, t))
  <2> DEFINE row == [due |-> DueAt(k, t),
                     retries |-> IF js[k] = NoJob THEN 0 ELSE js[k].retries]
  <2>1. Deferred(js, k, t) = [js EXCEPT ![k] = row]
    BY <1>3, Zenon DEF Deferred
  <2>2. row \in Job
    BY <1>1 DEF JobTable, Job
  <2>3. row # NoJob /\ row.due = DueAt(k, t)
    BY <2>2, JobAssumption
  <2>4. js[k] # NoJob => DueAt(k, t) <= js[k].due
    BY <1>1, <1>3 DEF JobTable, Job
  <2> HIDE DEF row
  <2> QED
    BY <1>1, <2>1, <2>2, <2>3, <2>4 DEF JobTable
<1> QED
  BY <1>2, <1>3

LEMMA RescheduledFacts ==
  ASSUME NEW js \in JobTable, NEW k \in Key, NEW t \in Time
  PROVE  /\ Rescheduled(js, k, t) \in JobTable
         /\ t # Unset => /\ Rescheduled(js, k, t)[k] # NoJob
                         /\ Rescheduled(js, k, t)[k].due = DueAt(k, t)
         /\ \A other \in Key \ {k}: Rescheduled(js, k, t)[other] = js[other]
<1>1. CASE t = Unset
  BY <1>1 DEF Rescheduled, JobTable
<1>2. CASE t # Unset
  <2> DEFINE row == [due |-> DueAt(k, t), retries |-> 0]
  <2>1. Rescheduled(js, k, t) = [js EXCEPT ![k] = row]
    BY <1>2, Zenon DEF Rescheduled
  <2>2. row \in Job
    BY <1>2, DueAtType DEF Job, Time
  <2>3. row # NoJob /\ row.due = DueAt(k, t)
    BY <2>2, JobAssumption
  <2> HIDE DEF row
  <2> QED
    BY <2>1, <2>2, <2>3 DEF JobTable
<1> QED
  BY <1>1, <1>2

LEMMA RetriedFacts ==
  ASSUME NEW js \in JobTable, NEW k \in Key, js[k] # NoJob, at \in Nat
  PROVE  /\ Retried(js, k) \in JobTable
         /\ Retried(js, k)[k] # NoJob
         /\ Retried(js, k)[k].due <= at + RetryMax
         /\ \A other \in Key \ {k}: Retried(js, k)[other] = js[other]
<1> DEFINE n == js[k].retries + 1
           row == [due |-> at + Backoff(n), retries |-> n]
<1>1. n \in Nat
  BY DEF JobTable, Job
<1>2. Backoff(n) \in Nat /\ Backoff(n) <= RetryMax
  BY <1>1, BackoffBound
<1>3. Retried(js, k) = [js EXCEPT ![k] = row]
  BY DEF Retried, JobTable
<1> HIDE DEF n
<1>4. row \in Job /\ row.due = at + Backoff(n)
  BY <1>1, <1>2 DEF Job
<1>5. row # NoJob /\ row.due <= at + RetryMax
  BY <1>2, <1>4, Delays, JobAssumption
<1> HIDE DEF row
<1> QED
  BY <1>3, <1>4, <1>5 DEF JobTable

\* ks has every job that js has, and none of them later.
Advances(js, ks) ==
  \A k \in Key: js[k] # NoJob => ks[k] # NoJob /\ ks[k].due <= js[k].due

LEMMA DeferredAdvances ==
  ASSUME NEW js \in JobTable, NEW k \in Key, NEW t \in Nat
  PROVE  Advances(js, Deferred(js, k, t))
<1> SUFFICES ASSUME NEW other \in Key, js[other] # NoJob
             PROVE  /\ Deferred(js, k, t)[other] # NoJob
                    /\ Deferred(js, k, t)[other].due <= js[other].due
  BY DEF Advances
<1>1. js[other].due \in Nat
  BY DEF JobTable, Job
<1>2. CASE other = k
  BY <1>2, DeferredFacts
<1>3. CASE other # k
  <2>1. Deferred(js, k, t)[other] = js[other]
    BY <1>3, DeferredFacts
  <2> QED
    BY <1>1, <2>1
<1> QED
  BY <1>2, <1>3

LEMMA AdvancesReflexive ==
  ASSUME NEW js \in JobTable
  PROVE  Advances(js, js)
PROOF BY DEF Advances, JobTable, Job

LEMMA AdvancesTransitive ==
  ASSUME NEW js \in JobTable, NEW ks \in JobTable, NEW ls \in JobTable,
         Advances(js, ks), Advances(ks, ls)
  PROVE  Advances(js, ls)
PROOF BY DEF Advances, JobTable, Job

LEMMA RearmedType ==
  ASSUME NEW js \in JobTable
  PROVE  Rearmed(js) \in Time
PROOF BY EarliestDueFirst DEF Rearmed, Time

LEMMA ArmedAfterType ==
  ASSUME TypeOK, NEW js \in JobTable
  PROVE  ArmedAfter(js) \in Time
PROOF BY RearmedType DEF ArmedAfter, TypeOK

LEMMA EnsuredArmedFacts ==
  ASSUME TypeOK, NEW a \in Time
  PROVE  /\ EnsuredArmed(a) \in Time
         /\ Queued(jobs) # {} =>
              EnsuredArmed(a) # Unset /\ EnsuredArmed(a) <= EarliestDue(jobs)
<1>1. jobs \in JobTable
  BY DEF TypeOK, JobTable
<1>2. CASE Queued(jobs) = {}
  BY <1>2 DEF EnsuredArmed
<1>3. CASE Queued(jobs) # {}
  <2>1. EarliestDue(jobs) \in Nat
    BY <1>1, <1>3, EarliestDueFirst
  <2> QED
    BY <1>3, <2>1 DEF EnsuredArmed, Time, Unset
<1> QED
  BY <1>2, <1>3

-----------------------------------------------------------------------------
(* What requests do to the table *)

\* The collection job is asked for no later than the work needs.
LEMMA GcScheduledFacts ==
  ASSUME TypeOK, NEW w \in SUBSET Work
  PROVE  /\ GcScheduled(w) \in JobTable
         /\ Advances(jobs, GcScheduled(w))
         /\ w # {} =>
              /\ GcScheduled(w)["blob_gc"] # NoJob
              /\ GcScheduled(w)["blob_gc"].due <= DueAt("blob_gc", NextGcAt(w, now))
<1>1. jobs \in JobTable /\ now \in Nat /\ "blob_gc" \in Key
  BY DEF TypeOK, JobTable, Key
<1>2. CASE w = {}
  BY <1>1, <1>2, AdvancesReflexive DEF GcScheduled
<1>3. CASE w # {}
  <2>1. NextGcAt(w, now) \in Nat
    BY <1>1, <1>3, NextGcAtType
  <2>2. GcScheduled(w) = Deferred(jobs, "blob_gc", NextGcAt(w, now))
    BY <1>3 DEF GcScheduled
  <2> QED
    BY <1>1, <2>1, <2>2, DeferredFacts, DeferredAdvances
<1> QED
  BY <1>2, <1>3

LEMMA AnnounceFacts ==
  ASSUME TypeOK, NEW js \in JobTable, Announce(js)
  PROVE  /\ jobs' \in JobTable
         /\ scheduled' \in Time
         /\ Advances(js, jobs')
         /\ jobs'["blob_gc"] = js["blob_gc"]
<1>1. now + FlushDelay \in Nat
  BY Delays DEF TypeOK
<1>2. CASE Remembered
  BY <1>2, AdvancesReflexive DEF Announce, TypeOK
<1>3. CASE ~Remembered
  <2> DEFINE ks == Deferred(js, "health_summary_flush", now + FlushDelay)
  <2>1. jobs' = ks /\ scheduled' = now + FlushDelay
    BY <1>3 DEF Announce
  <2>2. ks \in JobTable /\ Advances(js, ks) /\ ks["blob_gc"] = js["blob_gc"]
    BY ZenonT(90), <1>1, DeferredFacts, DeferredAdvances DEF Key
  <2> QED
    BY <1>1, <2>1, <2>2 DEF Time
<1> QED
  BY <1>2, <1>3

LEMMA CommitTablesType ==
  ASSUME TypeOK, CommitTables
  PROVE  work' \in SUBSET Work /\ changes' \in Nat /\ warnAt' \in Nat /\ flushed' \in Nat
<1>1. PICK kept \in SUBSET work, dues \in {{}, {now}, {now + Retention}}:
        work' = kept \cup [id: {requests + 1}, due: dues]
  BY DEF CommitTables
<1>2. dues \subseteq Nat /\ requests + 1 \in Nat
  BY Delays DEF TypeOK
<1>3. [id: {requests + 1}, due: dues] \subseteq Work
  BY <1>2 DEF Work
<1> QED
  BY <1>1, <1>2, <1>3, Delays DEF TypeOK, CommitTables

\* No request puts a job off.
LEMMA RequestsAdvance ==
  ASSUME TypeOK, Requests
  PROVE  /\ jobs' \in JobTable /\ Advances(jobs, jobs')
         /\ armed' = ArmedAfter(jobs')
         /\ scheduled' \in Time
<1>1. /\ jobs \in JobTable /\ scheduled \in Time
      /\ now \in Nat /\ now + Grace \in Nat /\ "blob_gc" \in Key
  BY Delays DEF TypeOK, JobTable, Key
<1>2. CASE Commit
  <2>1. work' \in SUBSET Work
    BY <1>2, CommitTablesType DEF Commit
  <2>2. GcScheduled(work') \in JobTable /\ Advances(jobs, GcScheduled(work'))
    BY <2>1, GcScheduledFacts
  <2> QED
    BY <1>1, <1>2, <2>2, AnnounceFacts, AdvancesTransitive DEF Commit
<1>3. CASE Stage
  BY <1>1, <1>3, DeferredFacts, DeferredAdvances DEF Stage
<1>4. CASE Repair
  BY <1>1, <1>4, DeferredFacts, DeferredAdvances DEF Repair
<1>5. CASE Connect
  BY <1>1, <1>5, AnnounceFacts DEF Connect
<1> QED
  BY <1>2, <1>3, <1>4, <1>5 DEF Requests

-----------------------------------------------------------------------------
(* A drain serves a job that is in the table *)

Serving ==
  /\ at <= now
  /\ stage \in {"allowing", "deleting"} =>
       jobs["blob_gc"] # NoJob /\ jobs["blob_gc"].due <= at
  /\ stage = "flushing" => jobs["health_summary_flush"] # NoJob

TypedServing == TypeOK /\ Serving

\* A request leaves the drain alone and advances the job it serves.
LEMMA ServingRequests ==
  ASSUME TypedServing, Requests
  PROVE  TypedServing'
<1>1. /\ jobs' \in JobTable /\ Advances(jobs, jobs') /\ scheduled' \in Time
      /\ armed' = ArmedAfter(jobs')
  BY RequestsAdvance DEF TypedServing
<1>2. armed' \in Time
  BY <1>1, ArmedAfterType DEF TypedServing
<1>3. /\ requests' = requests + 1
      /\ UNCHANGED <<serialized, waiting, drain, open, failures, now>>
      /\ forgotten' \subseteq forgotten
  BY DEF Requests, Commit, Stage, Repair, Connect, Request
<1>4. work' \subseteq Work /\ changes' \in Nat /\ warnAt' \in Time /\ flushed' \in Nat
  <2>1. CASE Commit
    BY <2>1, CommitTablesType DEF Commit, TypedServing, Time
  <2>2. CASE Stage
    <3>1. [id |-> requests + 1, due |-> now + Grace] \in Work
      BY Delays DEF Work, TypedServing, TypeOK
    <3> QED
      BY <2>2, <3>1 DEF Stage, TypedServing, TypeOK
  <2>3. CASE Repair
    BY <2>3 DEF Repair, TypedServing, TypeOK
  <2>4. CASE Connect
    BY <2>4 DEF Connect, TypedServing, TypeOK
  <2> QED
    BY <2>1, <2>2, <2>3, <2>4 DEF Requests
<1>5. TypeOK'
  BY <1>1, <1>2, <1>3, <1>4 DEF TypedServing, TypeOK, JobTable, drain
<1>6. Serving'
  <2>1. \A k \in Key: jobs[k] # NoJob => jobs'[k] # NoJob /\ jobs'[k].due <= jobs[k].due
    BY <1>1 DEF Advances
  <2>2. \A k \in Key: /\ jobs[k] # NoJob => jobs[k].due \in Nat
                      /\ jobs'[k] # NoJob => jobs'[k].due \in Nat
    BY <1>1 DEF TypedServing, TypeOK, JobTable, Job
  <2> QED
    BY <1>3, <2>1, <2>2 DEF TypedServing, Serving, TypeOK, drain, Key
<1> QED
  BY <1>5, <1>6 DEF TypedServing

LEMMA ServingAlarms ==
  ASSUME TypedServing, Alarms
  PROVE  TypedServing'
<1> USE DEF TypedServing
<1>1. CASE Fire
  BY <1>1 DEF Fire, TypeOK, Serving, Time, drain, tables
<1>2. CASE StartDrain
  BY <1>2, Delays DEF StartDrain, TypeOK, Serving, coordinator, tables
<1>3. ASSUME NEW k \in Key, PickJob(k) PROVE TypedServing'
  <2>1. jobs[k] # NoJob /\ jobs[k].due <= at
    BY <1>3 DEF PickJob, HealthSnapshot, DueJobs, Queued
  <2>2. TypeOK'
    BY <1>3 DEF PickJob, HealthSnapshot, TypeOK, coordinator, tables
  <2>3. Serving'
    BY <1>3, <2>1 DEF PickJob, HealthSnapshot, TypeOK, Serving, Key, coordinator
  <2> QED
    BY <2>2, <2>3
<1>4. CASE EndDrain
  <2>1. armed' \in Time
    BY <1>4, RearmedType DEF EndDrain, TypeOK, JobTable
  <2>2. TypeOK'
    BY <1>4, <2>1 DEF EndDrain, TypeOK, tables, Time
  <2>3. Serving'
    BY <1>4 DEF EndDrain, TypeOK, Serving
  <2> QED
    BY <2>2, <2>3
<1> QED
  BY <1>1, <1>2, <1>3, <1>4 DEF Alarms

\* At the end of a collection the flush is due, and the collection is
\* scheduled for what is left.
LEMMA CollectedFacts ==
  ASSUME TypedServing, NEW w \in SUBSET work, Collected(w)
  PROVE  /\ jobs' \in JobTable /\ armed' \in Time
         /\ w # {} => /\ jobs'["blob_gc"] # NoJob
                      /\ jobs'["blob_gc"].due = DueAt("blob_gc", NextGcAt(w, at))
<1> DEFINE deferred == Deferred(jobs, "health_summary_flush", at)
<1>1. /\ jobs \in JobTable /\ at \in Nat /\ w \in SUBSET Work
      /\ Key = {"blob_gc", "health_summary_flush"}
  BY DEF TypedServing, TypeOK, JobTable, Key
<1>2. deferred \in JobTable
  BY <1>1, DeferredFacts
<1>3. NextGcAt(w, at) \in Time /\ (w # {} => NextGcAt(w, at) \in Nat)
  <2>1. w = {} => NextGcAt(w, at) = Unset
    BY DEF NextGcAt
  <2>2. w # {} => NextGcAt(w, at) \in Nat
    BY <1>1, NextGcAtType
  <2> QED
    BY <2>1, <2>2 DEF Time
<1>4. jobs' = Rescheduled(deferred, "blob_gc", NextGcAt(w, at)) /\ armed' = ArmedAfter(deferred)
  BY DEF Collected
<1>5. w # {} => NextGcAt(w, at) # Unset
  BY <1>3 DEF Unset
<1> HIDE DEF deferred
<1> QED
  BY ZenonT(90), <1>1, <1>2, <1>3, <1>4, <1>5, RescheduledFacts, ArmedAfterType DEF TypedServing

LEMMA ServingAnswers ==
  ASSUME TypedServing, Answers
  PROVE  TypedServing'
<1> USE DEF TypedServing
<1>1. CASE GcAllowed
  <2> DEFINE due == {x \in work: x.due <= at}
  <2>1. CASE due = {}
    <3>1. Collected(work)
      BY <1>1, <2>1 DEF GcAllowed
    <3>2. jobs' \in JobTable /\ armed' \in Time
      BY <3>1, CollectedFacts
    <3> QED
      BY <1>1, <3>1, <3>2 DEF GcAllowed, Collected, TypeOK, Serving, JobTable
  <2>2. CASE due # {}
    <3>1. /\ listed' \in SUBSET due /\ stage' = "deleting" /\ UNCHANGED <<jobs, armed, work>>
      BY <1>1, <2>2 DEF GcAllowed
    <3>2. listed' \subseteq Work
      BY <3>1 DEF TypeOK
    <3> QED
      BY <1>1, <3>1, <3>2 DEF GcAllowed, TypeOK, Serving
  <2> QED
    BY <2>1, <2>2
<1>2. CASE GcSucceeds
  <2>1. jobs' \in JobTable /\ armed' \in Time
    BY <1>2, CollectedFacts DEF GcSucceeds
  <2> QED
    BY <1>2, <2>1 DEF GcSucceeds, Collected, TypeOK, Serving, JobTable
<1>3. CASE FlushSucceeds
  <2>1. NextFlushAt \in Time
    BY DEF NextFlushAt, TypeOK, Time
  <2>2. jobs' \in JobTable
    BY <1>3, <2>1, RescheduledFacts DEF FlushSucceeds, TypeOK, JobTable, Key
  <2> QED
    BY <1>3, <2>1, <2>2 DEF FlushSucceeds, RememberedAfterFlush, TypeOK, Serving, JobTable
<1> QED
  BY <1>1, <1>2, <1>3 DEF Answers

LEMMA RestartType ==
  ASSUME Restart
  PROVE  /\ Unset \in Time /\ scheduled' \in Time
         /\ stage' = "idle" /\ at' = 0 /\ left' = 0 /\ listed' = {}
         /\ seen' \in [changes: Nat, warnAt: Time]
PROOF BY DEF Restart, Time, Unset

LEMMA ServingFailures ==
  ASSUME TypedServing, Failures
  PROVE  TypedServing'
<1> USE DEF TypedServing
<1>1. CASE GcSuspended
  <2>1. at + SuspendDelay \in Time /\ jobs \in JobTable /\ "blob_gc" \in Key
    BY Delays DEF TypeOK, Time, JobTable, Key
  <2>2. jobs' \in JobTable
    BY <1>1, <2>1, RescheduledFacts DEF GcSuspended
  <2> QED
    BY <1>1, <2>2 DEF GcSuspended, Failing, TypeOK, Serving, JobTable, tables
<1>2. CASE GcFails
  <2>1. jobs' \in JobTable
    BY <1>2, RetriedFacts DEF GcFails, Serving, TypeOK, JobTable, Key
  <2>2. work' \subseteq Work
    BY <1>2 DEF GcFails, TypeOK
  <2> QED
    BY <1>2, <2>1, <2>2 DEF GcFails, Failing, TypeOK, Serving, JobTable
<1>3. CASE FlushFails
  <2>1. jobs' \in JobTable
    BY <1>3, RetriedFacts DEF FlushFails, Serving, TypeOK, JobTable, Key
  <2>2. flushed' \in Nat /\ scheduled' \in Time
    BY <1>3 DEF FlushFails, TypeOK, Time
  <2> QED
    BY <1>3, <2>1, <2>2 DEF FlushFails, Failing, TypeOK, Serving, JobTable
<1>4. CASE AlarmFails
  <2>1. armed' \in Time /\ waiting' \in Nat
    BY <1>4, Delays DEF AlarmFails, TypeOK, Time
  <2> QED
    BY <1>4, <2>1 DEF AlarmFails, Failing, TypeOK, Serving, tables, Time
<1>5. CASE CrashNode
  <2>1. /\ Restart /\ failures' = failures + 1 /\ armed' = Unset /\ waiting' = 0
        /\ UNCHANGED <<serialized, jobs, tables, forgotten, requests, now>>
    BY <1>5, Zenon DEF CrashNode, Failing
  <2>2. open' \in BOOLEAN
    BY <1>5, Zenon DEF CrashNode
  <2> QED
    BY <2>1, <2>2, RestartType DEF TypeOK, Serving, tables
<1>6. CASE CrashDuringCommit
  <2>1. work' \in SUBSET Work /\ changes' \in Nat /\ warnAt' \in Nat /\ flushed' \in Nat
    BY <1>6, CommitTablesType DEF CrashDuringCommit
  <2>2. jobs' \in JobTable /\ forgotten' \subseteq Key
    BY <1>6, <2>1, GcScheduledFacts DEF CrashDuringCommit, TypeOK, JobTable, Key
  <2>3. /\ Restart /\ failures' = failures + 1 /\ requests' = requests + 1
        /\ armed' = Unset /\ waiting' = 0 /\ UNCHANGED <<serialized, now>>
    BY <1>6, Zenon DEF CrashDuringCommit, Request, Failing
  <2>4. open' \in BOOLEAN
    BY <1>6, Zenon DEF CrashDuringCommit
  <2> QED
    BY <2>1, <2>2, <2>3, <2>4, RestartType DEF TypeOK, Serving, JobTable, Time
<1>7. CASE RestartObject
  <2>1. armed' \in Time /\ waiting' \in Nat
    BY <1>7, EnsuredArmedFacts DEF RestartObject, TypeOK
  <2> QED
    BY <1>7, <2>1, RestartType DEF RestartObject, Failing, TypeOK, Serving, tables
<1> QED
  BY <1>1, <1>2, <1>3, <1>4, <1>5, <1>6, <1>7 DEF Failures

LEMMA ServingNext ==
  ASSUME TypedServing, [Next]_vars
  PROVE  TypedServing'
<1>1. CASE OpenVault
  <2>1. armed' \in Time
    BY <1>1, EnsuredArmedFacts DEF OpenVault, TypedServing, Time
  <2> QED
    BY <1>1, <2>1 DEF OpenVault, TypedServing, TypeOK, Serving, drain, tables
<1>2. CASE Tick
  BY <1>2 DEF Tick, TypedServing, TypeOK, Serving, coordinator, drain, tables
<1>3. CASE UNCHANGED vars
  BY <1>3 DEF vars, TypedServing, TypeOK, Serving, coordinator, drain, tables
<1> QED
  BY <1>1, <1>2, <1>3, ServingRequests, ServingAlarms, ServingAnswers, ServingFailures DEF Next

LEMMA ServingInit ==
  ASSUME Init
  PROVE  TypedServing
<1>1. jobs \in [Key -> Job \cup {NoJob}]
  BY DEF Init
<1> QED
  BY <1>1, RuntimesAssumption DEF Init, TypedServing, TypeOK, Serving, Time, Unset, Work

LEMMA ServingAlways == Spec => []TypedServing
PROOF BY ServingInit, ServingNext, PTL DEF Spec

\* The tables, the alarm and the drain keep their types: above all, a job that
\* is put off after a failure is still in the table, whatever requests did
\* while it ran (maintenance-scheduler.ts:54-80, 206-231).
THEOREM SchedulerTyping == Spec => []TypeOK
<1>1. TypedServing => TypeOK
  BY DEF TypedServing
<1> QED
  BY <1>1, ServingAlways, PTL

-----------------------------------------------------------------------------
(* The alarm *)

LEMMA AlarmRequests ==
  ASSUME TypedServing, AlarmCoversJobs, Requests
  PROVE  AlarmCoversJobs'
<1>1. jobs' \in JobTable /\ armed' = ArmedAfter(jobs')
  BY RequestsAdvance DEF TypedServing
<1>2. UNCHANGED <<waiting, stage, open, now>>
  BY DEF Requests, Commit, Stage, Repair, Connect, drain
<1>3. CASE jobs' = jobs
  BY <1>1, <1>2, <1>3 DEF ArmedAfter, AlarmCoversJobs, Queued, EarliestDue
<1>4. CASE jobs' # jobs
  <2> SUFFICES ASSUME Queued(jobs') # {}
               PROVE  armed' # Unset /\ armed' <= EarliestDue(jobs')
    BY DEF AlarmCoversJobs
  <2>1. armed' = EarliestDue(jobs')
    BY <1>1, <1>4 DEF ArmedAfter, Rearmed
  <2>2. EarliestDue(jobs') \in Nat
    BY <1>1, EarliestDueFirst
  <2> QED
    BY <2>1, <2>2 DEF Unset
<1> QED
  BY <1>3, <1>4

LEMMA AlarmAlarms ==
  ASSUME TypedServing, AlarmCoversJobs, Alarms
  PROVE  AlarmCoversJobs'
<1>1. CASE Fire
  <2>1. waiting' # 0
    BY <1>1 DEF Fire, TypedServing, TypeOK
  <2> QED
    BY <2>1 DEF AlarmCoversJobs
<1>2. CASE StartDrain
  BY <1>2 DEF StartDrain, AlarmCoversJobs
<1>3. ASSUME NEW k \in Key, PickJob(k) PROVE AlarmCoversJobs'
  BY <1>3 DEF PickJob, HealthSnapshot, AlarmCoversJobs
<1>4. CASE EndDrain
  <2> SUFFICES ASSUME Queued(jobs) # {}
               PROVE  armed' # Unset /\ armed' <= EarliestDue(jobs)
    BY <1>4 DEF EndDrain, AlarmCoversJobs, EarliestDue, Queued
  <2>1. armed' = EarliestDue(jobs)
    BY <1>4 DEF EndDrain, Rearmed
  <2>2. EarliestDue(jobs) \in Nat
    BY EarliestDueFirst DEF TypedServing, TypeOK, JobTable
  <2> QED
    BY <2>1, <2>2 DEF Unset
<1> QED
  BY <1>1, <1>2, <1>3, <1>4 DEF Alarms

LEMMA AlarmFailures ==
  ASSUME TypedServing, AlarmCoversJobs, Failures
  PROVE  AlarmCoversJobs'
<1>1. CASE GcSuspended \/ GcFails \/ FlushFails
  BY <1>1 DEF GcSuspended, GcFails, FlushFails, AlarmCoversJobs
<1>2. CASE AlarmFails
  BY <1>2, Delays DEF AlarmFails, AlarmCoversJobs, TypedServing, TypeOK, Unset
<1>3. CASE CrashNode \/ CrashDuringCommit
  BY <1>3 DEF CrashNode, CrashDuringCommit, AlarmCoversJobs
<1>4. CASE RestartObject
  <2>1. armed' = EnsuredArmed(armed) /\ jobs' = jobs
    BY <1>4 DEF RestartObject
  <2>2. Queued(jobs) # {} =>
          EnsuredArmed(armed) # Unset /\ EnsuredArmed(armed) <= EarliestDue(jobs)
    BY EnsuredArmedFacts DEF TypedServing, TypeOK
  <2> QED
    BY <2>1, <2>2 DEF AlarmCoversJobs, Queued, EarliestDue
<1> QED
  BY <1>1, <1>2, <1>3, <1>4 DEF Failures

LEMMA AlarmNext ==
  ASSUME TypedServing, AlarmCoversJobs, [Next]_vars
  PROVE  AlarmCoversJobs'
<1>1. CASE Answers
  BY <1>1 DEF Answers, GcAllowed, GcSucceeds, FlushSucceeds, Collected, AlarmCoversJobs
<1>2. CASE OpenVault
  <2>1. armed' = EnsuredArmed(Unset) /\ jobs' = jobs
    BY <1>2 DEF OpenVault
  <2>2. Queued(jobs) # {} =>
          EnsuredArmed(Unset) # Unset /\ EnsuredArmed(Unset) <= EarliestDue(jobs)
    BY EnsuredArmedFacts DEF TypedServing, Time
  <2> QED
    BY <2>1, <2>2 DEF AlarmCoversJobs, Queued, EarliestDue
<1>3. CASE Tick
  <2>1. /\ UNCHANGED <<armed, jobs, open, stage, waiting>>
        /\ now' = now + 1
    BY <1>3 DEF Tick, coordinator, drain
  <2>2. armed <= now + AlarmRetry => armed <= now + 1 + AlarmRetry
    BY Delays DEF TypedServing, TypeOK, Time, Unset
  <2> QED
    BY <2>1, <2>2 DEF AlarmCoversJobs, Queued, EarliestDue
<1>4. CASE UNCHANGED vars
  BY <1>4 DEF vars, coordinator, drain, AlarmCoversJobs, Queued, EarliestDue
<1> QED
  BY <1>1, <1>2, <1>3, <1>4, AlarmRequests, AlarmAlarms, AlarmFailures DEF Next

\* Between drains the alarm is set for the first job, or to retry a failed
\* drain (maintenance-scheduler.ts:82-105, node-maintenance-scheduler.ts:84-131).
THEOREM AlarmIsSet == Spec => []AlarmCoversJobs
<1>1. Init => AlarmCoversJobs
  BY DEF Init, AlarmCoversJobs, Queued
<1> QED
  BY <1>1, ServingAlways, AlarmNext, PTL DEF Spec

-----------------------------------------------------------------------------
(* The collection job *)

\* A job due then is not later than the work, a failure or a refusal asks for.
CoveredAt(due, w, t) ==
  \/ \E u \in {NextGcAt(w, t), t + SuspendDelay, t + Grace}: due <= DueAt("blob_gc", u)
  \/ due <= t + RetryMax

\* A job is not late because time passes.
LEMMA CoveredLater ==
  ASSUME NEW w \in SUBSET Work, w # {}, NEW s \in Nat, NEW t \in Nat, s <= t,
         NEW due \in Nat, CoveredAt(due, w, s)
  PROVE  CoveredAt(due, w, t)
<1>1. "blob_gc" \in Key
  BY DEF Key
<1>2. /\ NextGcAt(w, s) \in Nat /\ NextGcAt(w, t) \in Nat
      /\ s + SuspendDelay \in Nat /\ t + SuspendDelay \in Nat
      /\ s + Grace \in Nat /\ t + Grace \in Nat
  BY NextGcAtType, Delays
<1>3. /\ NextGcAt(w, s) <= NextGcAt(w, t)
      /\ s + SuspendDelay <= t + SuspendDelay /\ s + Grace <= t + Grace
      /\ s + RetryMax <= t + RetryMax
  BY NextGcAtMonotone, Delays
<1>4. \A x, y \in Nat: x <= y /\ due <= DueAt("blob_gc", x) => due <= DueAt("blob_gc", y)
  <2> SUFFICES ASSUME NEW x \in Nat, NEW y \in Nat, x <= y, due <= DueAt("blob_gc", x)
               PROVE  due <= DueAt("blob_gc", y)
    OBVIOUS
  <2>1. DueAt("blob_gc", x) \in Nat /\ DueAt("blob_gc", y) \in Nat
    BY <1>1, DueAtType
  <2>2. DueAt("blob_gc", x) <= DueAt("blob_gc", y)
    BY <1>1, DueAtMonotone
  <2> QED
    BY <2>1, <2>2
<1>5. CASE due <= s + RetryMax
  BY <1>3, <1>5, Delays DEF CoveredAt
<1>6. CASE due <= DueAt("blob_gc", NextGcAt(w, s))
  BY <1>2, <1>3, <1>4, <1>6 DEF CoveredAt
<1>7. CASE due <= DueAt("blob_gc", s + SuspendDelay)
  BY <1>2, <1>3, <1>4, <1>7 DEF CoveredAt
<1>8. CASE due <= DueAt("blob_gc", s + Grace)
  BY <1>2, <1>3, <1>4, <1>8 DEF CoveredAt
<1> QED
  BY <1>5, <1>6, <1>7, <1>8 DEF CoveredAt

\* To cover the work it is enough to put the job into the table in time.
LEMMA CoveredByJob ==
  ASSUME work' # {} => jobs'["blob_gc"] # NoJob /\ CoveredAt(jobs'["blob_gc"].due, work', now')
  PROVE  CollectionCovered'
PROOF BY DEF CollectionCovered, CoveredAt

LEMMA CoveredUnchanged ==
  ASSUME TypedServing, CollectionCovered,
         jobs'["blob_gc"] = jobs["blob_gc"], work' = work, now' = now \/ now' = now + 1,
         stage \notin {"allowing", "deleting"}, forgotten \cap {"blob_gc"} \subseteq forgotten'
  PROVE  CollectionCovered'
<1> SUFFICES ASSUME work # {}, "blob_gc" \notin forgotten
             PROVE  jobs["blob_gc"] # NoJob /\ CoveredAt(jobs["blob_gc"].due, work, now')
  BY CoveredByJob DEF CollectionCovered, CoveredAt
<1>1. jobs["blob_gc"] # NoJob /\ CoveredAt(jobs["blob_gc"].due, work, now)
  BY DEF CollectionCovered, CoveredAt
<1>2. jobs["blob_gc"].due \in Nat /\ work \in SUBSET Work /\ now \in Nat /\ now' \in Nat
      /\ now <= now'
  BY <1>1 DEF TypedServing, TypeOK, Key, Job
<1> QED
  BY <1>1, <1>2, CoveredLater

LEMMA CoverRequests ==
  ASSUME TypedServing, CollectionCovered, Requests
  PROVE  CollectionCovered'
<1>1. jobs \in JobTable /\ now \in Nat /\ "blob_gc" \in Key /\ now + Grace \in Nat
  BY Delays DEF TypedServing, TypeOK, JobTable, Key
<1>2. CASE Commit
  <2>1. work' \in SUBSET Work /\ Announce(GcScheduled(work')) /\ now' = now
    BY <1>2, CommitTablesType DEF Commit, TypedServing
  <2>2. jobs'["blob_gc"] = GcScheduled(work')["blob_gc"]
    BY <2>1, GcScheduledFacts, AnnounceFacts DEF TypedServing
  <2> QED
    BY <2>1, <2>2, GcScheduledFacts, CoveredByJob DEF CoveredAt, TypedServing
<1>3. CASE Stage
  <2>1. jobs' = Deferred(jobs, "blob_gc", now + Grace) /\ now' = now
    BY <1>3 DEF Stage
  <2>2. jobs'["blob_gc"] # NoJob /\ jobs'["blob_gc"].due <= DueAt("blob_gc", now + Grace)
    BY <1>1, <2>1, DeferredFacts
  <2> QED
    BY <2>1, <2>2, CoveredByJob DEF CoveredAt
<1>4. CASE Repair
  <2>1. jobs' = Deferred(jobs, "blob_gc", now) /\ now' = now
    BY <1>4 DEF Repair
  <2>2. jobs' \in JobTable /\ jobs'["blob_gc"] # NoJob
        /\ jobs'["blob_gc"].due <= DueAt("blob_gc", now)
    BY <1>1, <2>1, DeferredFacts
  <2>3. jobs'["blob_gc"].due \in Nat /\ DueAt("blob_gc", now) \in Nat
        /\ DueAt("blob_gc", now + Grace) \in Nat
    BY <1>1, <2>2, DueAtType DEF JobTable, Job
  <2>4. DueAt("blob_gc", now) <= DueAt("blob_gc", now + Grace)
    BY <1>1, DueAtMonotone, Delays
  <2>5. jobs'["blob_gc"].due <= DueAt("blob_gc", now + Grace)
    BY <2>2, <2>3, <2>4
  <2> QED
    BY <2>1, <2>2, <2>5, CoveredByJob DEF CoveredAt
<1>5. CASE Connect
  <2>1. jobs'["blob_gc"] = jobs["blob_gc"]
    BY <1>1, <1>5, AnnounceFacts DEF Connect, TypedServing
  <2>2. UNCHANGED <<work, now, stage>> /\ forgotten' = forgotten \ {"health_summary_flush"}
    BY <1>5 DEF Connect, drain
  <2>3. CASE stage \in {"allowing", "deleting"}
    BY <2>2, <2>3 DEF CollectionCovered
  <2>4. CASE stage \notin {"allowing", "deleting"}
    BY <2>1, <2>2, <2>4, CoveredUnchanged
  <2> QED
    BY <2>3, <2>4
<1> QED
  BY <1>2, <1>3, <1>4, <1>5 DEF Requests

LEMMA CoverAlarms ==
  ASSUME TypedServing, CollectionCovered, Alarms
  PROVE  CollectionCovered'
<1>1. UNCHANGED <<jobs, work, now, forgotten>>
  BY DEF Alarms, Fire, StartDrain, PickJob, HealthSnapshot, EndDrain, coordinator, tables
<1>2. CASE stage \in {"allowing", "deleting"}
  <2>1. stage' = stage
    BY <1>2 DEF Alarms, Fire, StartDrain, PickJob, HealthSnapshot, EndDrain, drain
  <2> QED
    BY <1>2, <2>1 DEF CollectionCovered
<1>3. CASE stage \notin {"allowing", "deleting"}
  BY <1>1, <1>3, CoveredUnchanged
<1> QED
  BY <1>2, <1>3

\* A collection asks for the next one at the first deadline it leaves.
LEMMA CoverCollected ==
  ASSUME TypedServing, NEW w \in SUBSET work, Collected(w), now' = now
  PROVE  CollectionCovered'
<1> SUFFICES ASSUME w # {}
             PROVE  jobs'["blob_gc"] # NoJob /\ CoveredAt(jobs'["blob_gc"].due, w, now)
  BY CoveredByJob DEF Collected
<1>1. jobs'["blob_gc"] # NoJob /\ jobs'["blob_gc"].due = DueAt("blob_gc", NextGcAt(w, at))
  BY CollectedFacts
<1>2. w \in SUBSET Work /\ at \in Nat /\ now \in Nat /\ at <= now /\ "blob_gc" \in Key
  BY DEF TypedServing, TypeOK, Serving, Key
<1>3. NextGcAt(w, at) \in Nat
  BY <1>2, NextGcAtType
<1>4. DueAt("blob_gc", NextGcAt(w, at)) \in Nat
  BY <1>2, <1>3, DueAtType
<1>5. CoveredAt(DueAt("blob_gc", NextGcAt(w, at)), w, at)
  BY <1>4 DEF CoveredAt
<1> QED
  BY <1>1, <1>2, <1>4, <1>5, CoveredLater

LEMMA CoverAnswers ==
  ASSUME TypedServing, CollectionCovered, Answers
  PROVE  CollectionCovered'
<1>1. CASE GcAllowed
  <2>1. CASE Collected(work)
    BY <1>1, <2>1, CoverCollected DEF GcAllowed
  <2>2. CASE stage' = "deleting"
    BY <2>2 DEF CollectionCovered
  <2> QED
    BY <1>1, <2>1, <2>2 DEF GcAllowed
<1>2. CASE GcSucceeds
  BY <1>2, CoverCollected DEF GcSucceeds
<1>3. CASE FlushSucceeds
  <2>1. NextFlushAt \in Time
    BY DEF NextFlushAt, TypedServing, TypeOK, Time
  <2>2. jobs'["blob_gc"] = jobs["blob_gc"]
    BY <1>3, <2>1, RescheduledFacts DEF FlushSucceeds, TypedServing, TypeOK, JobTable, Key
  <2>3. stage = "flushing" /\ UNCHANGED <<work, now, forgotten>>
    BY <1>3 DEF FlushSucceeds
  <2> QED
    BY <2>2, <2>3, CoveredUnchanged
<1> QED
  BY <1>1, <1>2, <1>3 DEF Answers

\* The job a crash interrupts is due.
LEMMA CoverInterrupted ==
  ASSUME TypedServing, CollectionCovered, UNCHANGED <<jobs, work, now, forgotten>>
  PROVE  CollectionCovered'
<1>1. CASE stage \in {"allowing", "deleting"}
  <2>1. jobs["blob_gc"] # NoJob /\ jobs["blob_gc"].due <= at /\ at <= now
    BY <1>1 DEF TypedServing, Serving
  <2>2. jobs["blob_gc"].due \in Nat /\ at \in Nat /\ now \in Nat
    BY <2>1 DEF TypedServing, TypeOK, Key, Job
  <2>3. jobs["blob_gc"].due <= now + RetryMax
    BY <2>1, <2>2, Delays
  <2> QED
    BY <2>1, <2>3, CoveredByJob DEF CoveredAt
<1>2. CASE stage \notin {"allowing", "deleting"}
  BY <1>2, CoveredUnchanged
<1> QED
  BY <1>1, <1>2

LEMMA CoverFailures ==
  ASSUME TypedServing, CollectionCovered, Failures
  PROVE  CollectionCovered'
<1>1. /\ jobs \in JobTable /\ now \in Nat /\ at \in Nat /\ at <= now
      /\ Key = {"blob_gc", "health_summary_flush"}
  BY DEF TypedServing, TypeOK, Serving, JobTable, Key
<1>2. CASE GcSuspended
  <2>1. at + SuspendDelay \in Time \ {Unset} /\ at + SuspendDelay \in Nat
    BY <1>1, Delays DEF Time, Unset
  <2>2. /\ jobs'["blob_gc"] # NoJob
        /\ jobs'["blob_gc"].due = DueAt("blob_gc", at + SuspendDelay)
    BY <1>1, <1>2, <2>1, RescheduledFacts DEF GcSuspended
  <2>3. DueAt("blob_gc", at + SuspendDelay) \in Nat
    BY <1>1, <2>1, DueAtType
  <2>4. CoveredAt(jobs'["blob_gc"].due, work, at)
    BY <2>2, <2>3 DEF CoveredAt
  <2>5. work' = work /\ now' = now /\ work \in SUBSET Work
    BY <1>2 DEF GcSuspended, tables, TypedServing, TypeOK
  <2>6. work # {} => CoveredAt(jobs'["blob_gc"].due, work, now)
    BY <1>1, <2>2, <2>3, <2>4, <2>5, CoveredLater
  <2> QED
    BY <2>2, <2>5, <2>6, CoveredByJob
<1>3. CASE GcFails
  <2>1. jobs["blob_gc"] # NoJob /\ jobs' = Retried(jobs, "blob_gc") /\ now' = now
    BY <1>3 DEF GcFails, TypedServing, Serving
  <2>2. /\ jobs' \in JobTable /\ jobs'["blob_gc"] # NoJob
        /\ jobs'["blob_gc"].due <= at + RetryMax
    BY <1>1, <2>1, RetriedFacts
  <2>3. jobs'["blob_gc"].due \in Nat
    BY <1>1, <2>2 DEF JobTable, Job
  <2>4. jobs'["blob_gc"].due <= now + RetryMax
    BY <1>1, <2>2, <2>3, Delays
  <2> QED
    BY <2>1, <2>2, <2>4, CoveredByJob DEF CoveredAt
<1>4. CASE FlushFails
  <2>1. /\ jobs' = Retried(jobs, "health_summary_flush") /\ stage = "flushing"
        /\ UNCHANGED <<work, now, forgotten>>
    BY <1>4 DEF FlushFails
  <2>2. jobs["health_summary_flush"] # NoJob
    BY <2>1 DEF TypedServing, Serving
  <2>3. jobs'["blob_gc"] = jobs["blob_gc"]
    BY <1>1, <2>1, <2>2, RetriedFacts
  <2> QED
    BY <2>1, <2>3, CoveredUnchanged
<1>5. CASE AlarmFails \/ CrashNode \/ RestartObject
  <2>1. UNCHANGED <<jobs, work, now, forgotten>>
    BY <1>5 DEF AlarmFails, CrashNode, RestartObject, tables
  <2> QED
    BY <2>1, CoverInterrupted
<1>6. CASE CrashDuringCommit
  <2>1. work' \in SUBSET Work /\ now' = now
    BY <1>6, CommitTablesType DEF CrashDuringCommit, TypedServing
  <2>2. CASE forgotten' = Key
    BY <1>1, <2>2 DEF CollectionCovered
  <2>3. CASE jobs' = GcScheduled(work')
    BY <2>1, <2>3, GcScheduledFacts, CoveredByJob DEF CoveredAt, TypedServing
  <2> QED
    BY <1>6, <2>2, <2>3 DEF CrashDuringCommit
<1> QED
  BY <1>2, <1>3, <1>4, <1>5, <1>6 DEF Failures

LEMMA CoverNext ==
  ASSUME TypedServing, CollectionCovered, [Next]_vars
  PROVE  CollectionCovered'
<1>1. CASE OpenVault
  <2>1. UNCHANGED <<jobs, work, now, forgotten>>
    BY <1>1 DEF OpenVault, tables
  <2> QED
    BY <2>1, CoverInterrupted
<1>2. CASE Tick
  <2>1. UNCHANGED <<jobs, work, forgotten, stage>> /\ now' = now + 1
    BY <1>2 DEF Tick, coordinator, drain, tables
  <2>2. CASE stage \in {"allowing", "deleting"}
    BY <2>1, <2>2 DEF CollectionCovered
  <2>3. CASE stage \notin {"allowing", "deleting"}
    BY <2>1, <2>3, CoveredUnchanged
  <2> QED
    BY <2>2, <2>3
<1>3. CASE UNCHANGED vars
  <2>1. UNCHANGED <<jobs, work, now, forgotten>>
    BY <1>3 DEF vars, coordinator, tables
  <2> QED
    BY <2>1, CoverInterrupted
<1> QED
  BY <1>1, <1>2, <1>3, CoverRequests, CoverAlarms, CoverAnswers, CoverFailures DEF Next

\* Work that is due sometime has a collection job in time for it, unless a
\* crash of the Node process kept the job from being written
\* (maintenance-scheduler.ts:28-52, 183-204).
THEOREM CollectionIsScheduled == Spec => []CollectionCovered
<1>1. Init => CollectionCovered
  BY DEF Init, CollectionCovered
<1> QED
  BY <1>1, ServingAlways, CoverNext, PTL DEF Spec
-----------------------------------------------------------------------------
(* The flush job, on Node *)

FlushJob == jobs["health_summary_flush"]

\* The time scheduleSummaryFlush remembers is not before the job it stands for,
\* which is in the table.
Remembering ==
  serialized /\ scheduled # Unset => FlushJob # NoJob /\ FlushJob.due <= scheduled

\* No request changes what a flush has read.
ReadIsCurrent == serialized /\ stage = "flushing" => seen.changes = changes

SummaryInv == Remembering /\ ReadIsCurrent /\ SummaryCovered

Soon(due, t) == due <= t + FlushDelay \/ due <= t + RetryMax

LEMMA OtherJob == "blob_gc" \in Key /\ "health_summary_flush" \in Key \ {"blob_gc"}
PROOF BY DEF Key

LEMMA FlushJobType ==
  ASSUME NEW js \in JobTable, js["health_summary_flush"] # NoJob
  PROVE  js["health_summary_flush"].due \in Nat
PROOF BY DEF JobTable, Job, Key

\* The flush job is not put off, and nothing changes that it would tell.
FlushKept ==
  /\ FlushJob # NoJob => FlushJob' # NoJob /\ FlushJob'.due <= FlushJob.due
  /\ UNCHANGED <<serialized, changes, flushed>>
  /\ scheduled' \in {scheduled, Unset}
  /\ {"health_summary_flush"} \cap forgotten \subseteq forgotten'
  /\ now' \in {now, now + 1}
  /\ stage' = "flushing" => \/ stage = "flushing" /\ seen' = seen
                            \/ seen' = HealthSnapshot

LEMMA KeptCovers ==
  ASSUME TypedServing, TypedServing', SummaryInv, FlushKept
  PROVE  SummaryInv'
<1>1. /\ now \in Nat /\ now' \in Nat /\ scheduled \in Time
      /\ FlushJob # NoJob => FlushJob.due \in Nat
      /\ FlushJob' # NoJob => FlushJob'.due \in Nat
  BY FlushJobType DEF TypedServing, TypeOK, JobTable, FlushJob
<1>2. Remembering'
  <2> SUFFICES ASSUME serialized, scheduled' # Unset
               PROVE  FlushJob' # NoJob /\ FlushJob'.due <= scheduled'
    BY DEF Remembering, FlushKept
  <2>1. scheduled' = scheduled
    BY DEF FlushKept
  <2>2. FlushJob # NoJob /\ FlushJob.due <= scheduled
    BY <2>1 DEF SummaryInv, Remembering
  <2>3. FlushJob' # NoJob /\ FlushJob'.due <= FlushJob.due
    BY <2>2 DEF FlushKept
  <2> QED
    BY <1>1, <2>1, <2>2, <2>3 DEF Time, Unset
<1>3. ReadIsCurrent'
  BY DEF FlushKept, SummaryInv, ReadIsCurrent, HealthSnapshot
<1>4. SummaryCovered'
  <2> SUFFICES ASSUME serialized, flushed # changes,
                      "health_summary_flush" \notin forgotten
               PROVE  FlushJob' # NoJob /\ Soon(FlushJob'.due, now')
    BY DEF FlushKept, SummaryCovered, FlushJob, Soon
  <2>1. FlushJob # NoJob /\ Soon(FlushJob.due, now)
    BY DEF SummaryInv, SummaryCovered, FlushJob, Soon
  <2>2. FlushJob' # NoJob /\ FlushJob'.due <= FlushJob.due /\ now <= now'
    BY <1>1, <2>1 DEF FlushKept
  <2> QED
    BY <1>1, <2>1, <2>2, Delays DEF Soon
<1> QED
  BY <1>2, <1>3, <1>4 DEF SummaryInv

\* A change is announced: by the job that is remembered, or by one of its own.
LEMMA AnnounceCovers ==
  ASSUME TypedServing, SummaryInv, NEW js \in JobTable, Advances(jobs, js),
         Announce(js), UNCHANGED <<serialized, stage, now>>, serialized => stage = "idle"
  PROVE  SummaryInv'
<1> SUFFICES ASSUME serialized PROVE SummaryInv'
  BY DEF SummaryInv, Remembering, ReadIsCurrent, SummaryCovered
<1>1. now \in Nat /\ scheduled \in Time /\ now + FlushDelay \in Nat
      /\ "health_summary_flush" \in Key
  BY Delays DEF TypedServing, TypeOK, Key
<1>2. FlushJob' # NoJob /\ FlushJob'.due <= scheduled' /\ FlushJob'.due \in Nat
      /\ scheduled' <= now + FlushDelay /\ scheduled' \in Nat
  <2>1. CASE Remembered
    <3>1. jobs' = js /\ scheduled' = scheduled
      BY <2>1 DEF Announce
    <3>2. FlushJob # NoJob /\ FlushJob.due <= scheduled
      BY <2>1 DEF Remembered, SummaryInv, Remembering
    <3>3. js["health_summary_flush"] # NoJob
          /\ js["health_summary_flush"].due <= FlushJob.due
      BY <1>1, <3>2 DEF Advances, FlushJob
    <3>4. js["health_summary_flush"].due \in Nat /\ FlushJob.due \in Nat
      BY <3>2, <3>3, FlushJobType DEF FlushJob, TypedServing, TypeOK, JobTable
    <3>5. scheduled \in Nat /\ scheduled <= now + FlushDelay
      BY <1>1, <2>1 DEF Remembered, Time
    <3>6. FlushJob' = js["health_summary_flush"]
      BY <3>1 DEF FlushJob
    <3> QED
      BY <3>1, <3>2, <3>3, <3>4, <3>5, <3>6
  <2>2. CASE ~Remembered
    <3> DEFINE ks == Deferred(js, "health_summary_flush", now + FlushDelay)
    <3>1. jobs' = ks /\ scheduled' = now + FlushDelay
      BY <2>2 DEF Announce
    <3>2. /\ ks \in JobTable /\ ks["health_summary_flush"] # NoJob
          /\ ks["health_summary_flush"].due <= DueAt("health_summary_flush", now + FlushDelay)
      BY <1>1, DeferredFacts
    <3>3. DueAt("health_summary_flush", now + FlushDelay) = now + FlushDelay
      BY DEF DueAt
    <3> HIDE DEF ks
    <3>4. ks["health_summary_flush"].due \in Nat
      BY <3>2, FlushJobType
    <3>5. FlushJob' = ks["health_summary_flush"]
      BY <3>1 DEF FlushJob
    <3> QED
      BY <1>1, <3>1, <3>2, <3>3, <3>4, <3>5
  <2> QED
    BY <2>1, <2>2
<1>3. FlushJob'.due <= now' + FlushDelay
  BY <1>1, <1>2
<1> QED
  BY <1>2, <1>3 DEF SummaryInv, Remembering, ReadIsCurrent, SummaryCovered, FlushJob

LEMMA SummaryRequests ==
  ASSUME TypedServing, TypedServing', SummaryInv, Requests
  PROVE  SummaryInv'
<1>1. /\ jobs \in JobTable /\ now \in Nat /\ now + Grace \in Nat
      /\ Key = {"blob_gc", "health_summary_flush"}
  BY Delays DEF TypedServing, TypeOK, JobTable, Key
<1>2. serialized => stage = "idle"
  BY DEF Requests, Commit, Stage, Repair, Connect, Admitted
<1>3. CASE Commit
  <2>1. work' \in SUBSET Work /\ Announce(GcScheduled(work'))
        /\ UNCHANGED <<serialized, stage, now>>
    BY <1>3, CommitTablesType DEF Commit, TypedServing, drain
  <2>2. GcScheduled(work') \in JobTable /\ Advances(jobs, GcScheduled(work'))
    BY <2>1, GcScheduledFacts DEF TypedServing
  <2> QED
    BY <1>2, <2>1, <2>2, AnnounceCovers
<1>4. CASE Stage \/ Repair
  <2>1. PICK t \in Nat: jobs' = Deferred(jobs, "blob_gc", t)
    BY <1>1, <1>4 DEF Stage, Repair
  <2>2. FlushJob' = FlushJob
    <3>1. Deferred(jobs, "blob_gc", t)["health_summary_flush"] = FlushJob
      BY <1>1, OtherJob, DeferredFacts DEF FlushJob
    <3>2. FlushJob' = jobs'["health_summary_flush"]
      BY DEF FlushJob
    <3> QED
      BY <2>1, <3>1, <3>2
  <2>3. /\ UNCHANGED <<serialized, changes, flushed, scheduled, now, stage, seen>>
        /\ forgotten' = forgotten \ {"blob_gc"}
    BY <1>4 DEF Stage, Repair, drain
  <2>4. FlushJob # NoJob => FlushJob.due \in Nat
    BY <1>1, FlushJobType DEF FlushJob
  <2>5. FlushKept
    BY <2>2, <2>3, <2>4 DEF FlushKept
  <2> QED
    BY <2>5, KeptCovers
<1>5. CASE Connect
  <2>1. Announce(jobs) /\ UNCHANGED <<serialized, stage, now>>
    BY <1>5 DEF Connect, drain
  <2> QED
    BY <1>1, <1>2, <2>1, AdvancesReflexive, AnnounceCovers
<1> QED
  BY <1>3, <1>4, <1>5 DEF Requests

LEMMA FlushUnchanged ==
  ASSUME TypedServing, jobs' = jobs
  PROVE  FlushJob # NoJob => FlushJob' # NoJob /\ FlushJob'.due <= FlushJob.due
<1>1. FlushJob # NoJob => FlushJob.due \in Nat
  BY FlushJobType DEF FlushJob, TypedServing, TypeOK, JobTable
<1> QED
  BY <1>1 DEF FlushJob

LEMMA SummaryAlarms ==
  ASSUME TypedServing, TypedServing', SummaryInv, Alarms
  PROVE  SummaryInv'
<1>1. UNCHANGED <<serialized, jobs, changes, flushed, scheduled, now, forgotten>>
  BY DEF Alarms, Fire, StartDrain, PickJob, EndDrain, coordinator, tables
<1>2. stage' = "flushing" => \/ stage = "flushing" /\ seen' = seen
                            \/ seen' = HealthSnapshot
  BY DEF Alarms, Fire, StartDrain, PickJob, EndDrain, drain
<1>3. FlushKept
  BY <1>1, <1>2, FlushUnchanged DEF FlushKept
<1> QED
  BY <1>3, KeptCovers

LEMMA CollectedKeepsFlush ==
  ASSUME TypedServing, NEW w \in SUBSET work, Collected(w)
  PROVE  FlushJob # NoJob => FlushJob' # NoJob /\ FlushJob'.due <= FlushJob.due
<1> DEFINE deferred == Deferred(jobs, "health_summary_flush", at)
<1>1. /\ jobs \in JobTable /\ at \in Nat /\ w \in SUBSET Work
      /\ Key = {"blob_gc", "health_summary_flush"}
  BY DEF TypedServing, TypeOK, JobTable, Key
<1>2. /\ deferred \in JobTable
      /\ FlushJob # NoJob => /\ deferred["health_summary_flush"] # NoJob
                             /\ deferred["health_summary_flush"].due <= FlushJob.due
  BY <1>1, DeferredFacts DEF FlushJob
<1>3. NextGcAt(w, at) \in Time
  BY <1>1, NextGcAtType DEF Time, NextGcAt
<1>4. jobs' = Rescheduled(deferred, "blob_gc", NextGcAt(w, at))
  BY DEF Collected
<1> HIDE DEF deferred
<1>5. jobs'["health_summary_flush"] = deferred["health_summary_flush"]
  BY <1>2, <1>3, <1>4, OtherJob, RescheduledFacts
<1> QED
  BY <1>2, <1>5 DEF FlushJob

LEMMA SummaryAnswers ==
  ASSUME TypedServing, TypedServing', SummaryInv, Answers
  PROVE  SummaryInv'
<1>1. CASE GcAllowed \/ GcSucceeds
  <2>1. UNCHANGED <<serialized, changes, flushed, scheduled, now, forgotten>>
        /\ stage' # "flushing"
    BY <1>1 DEF GcAllowed, GcSucceeds, Collected
  <2>2. FlushJob # NoJob => FlushJob' # NoJob /\ FlushJob'.due <= FlushJob.due
    <3>1. CASE Collected(work)
      BY <3>1, CollectedKeepsFlush
    <3>2. CASE Collected(work \ listed)
      BY <3>2, CollectedKeepsFlush
    <3>3. CASE jobs' = jobs
      BY <3>3, FlushUnchanged
    <3> QED
      BY <1>1, <3>1, <3>2, <3>3 DEF GcAllowed, GcSucceeds
  <2>3. FlushKept
    BY <2>1, <2>2 DEF FlushKept
  <2> QED
    BY <2>3, KeptCovers
<1>2. CASE FlushSucceeds
  <2>1. NextFlushAt \in Time /\ jobs \in JobTable /\ "health_summary_flush" \in Key
    BY DEF NextFlushAt, TypedServing, TypeOK, Time, JobTable, Key
  <2>2. /\ scheduled' = NextFlushAt /\ flushed' = seen.changes /\ stage = "flushing"
        /\ stage' = "picking" /\ UNCHANGED <<serialized, changes>>
        /\ jobs' = Rescheduled(jobs, "health_summary_flush", NextFlushAt)
    BY <1>2 DEF FlushSucceeds, RememberedAfterFlush
  <2>3. DueAt("health_summary_flush", NextFlushAt) = NextFlushAt
    BY DEF DueAt
  <2>4. NextFlushAt # Unset => FlushJob' # NoJob /\ FlushJob'.due = NextFlushAt
    BY <2>1, <2>2, <2>3, RescheduledFacts DEF FlushJob
  <2>5. Remembering'
    <3>1. NextFlushAt # Unset => NextFlushAt <= NextFlushAt
      BY <2>1 DEF Time
    <3> QED
      BY <2>2, <2>4, <3>1 DEF Remembering
  <2>6. serialized => flushed' = changes'
    BY <2>2 DEF SummaryInv, ReadIsCurrent
  <2> QED
    BY <2>2, <2>5, <2>6 DEF SummaryInv, ReadIsCurrent, SummaryCovered
<1> QED
  BY <1>1, <1>2 DEF Answers

LEMMA SummaryFailures ==
  ASSUME TypedServing, TypedServing', SummaryInv, Failures
  PROVE  SummaryInv'
<1>1. /\ jobs \in JobTable /\ now \in Nat /\ at \in Nat /\ at <= now
      /\ Key = {"blob_gc", "health_summary_flush"}
      /\ FlushJob # NoJob => FlushJob.due \in Nat
  BY FlushJobType DEF TypedServing, TypeOK, Serving, JobTable, Key, FlushJob
<1>2. CASE GcSuspended \/ GcFails
  <2>1. FlushJob' = FlushJob
    <3>1. CASE GcSuspended
      <4>1. jobs' = Rescheduled(jobs, "blob_gc", at + SuspendDelay)
            /\ at + SuspendDelay \in Time
        BY <1>1, <3>1, Delays DEF GcSuspended, Time
      <4> QED
        BY <1>1, <4>1, RescheduledFacts DEF FlushJob
    <3>2. CASE GcFails
      <4>1. jobs["blob_gc"] # NoJob /\ jobs' = Retried(jobs, "blob_gc")
        BY <3>2 DEF GcFails, TypedServing, Serving
      <4> QED
        BY <1>1, <4>1, RetriedFacts DEF FlushJob
    <3> QED
      BY <1>2, <3>1, <3>2
  <2>2. UNCHANGED <<serialized, changes, flushed, scheduled, now, forgotten>>
        /\ stage' # "flushing"
    BY <1>2 DEF GcSuspended, GcFails, tables
  <2>3. FlushKept
    BY <1>1, <2>1, <2>2 DEF FlushKept
  <2> QED
    BY <2>3, KeptCovers
<1>3. CASE FlushFails
  <2>1. /\ jobs["health_summary_flush"] # NoJob /\ now' = now
        /\ jobs' = Retried(jobs, "health_summary_flush")
        /\ scheduled' = Unset /\ stage' = "picking"
    BY <1>3 DEF FlushFails, TypedServing, Serving
  <2>2. /\ jobs' \in JobTable /\ FlushJob' # NoJob
        /\ FlushJob'.due <= at + RetryMax
    BY <1>1, <2>1, RetriedFacts DEF FlushJob
  <2>3. FlushJob'.due \in Nat
    BY <2>2, FlushJobType DEF FlushJob
  <2>4. FlushJob'.due <= now' + RetryMax
    BY <1>1, <2>1, <2>2, <2>3, Delays
  <2> QED
    BY <2>1, <2>2, <2>4
       DEF SummaryInv, Remembering, ReadIsCurrent, SummaryCovered, FlushJob
<1>4. CASE AlarmFails \/ CrashNode \/ RestartObject
  <2>1. /\ UNCHANGED <<serialized, jobs, changes, flushed, now, forgotten>>
        /\ scheduled' \in {scheduled, Unset} /\ stage' = "idle"
    BY <1>4 DEF AlarmFails, CrashNode, RestartObject, Restart, tables
  <2>2. FlushKept
    BY <2>1, FlushUnchanged DEF FlushKept
  <2> QED
    BY <2>2, KeptCovers
<1>5. CASE CrashDuringCommit
  <2>1. scheduled' = Unset /\ stage' = "idle" /\ "health_summary_flush" \in forgotten'
    BY <1>1, <1>5 DEF CrashDuringCommit, Restart
  <2> QED
    BY <2>1 DEF SummaryInv, Remembering, ReadIsCurrent, SummaryCovered
<1> QED
  BY <1>2, <1>3, <1>4, <1>5 DEF Failures

LEMMA SummaryNext ==
  ASSUME TypedServing, TypedServing', SummaryInv, [Next]_vars
  PROVE  SummaryInv'
<1>1. CASE OpenVault \/ Tick \/ UNCHANGED vars
  <2>1. /\ UNCHANGED <<serialized, jobs, changes, flushed, scheduled, stage, seen, forgotten>>
        /\ now' \in {now, now + 1}
    BY <1>1 DEF OpenVault, Tick, vars, coordinator, drain, tables
  <2>2. FlushKept
    BY <2>1, FlushUnchanged DEF FlushKept
  <2> QED
    BY <2>2, KeptCovers
<1> QED
  BY <1>1, SummaryRequests, SummaryAlarms, SummaryAnswers, SummaryFailures DEF Next

\* A change the control plane of a Node vault has not seen has a flush in time
\* for it: the time that is remembered never outlives the job it stands for
\* (health-service.ts:33-83).
THEOREM SummaryIsScheduled == Spec => []SummaryCovered
<1>1. Init => SummaryInv
  BY DEF Init, SummaryInv, Remembering, ReadIsCurrent, SummaryCovered
<1>2. TypedServing /\ TypedServing' /\ SummaryInv /\ [Next]_vars => SummaryInv'
  BY SummaryNext
<1>3. SummaryInv => SummaryCovered
  BY DEF SummaryInv
<1> QED
  BY <1>1, <1>2, <1>3, ServingAlways, PTL DEF Spec

\* Whatever is due is scheduled, in either runtime.
THEOREM JobsAreScheduled == Spec => []JobsCoverWork
<1>1. CollectionCovered /\ SummaryCovered => JobsCoverWork
  BY DEF JobsCoverWork
<1> QED
  BY <1>1, CollectionIsScheduled, SummaryIsScheduled, PTL

=============================================================================
