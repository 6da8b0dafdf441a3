--------------------------- MODULE CronsCheckins ---------------------------
(***************************************************************************)
(* The Crons integration (crons.go, crons_monitor_data.go and the handlers *)
(* of informer_cronjobs.go and informer_jobs.go), for an agent that runs   *)
(* with SENTRY_K8S_MONITOR_CRONJOBS on and without per-object DSNs.        *)
(*                                                                         *)
(* startInformers runs once per watched namespace, and every informer      *)
(* calls its handler from a goroutine of its own: informer i stands for    *)
(* the two goroutines (CronJobs, Jobs) of one call of startInformers.  All *)
(* of them share the one global cronsMetaData.                             *)
(*                                                                         *)
(* The cluster and the delivery of its objects (API server, client-go) are *)
(* external.  An informer calls a handler when its store differs from the  *)
(* cluster; a lagging informer is one that has not taken that step yet,    *)
(* and one that lists anew may skip states in between.                     *)
(***************************************************************************)
EXTENDS Integers, Sequences

CONSTANTS
    CronJobs, Jobs,     \* the objects of the cluster
    Names, JobNames,    \* their names, unique only within a namespace
    CronName, JobName,  \* the name of each object
    Owner,              \* OwnerReferences[0] of a Job: a CronJob, or NoOwner
    Schedules,          \* cron schedules
    ConditionTypes,     \* types of Job conditions
    Lifecycle,          \* the changes of status the Job controller makes
    Informers,          \* one for each call of startInformers
    Watched,            \* the objects in the namespace of an informer
    Absent, NoOwner, NoMonitor, Idle,   \* model values
    MaxCronOps,         \* bound: CronJob creations, edits and deletions
    MaxCrashes,         \* bound: restarts of the agent
    MaxIds              \* bound: check-in IDs generated

Status == [active : Nat, succeeded : Nat, failed : Nat,
           conditions : Seq(ConditionTypes)]

ASSUME NamesAssumption ==
    /\ CronName \in [CronJobs -> Names]
    /\ JobName \in [Jobs -> JobNames]
    /\ Owner \in [Jobs -> CronJobs \cup {NoOwner}]
    /\ Watched \in [Informers -> SUBSET (CronJobs \cup Jobs)]

\* Conditions are appended and updated in place: the first one never changes.
ASSUME LifecycleAssumption ==
    \A p \in Lifecycle :
        /\ p \in Status \X Status
        /\ p[1].conditions # << >> =>
              /\ p[2].conditions # << >>
              /\ p[2].conditions[1] = p[1].conditions[1]

ASSUME MarkersAssumption == Absent \notin Schedules /\ NoOwner \notin CronJobs

ASSUME BoundsAssumption == {MaxCronOps, MaxCrashes, MaxIds} \subseteq Nat

VARIABLES
    cron,      \* the schedule of each CronJob, or Absent
    job,       \* the life and the status of each Job
    cronOps,   \* operations on CronJobs so far
    cronSeen,  \* the CronJobs in the store of each informer
    jobSeen,   \* the status of each Job in the store of each informer
    monitors,  \* cronsMetaData.cronsMonitorDataMap
    jobDatas,  \* the entries of JobDatas, of all monitor data allocated
    lastRef,   \* monitor data allocated so far
    ch, jh,    \* the handler goroutines for CronJobs and for Jobs
    checkins,  \* the check-ins captured
    lastId,    \* check-in IDs generated so far
    crashes    \* restarts so far

cluster == <<cron, job, cronOps>>
stores  == <<cronSeen, jobSeen>>
memory  == <<monitors, jobDatas, lastRef>>
sent    == <<checkins, lastId>>
vars    == <<cluster, stores, memory, ch, jh, sent, crashes>>

----------------------------------------------------------------------------
(* Data.  A *CronsMonitorData is its identity and the two fields that are  *)
(* set by NewCronsMonitorData and never change.                            *)
Monitor == [ref : Nat, slug : Names, schedule : Schedules]
JobData == [mon : Monitor, name : JobNames, id : Nat]

(* The Job of a check-in is a history variable; the agent sends the rest. *)
CheckIn == [id : Nat, status : {"in_progress", "ok", "error"},
            mon : Monitor, job : Jobs]

CronCall == [pc : {"put", "drop"}, cron : CronJobs, schedule : Schedules]
JobCall  == [pc : {"checkin", "starting", "adding", "writing"},
             on : {"ADD", "UPDATE", "DELETE"}, job : Jobs,
             status : Status, mon : Monitor, id : Nat]

CronHandler == {Idle} \cup CronCall
JobHandler  == {Idle} \cup JobCall

ASSUME NilAssumption == NoMonitor \notin Monitor /\ Idle \notin CronCall \cup JobCall

NewStatus == [active |-> 0, succeeded |-> 0, failed |-> 0, conditions |-> << >>]

(* The three branches of runSentryCronsCheckin. *)
JustBegun(s) == s.active = 0 /\ s.succeeded = 0 /\ s.failed = 0
Exited(s)    == s.active = 0 /\ (s.failed > 0 \/ s.succeeded > 0)

(* Mutant: the verdict is taken from the pod counts. *)
VerdictFromCounts(s) ==
    IF s.succeeded > 0 THEN "ok" ELSE IF s.failed > 0 THEN "error" ELSE "none"

(* Mutant: only the Complete condition is known. *)
VerdictCompleteOnly(s) ==
    IF s.conditions # << >> /\ s.conditions[1] = "Complete" THEN "ok" ELSE "none"

(* The status checkinJobEnding sends: it looks at the first condition only. *)
Verdict(s) ==
    IF s.conditions = << >> THEN "none"
    ELSE CASE s.conditions[1] = "Complete" -> "ok"
           [] s.conditions[1] = "Failed"   -> "error"
           [] OTHER                        -> "none"

(* cronsMonitorData.JobDatas[job.Name], as a set with at most one element. *)
DataOf(mon, j) == {d \in jobDatas : d.mon = mon /\ d.name = JobName[j]}

MonitorOf(j) == IF Owner[j] = NoOwner THEN NoMonitor
                ELSE monitors[CronName[Owner[j]]]

Init ==
    /\ cron = [c \in CronJobs |-> Absent]
    /\ job = [j \in Jobs |-> [life |-> "absent", status |-> NewStatus]]
    /\ cronOps = 0
    /\ cronSeen = [i \in Informers |-> {}]
    /\ jobSeen = [i \in Informers |-> [j \in Jobs |-> Absent]]
    /\ monitors = [n \in Names |-> NoMonitor]
    /\ jobDatas = {}
    /\ lastRef = 0
    /\ ch = [i \in Informers |-> Idle]
    /\ jh = [i \in Informers |-> Idle]
    /\ checkins = {}
    /\ lastId = 0
    /\ crashes = 0

----------------------------------------------------------------------------
(* The cluster. *)
CreateCronJob(c, s) ==
    /\ cron[c] = Absent
    /\ cronOps < MaxCronOps
    /\ cron' = [cron EXCEPT ![c] = s]
    /\ cronOps' = cronOps + 1
    /\ UNCHANGED <<job, stores, memory, ch, jh, sent, crashes>>

ChangeSchedule(c, s) ==
    /\ cron[c] \notin {Absent, s}
    /\ cronOps < MaxCronOps
    /\ cron' = [cron EXCEPT ![c] = s]
    /\ cronOps' = cronOps + 1
    /\ UNCHANGED <<job, stores, memory, ch, jh, sent, crashes>>

DeleteCronJob(c) ==
    /\ cron[c] # Absent
    /\ cronOps < MaxCronOps
    /\ cron' = [cron EXCEPT ![c] = Absent]
    /\ cronOps' = cronOps + 1
    /\ UNCHANGED <<job, stores, memory, ch, jh, sent, crashes>>

CreateJob(j) ==
    /\ job[j].life = "absent"
    /\ Owner[j] # NoOwner => cron[Owner[j]] # Absent
    /\ job' = [job EXCEPT ![j].life = "present"]
    /\ UNCHANGED <<cron, cronOps, stores, memory, ch, jh, sent, crashes>>

JobStep(j) ==
    /\ job[j].life = "present"
    /\ \E p \in Lifecycle :
          /\ p[1] = job[j].status
          /\ job' = [job EXCEPT ![j].status = p[2]]
    /\ UNCHANGED <<cron, cronOps, stores, memory, ch, jh, sent, crashes>>

DeleteJob(j) ==
    /\ job[j].life = "present"
    /\ job' = [job EXCEPT ![j].life = "gone"]
    /\ UNCHANGED <<cron, cronOps, stores, memory, ch, jh, sent, crashes>>

----------------------------------------------------------------------------
(* The CronJob handler: AddFunc and DeleteFunc look the name up, and act   *)
(* on the answer in a second critical section.  There is no UpdateFunc.    *)
(* Mutant: AddFunc adds monitor data without looking. *)
CronJobAddedBlindly(i, c) ==
    /\ c \in Watched[i]
    /\ ch[i] = Idle
    /\ c \notin cronSeen[i] /\ cron[c] # Absent
    /\ cronSeen' = [cronSeen EXCEPT ![i] = @ \cup {c}]
    /\ ch' = [ch EXCEPT ![i] =
                 [pc |-> "put", cron |-> c, schedule |-> cron[c]]]
    /\ UNCHANGED <<cluster, jobSeen, memory, jh, sent, crashes>>

CronJobAdded(i, c) ==
    /\ c \in Watched[i]
    /\ ch[i] = Idle
    /\ c \notin cronSeen[i] /\ cron[c] # Absent
    /\ cronSeen' = [cronSeen EXCEPT ![i] = @ \cup {c}]
    /\ IF monitors[CronName[c]] = NoMonitor
       THEN ch' = [ch EXCEPT ![i] =
                     [pc |-> "put", cron |-> c, schedule |-> cron[c]]]
       ELSE UNCHANGED ch
    /\ UNCHANGED <<cluster, jobSeen, memory, jh, sent, crashes>>

CronJobPut(i) ==
    /\ ch[i] # Idle /\ ch[i].pc = "put"
    /\ LET n == CronName[ch[i].cron]
       IN monitors' = [monitors EXCEPT ![n] =
            [ref |-> lastRef + 1, slug |-> n, schedule |-> ch[i].schedule]]
    /\ lastRef' = lastRef + 1
    /\ ch' = [ch EXCEPT ![i] = Idle]
    /\ UNCHANGED <<cluster, stores, jobDatas, jh, sent, crashes>>

CronJobDeleted(i, c) ==
    /\ c \in Watched[i]
    /\ ch[i] = Idle
    /\ c \in cronSeen[i] /\ cron[c] = Absent
    /\ cronSeen' = [cronSeen EXCEPT ![i] = @ \ {c}]
    /\ IF monitors[CronName[c]] # NoMonitor
       THEN ch' = [ch EXCEPT ![i] =
                     [pc |-> "drop", cron |-> c,
                      schedule |-> monitors[CronName[c]].schedule]]
       ELSE UNCHANGED ch
    /\ UNCHANGED <<cluster, jobSeen, memory, jh, sent, crashes>>

CronJobDrop(i) ==
    /\ ch[i] # Idle /\ ch[i].pc = "drop"
    /\ monitors' = [monitors EXCEPT ![CronName[ch[i].cron]] = NoMonitor]
    /\ ch' = [ch EXCEPT ![i] = Idle]
    /\ UNCHANGED <<cluster, stores, jobDatas, lastRef, jh, sent, crashes>>

----------------------------------------------------------------------------
(* Mutant: a Job that is deleted is not checked in. *)
RunUnlessDeleted(i, j, on) ==
    /\ jh[i] = Idle
    /\ IF MonitorOf(j) = NoMonitor \/ on = "DELETE"
       THEN UNCHANGED jh
       ELSE jh' = [jh EXCEPT ![i] =
              [pc |-> "checkin", on |-> on, job |-> j,
               status |-> job[j].status, mon |-> MonitorOf(j), id |-> 0]]
    /\ UNCHANGED <<cluster, cronSeen, memory, ch, sent, crashes>>

(* The Job handler.  The three callbacks run runSentryCronsCheckin, which  *)
(* returns an error, dropped by its callers, for a Job no CronJob owns and *)
(* for one whose CronJob has no monitor data.                              *)
RunSentryCronsCheckin(i, j, on) ==
    /\ jh[i] = Idle
    /\ IF MonitorOf(j) = NoMonitor
       THEN UNCHANGED jh
       ELSE jh' = [jh EXCEPT ![i] =
              [pc |-> "checkin", on |-> on, job |-> j,
               status |-> job[j].status, mon |-> MonitorOf(j), id |-> 0]]
    /\ UNCHANGED <<cluster, cronSeen, memory, ch, sent, crashes>>

JobAdded(i, j) ==
    /\ j \in Watched[i]
    /\ job[j].life = "present" /\ jobSeen[i][j] = Absent
    /\ jobSeen' = [jobSeen EXCEPT ![i][j] = job[j].status]
    /\ RunSentryCronsCheckin(i, j, "ADD")

(* Any change of the Job's resource version, of its status or not.  A      *)
(* resync, where the version is the same, is a step that changes nothing.  *)
JobUpdated(i, j) ==
    /\ j \in Watched[i]
    /\ job[j].life = "present" /\ jobSeen[i][j] # Absent
    /\ jobSeen' = [jobSeen EXCEPT ![i][j] = job[j].status]
    /\ RunSentryCronsCheckin(i, j, "UPDATE")

(* The notification of a deletion carries the last status of the Job. *)
JobDeleted(i, j) ==
    /\ j \in Watched[i]
    /\ job[j].life = "gone" /\ jobSeen[i][j] # Absent
    /\ jobSeen' = [jobSeen EXCEPT ![i][j] = Absent]
    /\ RunSentryCronsCheckin(i, j, "DELETE")

At(i, pc) == jh[i] # Idle /\ jh[i].pc = pc

(* Mutant: the handler keeps what it had. *)
ReturnDirty(i) == jh' = [jh EXCEPT ![i].pc = "idle"]

Return(i) == jh' = [jh EXCEPT ![i] = Idle]

(* Mutant: JobDatas is not consulted. *)
CheckinJobStartingAgain(i) ==
    /\ At(i, "checkin")
    /\ JustBegun(jh[i].status)
    /\ jh' = [jh EXCEPT ![i].pc = "starting"]
    /\ UNCHANGED <<cluster, stores, memory, ch, sent, crashes>>

(* JobDatas is read without the mutex that addJob takes. *)
CheckinJobStarting(i) ==
    /\ At(i, "checkin")
    /\ JustBegun(jh[i].status)
    /\ IF DataOf(jh[i].mon, jh[i].job) # {}
       THEN Return(i)
       ELSE jh' = [jh EXCEPT ![i].pc = "starting"]
    /\ UNCHANGED <<cluster, stores, memory, ch, sent, crashes>>

CaptureStart(i) ==
    /\ At(i, "starting")
    /\ lastId < MaxIds
    /\ lastId' = lastId + 1
    /\ checkins' = checkins \cup
         {[id |-> lastId + 1, status |-> "in_progress",
           mon |-> jh[i].mon, job |-> jh[i].job]}
    /\ jh' = [jh EXCEPT ![i].pc = "adding", ![i].id = lastId + 1]
    /\ UNCHANGED <<cluster, stores, memory, ch, crashes>>

AddJobLock(i) ==
    /\ At(i, "adding")
    /\ \A k \in Informers : At(k, "writing") => jh[k].mon # jh[i].mon
    /\ jh' = [jh EXCEPT ![i].pc = "writing"]
    /\ UNCHANGED <<cluster, stores, memory, ch, sent, crashes>>

AddJob(i) ==
    /\ At(i, "writing")
    /\ jobDatas' = (jobDatas \ DataOf(jh[i].mon, jh[i].job)) \cup
         {[mon |-> jh[i].mon, name |-> JobName[jh[i].job], id |-> jh[i].id]}
    /\ Return(i)
    /\ UNCHANGED <<cluster, stores, monitors, lastRef, ch, sent, crashes>>

(* A Job with active pods, and one without a verdict or without data. *)
NothingToReport(i) ==
    /\ At(i, "checkin")
    /\ \/ jh[i].status.active > 0
       \/ Exited(jh[i].status) /\ Verdict(jh[i].status) = "none"
       \/ Exited(jh[i].status) /\ DataOf(jh[i].mon, jh[i].job) = {}
    /\ Return(i)
    /\ UNCHANGED <<cluster, stores, memory, ch, sent, crashes>>

(* Mutant: the monitor data is looked up again before the check-in is sent. *)
CheckinJobEndingAnew(i) ==
    /\ At(i, "checkin")
    /\ Exited(jh[i].status) /\ Verdict(jh[i].status) # "none"
    /\ \E d \in DataOf(jh[i].mon, jh[i].job) :
          checkins' = checkins \cup
            {[id |-> d.id, status |-> Verdict(jh[i].status),
              mon |-> MonitorOf(jh[i].job), job |-> jh[i].job]}
    /\ Return(i)
    /\ UNCHANGED <<cluster, stores, memory, ch, lastId, crashes>>

CheckinJobEnding(i) ==
    /\ At(i, "checkin")
    /\ Exited(jh[i].status) /\ Verdict(jh[i].status) # "none"
    /\ \E d \in DataOf(jh[i].mon, jh[i].job) :
          checkins' = checkins \cup
            {[id |-> d.id, status |-> Verdict(jh[i].status),
              mon |-> jh[i].mon, job |-> jh[i].job]}
    /\ Return(i)
    /\ UNCHANGED <<cluster, stores, memory, ch, lastId, crashes>>

----------------------------------------------------------------------------
(* The process ends and Kubernetes restarts it: nothing is persisted.      *)
Restart ==
    /\ crashes < MaxCrashes
    /\ crashes' = crashes + 1
    /\ cronSeen' = [i \in Informers |-> {}]
    /\ jobSeen' = [i \in Informers |-> [j \in Jobs |-> Absent]]
    /\ monitors' = [n \in Names |-> NoMonitor]
    /\ jobDatas' = {}
    /\ ch' = [i \in Informers |-> Idle]
    /\ jh' = [i \in Informers |-> Idle]
    /\ UNCHANGED <<cluster, lastRef, sent>>

(* The pod is killed or evicted, or a DeleteFunc is given a tombstone      *)
(* (DeletedFinalStateUnknown) and its type assertion panics.               *)
Crash == Restart

(* "fatal error: concurrent map read and map write": another goroutine is  *)
(* inside addJob for the monitor data this one reads.                      *)
MapFault(i) ==
    /\ At(i, "checkin")
    /\ \/ JustBegun(jh[i].status)
       \/ Exited(jh[i].status) /\ Verdict(jh[i].status) # "none"
    /\ \E k \in Informers : At(k, "writing") /\ jh[k].mon = jh[i].mon
    /\ Restart

ClusterStep ==
    \/ \E c \in CronJobs, s \in Schedules :
          CreateCronJob(c, s) \/ ChangeSchedule(c, s)
    \/ \E c \in CronJobs : DeleteCronJob(c)
    \/ \E j \in Jobs : CreateJob(j) \/ JobStep(j) \/ DeleteJob(j)

CronStep(i) ==
    \/ \E c \in CronJobs : CronJobAdded(i, c) \/ CronJobDeleted(i, c)
    \/ CronJobPut(i) \/ CronJobDrop(i)

Deliver(i, j) == JobAdded(i, j) \/ JobUpdated(i, j) \/ JobDeleted(i, j)

HandlerStep(i) ==
    \/ CheckinJobStarting(i) \/ CaptureStart(i) \/ AddJobLock(i) \/ AddJob(i)
    \/ NothingToReport(i) \/ CheckinJobEnding(i)

Next ==
    \/ ClusterStep
    \/ \E i \in Informers :
          \/ CronStep(i) \/ HandlerStep(i) \/ MapFault(i)
          \/ \E j \in Jobs : Deliver(i, j)
    \/ Crash

Spec == Init /\ [][Next]_vars

(* What the scheduler owes: a goroutine that can run does so in the end,   *)
(* and every change reaches the Job handler however often other Jobs are   *)
(* updated meanwhile, for its notifications wait in a queue.               *)
JobChanged(i, j) == Deliver(i, j) /\ jobSeen[i][j] # job[j].status

Fairness ==
    \A i \in Informers :
        /\ WF_vars(CronStep(i))
        /\ WF_vars(HandlerStep(i))
        /\ \A j \in Jobs :
              SF_vars(JobChanged(i, j)) /\ SF_vars(JobDeleted(i, j))

FairSpec == Spec /\ Fairness

----------------------------------------------------------------------------
(* Every variable stays in its type. *)
TypeOK ==
    /\ cron \in [CronJobs -> Schedules \cup {Absent}]
    /\ job \in [Jobs -> [life : {"absent", "present", "gone"}, status : Status]]
    /\ cronOps \in Nat
    /\ cronSeen \in [Informers -> SUBSET CronJobs]
    /\ jobSeen \in [Informers -> [Jobs -> Status \cup {Absent}]]
    /\ monitors \in [Names -> Monitor \cup {NoMonitor}]
    /\ jobDatas \subseteq JobData
    /\ lastRef \in Nat
    /\ ch \in [Informers -> CronHandler]
    /\ jh \in [Informers -> JobHandler]
    /\ checkins \subseteq CheckIn
    /\ lastId \in Nat
    /\ crashes \in Nat

Starts == {c \in checkins : c.status = "in_progress"}
Ends   == checkins \ Starts

(* A closing check-in goes to a check-in that was opened before it, for    *)
(* the same monitor data and the same Job name, whatever restarts, lost    *)
(* monitor data and other namespaces did in between.                       *)
EndHasStart ==
    \A e \in Ends : \E s \in Starts :
        /\ s.id = e.id /\ s.mon = e.mon
        /\ JobName[s.job] = JobName[e.job]

(* A Job is checked in once per monitor data.  Only one goroutine reads    *)
(* JobDatas, captures and writes JobDatas where names are unique.          *)
OneStartPerMonitor ==
    \A s, t \in Starts :
        s.mon = t.mon /\ JobName[s.job] = JobName[t.job] => s.id = t.id

(* "Struct associated with a job" (crons_monitor_data.go): a check-in ID   *)
(* belongs to one Job, so all check-ins under it are about that Job.       *)
CheckInOfOneJob == \A c, d \in checkins : c.id = d.id => c.job = d.job

Finished(s) == \E k \in 1..Len(s.conditions) :
                   s.conditions[k] \in {"Complete", "Failed"}
Result(s) == IF \E k \in 1..Len(s.conditions) : s.conditions[k] = "Complete"
             THEN "ok" ELSE "error"

(* checkinJobEnding: "Sends the checkin event to sentry crons for when a   *)
(* job ends".  Once the handler is done with a finished Job, the check-in  *)
(* the agent holds for it under the current monitor data has its result.   *)
EndedJobIsClosed ==
    \A i \in Informers : \A j \in Watched[i] \cap Jobs :
        /\ jh[i] = Idle
        /\ jobSeen[i][j] # Absent
        /\ Finished(jobSeen[i][j])
        => \A d \in jobDatas :
              d.name = JobName[j] /\ d.mon = MonitorOf(j) =>
                 \E e \in Ends : /\ e.id = d.id /\ e.job = j
                                 /\ e.status = Result(jobSeen[i][j])

(* AddFunc, on monitor data it finds: "already exists in the crons         *)
(* informer data struct".  Monitor data is never replaced, which would     *)
(* lose the check-ins in progress: it must be deleted first.  True of one  *)
(* informer, whose AddFunc never runs twice at a time; two may both find   *)
(* no monitor data, and the second replaces what the first added.          *)
MonitorKept ==
    [][\A n \in Names :
          monitors[n] # NoMonitor => monitors'[n] \in {monitors[n], NoMonitor}]_vars

(* A Job that was checked in and then finished is eventually closed with   *)
(* its result, however late its notifications are and even when it is      *)
(* deleted first, as long as the agent keeps the monitor data under which  *)
(* it was checked in.                                                      *)
EndIsReported ==
    \A j \in Jobs :
        (/\ Finished(job[j].status)
         /\ \E s \in Starts : s.job = j /\ s.mon = MonitorOf(j))
        ~> \/ \E e \in Ends : e.job = j /\ e.status = Result(job[j].status)
           \/ ~\E s \in Starts : s.job = j /\ s.mon = MonitorOf(j)

----------------------------------------------------------------------------
(* Where an ID comes from: one that JobDatas holds, that a handler is about *)
(* to put there, or that a closing check-in used is the ID of a start, for  *)
(* that monitor data and that Job name.                                     *)
Holds(i) == At(i, "adding") \/ At(i, "writing")

DataHasStart ==
    \A d \in jobDatas : \E s \in Starts :
        s.id = d.id /\ s.mon = d.mon /\ JobName[s.job] = d.name

HandlerHasStart ==
    \A i \in Informers : Holds(i) =>
        \E s \in Starts :
            s.id = jh[i].id /\ s.mon = jh[i].mon /\ s.job = jh[i].job

OriginInv == DataHasStart /\ HandlerHasStart /\ EndHasStart

(* What is known of a Job stays true: IDs are not reused, and a handler or  *)
(* a closing check-in has no verdict but the one the Job still has.         *)
IdsUsed == lastId <= MaxIds /\ \A c \in checkins : c.id \in 1..lastId

StartsUnique == \A s, t \in Starts : s.id = t.id => s = t

HandlerVerdict ==
    \A i \in Informers : jh[i] # Idle =>
        Verdict(jh[i].status) \in {"none", Verdict(job[jh[i].job].status)}

EndVerdict == \A e \in Ends : e.status = Verdict(job[e.job].status)

TruthInv == IdsUsed /\ StartsUnique /\ HandlerVerdict /\ EndVerdict

(* An ID is the start of one run and every answer a handler has in hand is  *)
(* the Job's own: the inductive invariant behind EndHasStart and the        *)
(* implementation of CheckInLifecycle, across restarts and lagging stores.  *)
CheckinInv == OriginInv /\ TruthInv

UniqueJobNames == \A j, k \in Jobs : JobName[j] = JobName[k] => j = k

(* No two informers see a CronJob, or a Job, of the same name: no namespace *)
(* is watched twice, and none has a name that another one has.              *)
CronNamesApart ==
    \A i, k \in Informers : i # k =>
        \A c \in Watched[i] \cap CronJobs, d \in Watched[k] \cap CronJobs :
            CronName[c] # CronName[d]

JobNamesApart ==
    \A i, k \in Informers : i # k =>
        \A j \in Watched[i] \cap Jobs, l \in Watched[k] \cap Jobs :
            JobName[j] # JobName[l]

(* The conditions of a Job say nothing before it has its result, and it has *)
(* had pods then: no Job is ever suspended.                                 *)
IsPlain(s) == Finished(s) => Exited(s) /\ Verdict(s) = Result(s)

PlainConditions == \A p \in Lifecycle : IsPlain(p[2])

Opened == {[id |-> s.id, slug |-> s.mon.slug, run |-> JobName[s.job]] :
             s \in Starts}
Closed == {[id |-> e.id, slug |-> e.mon.slug, run |-> JobName[e.job],
            verdict |-> e.status] : e \in Ends}

Lifecycles == INSTANCE CheckInLifecycle WITH
    Ids <- 1..MaxIds, Slugs <- Names, Runs <- JobNames, Verdicts <- {"ok", "error"},
    opened <- Opened, closed <- Closed

(* Where no two Jobs have the same name, the check-ins are those of         *)
(* CheckInLifecycle: opened once, closed under what they were opened for,   *)
(* never with two different verdicts.                                       *)
ImplementsLifecycle == Lifecycles!Spec
=============================================================================
