---------------------------- MODULE CronsProofs ----------------------------
(***************************************************************************)
(* Theorems about CronsCheckins, for every cluster, every assignment of    *)
(* names, any number of informers and every bound.                         *)
(***************************************************************************)
EXTENDS CronsCheckins, TLAPS

USE DEF At

(* The initial status and what handlers carry are of their types. *)
LEMMA InitType == Init => TypeOK
  <1> SUFFICES ASSUME Init PROVE TypeOK
    OBVIOUS
  <1>1. NewStatus \in Status
    BY DEF NewStatus, Status
  <1>2. QED
    BY <1>1 DEF Init, TypeOK, CronHandler, CronCall, JobHandler, JobCall

LEMMA VerdictType ==
    ASSUME NEW s, Verdict(s) # "none"
    PROVE  Verdict(s) \in {"ok", "error"}
  BY DEF Verdict

(* The handler of an informer that runs has a Job, its status and monitor data. *)
LEMMA RunningHandlerType ==
    ASSUME TypeOK, NEW i \in Informers, jh[i] # Idle
    PROVE  /\ jh[i].job \in Jobs /\ jh[i].mon \in Monitor
           /\ jh[i].status \in Status /\ jh[i].id \in Nat
           /\ JobName[jh[i].job] \in JobNames
  BY NamesAssumption DEF TypeOK, JobHandler, JobCall

LEMMA ClusterStepType ==
    ASSUME TypeOK, ClusterStep
    PROVE  TypeOK'
  <1>1. ASSUME NEW c \in CronJobs, NEW s \in Schedules,
               CreateCronJob(c, s) \/ ChangeSchedule(c, s)
        PROVE  TypeOK'
    BY <1>1 DEF TypeOK, CreateCronJob, ChangeSchedule, stores, memory, sent
  <1>2. ASSUME NEW c \in CronJobs, DeleteCronJob(c)
        PROVE  TypeOK'
    BY <1>2 DEF TypeOK, DeleteCronJob, stores, memory, sent
  <1>3. ASSUME NEW j \in Jobs, CreateJob(j) \/ DeleteJob(j)
        PROVE  TypeOK'
    <2>1. job[j] \in [life : {"absent", "present", "gone"}, status : Status]
      BY DEF TypeOK
    <2>2. PICK l \in {"present", "gone"} : job' = [job EXCEPT ![j].life = l]
      BY <1>3 DEF CreateJob, DeleteJob
    <2>3. job' \in [Jobs -> [life : {"absent", "present", "gone"},
                             status : Status]]
      BY <2>1, <2>2 DEF TypeOK
    <2>4. QED
      BY <1>3, <2>3 DEF TypeOK, CreateJob, DeleteJob, stores, memory, sent
  <1>4. ASSUME NEW j \in Jobs, JobStep(j)
        PROVE  TypeOK'
    BY <1>4, LifecycleAssumption
       DEF TypeOK, JobStep, stores, memory, sent
  <1>5. QED
    BY <1>1, <1>2, <1>3, <1>4 DEF ClusterStep

LEMMA CronStepType ==
    ASSUME TypeOK, NEW i \in Informers, CronStep(i)
    PROVE  TypeOK'
  <1>1. ASSUME NEW c \in CronJobs, CronJobAdded(i, c)
        PROVE  TypeOK'
    BY <1>1 DEF TypeOK, CronJobAdded, CronHandler, CronCall, cluster, memory, sent
  <1>2. ASSUME NEW c \in CronJobs, CronJobDeleted(i, c)
        PROVE  TypeOK'
    <2>1. CronName[c] \in Names
      BY NamesAssumption
    <2>2. monitors[CronName[c]] # NoMonitor =>
             monitors[CronName[c]].schedule \in Schedules
      BY <2>1 DEF TypeOK, Monitor
    <2>3. QED
      BY <1>2, <2>2
         DEF TypeOK, CronJobDeleted, CronHandler, CronCall, cluster, memory, sent
  <1>3. ASSUME CronJobPut(i)
        PROVE  TypeOK'
    <2>1. ch[i].cron \in CronJobs /\ ch[i].schedule \in Schedules
      BY <1>3 DEF TypeOK, CronJobPut, CronHandler, CronCall
    <2>2. CronName[ch[i].cron] \in Names
      BY <2>1, NamesAssumption
    <2>3. QED
      BY <1>3, <2>1, <2>2
         DEF TypeOK, CronJobPut, Monitor, CronHandler, CronCall, cluster, stores, sent
  <1>4. ASSUME CronJobDrop(i)
        PROVE  TypeOK'
    BY <1>4 DEF TypeOK, CronJobDrop, CronHandler, CronCall, cluster, stores, sent
  <1>5. QED
    BY <1>1, <1>2, <1>3, <1>4 DEF CronStep

LEMMA DeliverType ==
    ASSUME TypeOK, NEW i \in Informers, NEW j \in Jobs, Deliver(i, j)
    PROVE  TypeOK'
  <1>1. job[j].status \in Status
    BY DEF TypeOK
  <1>2. MonitorOf(j) \in Monitor \cup {NoMonitor}
    BY NamesAssumption DEF TypeOK, MonitorOf
  <1>3. ASSUME NEW on \in {"ADD", "UPDATE", "DELETE"},
               RunSentryCronsCheckin(i, j, on)
        PROVE  jh' \in [Informers -> JobHandler]
    <2> DEFINE h == [pc |-> "checkin", on |-> on, job |-> j,
                     status |-> job[j].status, mon |-> MonitorOf(j), id |-> 0]
    <2>1. MonitorOf(j) # NoMonitor => h \in JobHandler
      BY <1>1, <1>2 DEF JobHandler, JobCall
    <2>2. jh \in [Informers -> JobHandler]
      BY DEF TypeOK
    <2>3. CASE MonitorOf(j) = NoMonitor
      BY <1>3, <2>2, <2>3 DEF RunSentryCronsCheckin
    <2>4. CASE MonitorOf(j) # NoMonitor
      <3>1. jh' = [jh EXCEPT ![i] = h]
        BY <1>3, <2>4 DEF RunSentryCronsCheckin
      <3>2. h \in JobHandler
        BY <2>1, <2>4
      <3> HIDE DEF h
      <3>3. QED
        BY <3>1, <3>2, <2>2
    <2>5. QED
      BY <2>3, <2>4
  <1>4. jobSeen' \in [Informers -> [Jobs -> Status \cup {Absent}]]
    <2>1. PICK v \in Status \cup {Absent} :
             jobSeen' = [jobSeen EXCEPT ![i][j] = v]
      BY <1>1 DEF Deliver, JobAdded, JobUpdated, JobDeleted
    <2>2. jobSeen \in [Informers -> [Jobs -> Status \cup {Absent}]]
      BY DEF TypeOK
    <2>3. QED
      BY <2>1, <2>2
  <1>5. \E on \in {"ADD", "UPDATE", "DELETE"} : RunSentryCronsCheckin(i, j, on)
    BY DEF Deliver, JobAdded, JobUpdated, JobDeleted
  <1>6. QED
    BY <1>3, <1>4, <1>5
       DEF TypeOK, RunSentryCronsCheckin, cluster, memory, sent

LEMMA HandlerStepType ==
    ASSUME TypeOK, NEW i \in Informers, HandlerStep(i)
    PROVE  TypeOK'
  <1>1. jh[i] # Idle
    BY DEF HandlerStep, CheckinJobStarting, CaptureStart, AddJobLock, AddJob,
           NothingToReport, CheckinJobEnding
  <1> DEFINE h == jh[i]
  <1>2. /\ h.job \in Jobs /\ h.mon \in Monitor /\ h.status \in Status
        /\ h.id \in Nat /\ JobName[h.job] \in JobNames
    BY <1>1, RunningHandlerType
  <1>a. Return(i) => jh' \in [Informers -> JobHandler]
    BY DEF TypeOK, Return, JobHandler, JobCall
  <1>b. ASSUME NEW pc \in {"starting", "adding", "writing"}, NEW n \in Nat
        PROVE  [jh[i] EXCEPT !.pc = pc, !.id = n] \in JobHandler
    <2>1. jh[i] \in JobCall
      BY <1>1 DEF TypeOK, JobHandler
    <2>2. [jh[i] EXCEPT !.pc = pc, !.id = n] \in JobCall
      BY <2>1 DEF JobCall
    <2>3. QED
      BY <2>2 DEF JobHandler
  <1>c. ASSUME NEW pc \in {"starting", "writing"},
               jh' = [jh EXCEPT ![i].pc = pc]
        PROVE  jh' \in [Informers -> JobHandler]
    <2>1. [jh[i] EXCEPT !.pc = pc] \in JobHandler
      <3>1. jh[i] \in JobCall
        BY <1>1 DEF TypeOK, JobHandler
      <3>2. [jh[i] EXCEPT !.pc = pc] \in JobCall
        BY <3>1 DEF JobCall
      <3>3. QED
        BY <3>2 DEF JobHandler
    <2>2. QED
      BY <1>c, <2>1 DEF TypeOK
  <1>3. CASE CheckinJobStarting(i) \/ AddJobLock(i) \/ NothingToReport(i)
    <2>1. jh' \in [Informers -> JobHandler]
      BY <1>3, <1>a, <1>c DEF CheckinJobStarting, AddJobLock, NothingToReport
    <2>2. QED
      BY <1>3, <2>1
         DEF TypeOK, CheckinJobStarting, AddJobLock, NothingToReport,
             cluster, stores, memory, sent
  <1>4. CASE CaptureStart(i)
    <2>1. jh' \in [Informers -> JobHandler]
      <3>1. lastId + 1 \in Nat
        BY DEF TypeOK
      <3>2. [jh[i] EXCEPT !.pc = "adding", !.id = lastId + 1] \in JobHandler
        BY <3>1, <1>b
      <3>3. QED
        BY <1>4, <3>2 DEF TypeOK, CaptureStart
    <2>2. checkins' \subseteq CheckIn /\ lastId' \in Nat
      BY <1>2, <1>4 DEF TypeOK, CaptureStart, CheckIn
    <2>3. QED
      BY <1>4, <2>1, <2>2 DEF TypeOK, CaptureStart, cluster, stores, memory
  <1>5. CASE AddJob(i)
    <2>1. jobDatas' \subseteq JobData
      BY <1>2, <1>5 DEF TypeOK, AddJob, DataOf, JobData
    <2>2. QED
      BY <1>5, <1>a, <2>1
         DEF TypeOK, AddJob, cluster, stores, sent
  <1>6. CASE CheckinJobEnding(i)
    <2>1. PICK d \in DataOf(h.mon, h.job) :
             checkins' = checkins \cup
               {[id |-> d.id, status |-> Verdict(h.status),
                 mon |-> h.mon, job |-> h.job]}
      BY <1>6 DEF CheckinJobEnding
    <2>2. d.id \in Nat
      BY DEF DataOf, TypeOK, JobData
    <2>3. Verdict(h.status) \in {"ok", "error"}
      BY <1>6, VerdictType DEF CheckinJobEnding
    <2>4. checkins' \subseteq CheckIn
      BY <1>2, <2>1, <2>2, <2>3 DEF TypeOK, CheckIn
    <2>5. QED
      BY <1>6, <1>a, <2>4
         DEF TypeOK, CheckinJobEnding, cluster, stores, memory
  <1>7. QED
    BY <1>3, <1>4, <1>5, <1>6 DEF HandlerStep

LEMMA RestartType ==
    ASSUME TypeOK, Restart
    PROVE  TypeOK'
  BY DEF TypeOK, Restart, CronHandler, CronCall, JobHandler, JobCall, cluster, sent

(* Every variable stays in its type, in every behaviour. *)
THEOREM TypeCorrect == Spec => []TypeOK
  <1>1. TypeOK /\ [Next]_vars => TypeOK'
    <2> SUFFICES ASSUME TypeOK, [Next]_vars
                 PROVE  TypeOK'
      OBVIOUS
    <2>1. CASE ClusterStep
      BY <2>1, ClusterStepType
    <2>2. CASE \E i \in Informers : CronStep(i)
      BY <2>2, CronStepType
    <2>3. CASE \E i \in Informers : HandlerStep(i)
      BY <2>3, HandlerStepType
    <2>4. CASE \E i \in Informers, j \in Jobs : Deliver(i, j)
      BY <2>4, DeliverType
    <2>5. CASE Crash \/ \E i \in Informers : MapFault(i)
      BY <2>5, RestartType DEF Crash, MapFault
    <2>6. CASE UNCHANGED vars
      BY <2>6 DEF TypeOK, vars, cluster, stores, memory, sent
    <2>7. QED
      BY <2>1, <2>2, <2>3, <2>4, <2>5, <2>6 DEF Next
  <1>2. QED
    BY InitType, <1>1, PTL DEF Spec

----------------------------------------------------------------------------
(* The origin of check-in IDs. *)

(* A step that captures nothing, adds nothing to JobDatas and starts no    *)
(* addJob keeps OriginInv.                                                 *)
LEMMA QuietStep ==
    ASSUME OriginInv, checkins' = checkins, jobDatas' \subseteq jobDatas,
           \A i \in Informers : Holds(i)' =>
              /\ Holds(i) /\ jh'[i].id = jh[i].id
              /\ jh'[i].mon = jh[i].mon /\ jh'[i].job = jh[i].job
    PROVE  OriginInv'
  <1>1. Starts' = Starts /\ Ends' = Ends
    BY DEF Starts, Ends
  <1>2. DataHasStart'
    BY <1>1 DEF OriginInv, DataHasStart
  <1>3. HandlerHasStart'
    BY <1>1 DEF OriginInv, HandlerHasStart
  <1>4. EndHasStart'
    BY <1>1 DEF OriginInv, EndHasStart
  <1>5. QED
    BY <1>2, <1>3, <1>4 DEF OriginInv

(* The steps of the cluster and of the CronJob handler are such steps. *)
LEMMA ClusterCronQuiet ==
    ASSUME \/ ClusterStep
           \/ \E i \in Informers : CronStep(i)
           \/ UNCHANGED vars
    PROVE  checkins' = checkins /\ jobDatas' = jobDatas /\ jh' = jh
  BY DEF ClusterStep, CreateCronJob, ChangeSchedule, DeleteCronJob, CreateJob,
         JobStep, DeleteJob, CronStep, CronJobAdded, CronJobDeleted,
         CronJobPut, CronJobDrop, memory, sent, vars

(* A notification leaves a handler idle or at the beginning of its work,   *)
(* with the status its Job has now.                                        *)
LEMMA DeliverEffect ==
    ASSUME TypeOK, NEW i \in Informers, NEW j \in Jobs, Deliver(i, j)
    PROVE  /\ UNCHANGED <<job, memory, sent>>
           /\ \A k \in Informers :
                 \/ jh'[k] = jh[k]
                 \/ /\ jh'[k].pc = "checkin"
                    /\ jh'[k].job = j /\ jh'[k].status = job[j].status
  <1>1. PICK on \in {"ADD", "UPDATE", "DELETE"} : RunSentryCronsCheckin(i, j, on)
    BY DEF Deliver, JobAdded, JobUpdated, JobDeleted
  <1>2. jh \in [Informers -> JobHandler]
    BY DEF TypeOK
  <1>3. QED
    BY <1>1, <1>2 DEF RunSentryCronsCheckin, cluster

LEMMA OriginStep ==
    ASSUME TypeOK, OriginInv, Next
    PROVE  OriginInv'
  <1>0. jh \in [Informers -> JobHandler]
    BY DEF TypeOK
  <1>1. CASE ClusterStep \/ \E i \in Informers : CronStep(i)
    BY <1>1, ClusterCronQuiet, QuietStep DEF Holds
  <1>2. ASSUME NEW i \in Informers, NEW j \in Jobs, Deliver(i, j)
        PROVE  OriginInv'
    <2>1. checkins' = checkins /\ jobDatas' = jobDatas
      BY <1>2, DeliverEffect DEF memory, sent
    <2>2. \A k \in Informers : Holds(k)' => jh'[k] = jh[k]
      BY <1>2, DeliverEffect DEF Holds
    <2>3. QED
      BY <2>1, <2>2, QuietStep DEF Holds
  <1>3. ASSUME NEW i \in Informers,
               CheckinJobStarting(i) \/ AddJobLock(i) \/ NothingToReport(i)
        PROVE  OriginInv'
    <2>1. checkins' = checkins /\ jobDatas' = jobDatas
      BY <1>3 DEF CheckinJobStarting, AddJobLock, NothingToReport, memory, sent
    <2>2. \A k \in Informers : Holds(k)' =>
             /\ Holds(k) /\ jh'[k].id = jh[k].id
             /\ jh'[k].mon = jh[k].mon /\ jh'[k].job = jh[k].job
      BY <1>0, <1>3
         DEF CheckinJobStarting, AddJobLock, NothingToReport, Return, Holds,
             JobHandler, JobCall
    <2>3. QED
      BY <2>1, <2>2, QuietStep
  <1>4. ASSUME NEW i \in Informers, CaptureStart(i)
        PROVE  OriginInv'
    <2> DEFINE n == [id |-> lastId + 1, status |-> "in_progress",
                     mon |-> jh[i].mon, job |-> jh[i].job]
    <2>1. Starts' = Starts \cup {n} /\ Ends' = Ends
      BY <1>4 DEF CaptureStart, Starts, Ends
    <2>2. DataHasStart'
      BY <1>4, <2>1 DEF OriginInv, DataHasStart, CaptureStart, memory
    <2>3. EndHasStart'
      BY <2>1 DEF OriginInv, EndHasStart
    <2>4. HandlerHasStart'
      <3> SUFFICES ASSUME NEW k \in Informers, Holds(k)'
                   PROVE  \E s \in Starts' :
                             /\ s.id = jh'[k].id /\ s.mon = jh'[k].mon
                             /\ s.job = jh'[k].job
        BY DEF HandlerHasStart
      <3>1. CASE k = i
        <4>1. /\ jh'[k].id = n.id /\ jh'[k].mon = n.mon
              /\ jh'[k].job = n.job
          BY <1>0, <1>4, <3>1 DEF CaptureStart, JobHandler, JobCall
        <4>2. QED
          BY <4>1, <2>1
      <3>2. CASE k # i
        <4>1. jh'[k] = jh[k]
          BY <1>0, <1>4, <3>2 DEF CaptureStart
        <4>2. Holds(k)
          BY <4>1 DEF Holds
        <4>3. QED
          BY <4>1, <4>2, <2>1 DEF OriginInv, HandlerHasStart
      <3>3. QED
        BY <3>1, <3>2
    <2>5. QED
      BY <2>2, <2>3, <2>4 DEF OriginInv
  <1>5. ASSUME NEW i \in Informers, AddJob(i)
        PROVE  OriginInv'
    <2> DEFINE n == [mon |-> jh[i].mon, name |-> JobName[jh[i].job],
                     id |-> jh[i].id]
    <2>1. Starts' = Starts /\ Ends' = Ends
      BY <1>5 DEF AddJob, sent, Starts, Ends
    <2>2. DataHasStart'
      <3>1. PICK s \in Starts : /\ s.id = n.id /\ s.mon = n.mon
                                /\ JobName[s.job] = n.name
        BY <1>5 DEF OriginInv, HandlerHasStart, Holds, AddJob
      <3>2. jobDatas' \subseteq jobDatas \cup {n}
        BY <1>5 DEF AddJob
      <3>3. QED
        BY <2>1, <3>1, <3>2 DEF OriginInv, DataHasStart
    <2>3. HandlerHasStart'
      <3>1. \A k \in Informers : Holds(k)' => jh'[k] = jh[k] /\ Holds(k)
        BY <1>0, <1>5 DEF AddJob, Return, Holds
      <3>2. QED
        BY <2>1, <3>1 DEF OriginInv, HandlerHasStart
    <2>4. EndHasStart'
      BY <2>1 DEF OriginInv, EndHasStart
    <2>5. QED
      BY <2>2, <2>3, <2>4 DEF OriginInv
  <1>6. ASSUME NEW i \in Informers, CheckinJobEnding(i)
        PROVE  OriginInv'
    <2>1. PICK d \in DataOf(jh[i].mon, jh[i].job) :
             checkins' = checkins \cup
               {[id |-> d.id, status |-> Verdict(jh[i].status),
                 mon |-> jh[i].mon, job |-> jh[i].job]}
      BY <1>6 DEF CheckinJobEnding
    <2> DEFINE n == [id |-> d.id, status |-> Verdict(jh[i].status),
                     mon |-> jh[i].mon, job |-> jh[i].job]
    <2>2. n.status # "in_progress"
      BY <1>6, VerdictType DEF CheckinJobEnding
    <2>3. Starts' = Starts /\ Ends' = Ends \cup {n}
      BY <2>1, <2>2 DEF Starts, Ends
    <2>4. DataHasStart'
      BY <1>6, <2>3 DEF OriginInv, DataHasStart, CheckinJobEnding, memory
    <2>5. HandlerHasStart'
      <3>1. \A k \in Informers : Holds(k)' => jh'[k] = jh[k] /\ Holds(k)
        BY <1>0, <1>6 DEF CheckinJobEnding, Return, Holds
      <3>2. QED
        BY <2>3, <3>1 DEF OriginInv, HandlerHasStart
    <2>6. EndHasStart'
      <3>1. \E s \in Starts : /\ s.id = n.id /\ s.mon = n.mon
                              /\ JobName[s.job] = JobName[n.job]
        BY DEF OriginInv, DataHasStart, DataOf
      <3>2. QED
        BY <2>3, <3>1 DEF OriginInv, EndHasStart
    <2>7. QED
      BY <2>4, <2>5, <2>6 DEF OriginInv
  <1>7. CASE Restart
    <2>1. \A k \in Informers : ~Holds(k)'
      BY <1>7 DEF Restart, Holds
    <2>2. QED
      BY <1>7, <2>1, QuietStep DEF Restart, sent
  <1>8. QED
    BY <1>1, <1>2, <1>3, <1>4, <1>5, <1>6, <1>7
       DEF Next, HandlerStep, Crash, MapFault

(* A closing check-in has a start, under the same ID, monitor data and Job *)
(* name, whatever the namespaces, their names and the restarts are.        *)
THEOREM EndHasItsStart == Spec => []EndHasStart
  <1>1. Init => OriginInv
    BY DEF Init, OriginInv, DataHasStart, HandlerHasStart, EndHasStart,
           Starts, Ends, Holds
  <1>2. TypeOK /\ OriginInv /\ [Next]_vars => OriginInv'
    BY OriginStep, ClusterCronQuiet, QuietStep DEF Holds
  <1>3. OriginInv => EndHasStart
    BY DEF OriginInv
  <1>4. QED
    BY <1>1, <1>2, <1>3, TypeCorrect, PTL DEF Spec

----------------------------------------------------------------------------
(* The truth of verdicts. *)

(* The verdict of a status, once there, outlives every change of it. *)
LEMMA VerdictStays ==
    ASSUME NEW p \in Lifecycle
    PROVE  Verdict(p[1]) \in {"none", Verdict(p[2])}
  <1>1. CASE p[1].conditions = << >>
    BY <1>1 DEF Verdict
  <1>2. CASE p[1].conditions # << >>
    <2>1. /\ p[2].conditions # << >>
          /\ p[2].conditions[1] = p[1].conditions[1]
      BY <1>2, LifecycleAssumption
    <2>2. QED
      BY <1>2, <2>1 DEF Verdict
  <1>3. QED
    BY <1>1, <1>2

(* The verdicts in hand stay true where no Job changes and no handler has  *)
(* been notified.                                                          *)
LEMMA VerdictsInHand ==
    ASSUME HandlerVerdict, UNCHANGED job,
           \A i \in Informers : jh'[i] # Idle =>
              jh[i] # Idle /\ jh'[i].status = jh[i].status /\ jh'[i].job = jh[i].job
    PROVE  HandlerVerdict'
  <1>1. ASSUME NEW i \in Informers, jh'[i] # Idle
        PROVE  Verdict(jh'[i].status) \in {"none", Verdict(job'[jh'[i].job].status)}
    BY <1>1 DEF HandlerVerdict
  <1>2. (\A i \in Informers : jh[i] # Idle =>
             Verdict(jh[i].status) \in {"none", Verdict(job[jh[i].job].status)})'
    BY <1>1 DEF Verdict
  <1>3. QED
    BY <1>2 DEF HandlerVerdict

(* A step that captures nothing keeps TruthInv when every verdict stays    *)
(* and a running handler either was running or has just been notified.     *)
LEMMA QuietTruth ==
    ASSUME TypeOK, TruthInv, UNCHANGED sent,
           \A j \in Jobs :
              Verdict(job[j].status) \in {"none", Verdict(job'[j].status)},
           \A i \in Informers : jh'[i] # Idle =>
              \/ /\ jh[i] # Idle
                 /\ jh'[i].status = jh[i].status /\ jh'[i].job = jh[i].job
              \/ \E j \in Jobs : /\ jh'[i].job = j
                                 /\ jh'[i].status = job'[j].status
    PROVE  TruthInv'
  <1>1. checkins' = checkins /\ lastId' = lastId
    BY DEF sent
  <1>2. Starts' = Starts /\ Ends' = Ends
    BY <1>1 DEF Starts, Ends
  <1>3. IdsUsed' /\ StartsUnique'
    BY <1>1, <1>2 DEF TruthInv, IdsUsed, StartsUnique
  <1>4. HandlerVerdict'
    <2> SUFFICES ASSUME NEW i \in Informers, jh'[i] # Idle
                 PROVE  Verdict(jh'[i].status) \in
                           {"none", Verdict(job'[jh'[i].job].status)}
      BY DEF HandlerVerdict, Verdict
    <2>1. CASE /\ jh[i] # Idle
               /\ jh'[i].status = jh[i].status /\ jh'[i].job = jh[i].job
      <3>1. Verdict(jh[i].status) \in {"none", Verdict(job[jh[i].job].status)}
        BY <2>1 DEF TruthInv, HandlerVerdict
      <3>2. jh[i].job \in Jobs
        BY <2>1, RunningHandlerType
      <3>3. Verdict(jh'[i].status) = Verdict(jh[i].status)
        BY <2>1
      <3>4. QED
        BY <2>1, <3>1, <3>2, <3>3
    <2>2. CASE \E j \in Jobs : /\ jh'[i].job = j
                               /\ jh'[i].status = job'[j].status
      BY <2>2
    <2>3. QED
      BY <2>1, <2>2
  <1>5. EndVerdict'
    <2> SUFFICES ASSUME NEW e \in Ends
                 PROVE  e.status = Verdict(job'[e.job].status)
      BY <1>2 DEF EndVerdict, Verdict
    <2>1. e.job \in Jobs /\ e.status \in {"ok", "error"}
      BY DEF Ends, Starts, TypeOK, CheckIn
    <2>2. e.status = Verdict(job[e.job].status)
      BY DEF TruthInv, EndVerdict
    <2>3. QED
      BY <2>1, <2>2
  <1>6. QED
    BY <1>3, <1>4, <1>5 DEF TruthInv

(* The cluster changes the status of a Job by a step of its life, or not.  *)
LEMMA JobChanges ==
    ASSUME TypeOK, ClusterStep, NEW j \in Jobs
    PROVE  /\ \/ job'[j].status = job[j].status
              \/ \E p \in Lifecycle : p[1] = job[j].status /\ job'[j].status = p[2]
           /\ Verdict(job[j].status) \in {"none", Verdict(job'[j].status)}
  <1>1. \/ job'[j].status = job[j].status
        \/ \E p \in Lifecycle : p[1] = job[j].status /\ job'[j].status = p[2]
    <2>1. ASSUME NEW k \in Jobs, JobStep(k)
          PROVE  \/ job'[j].status = job[j].status
                 \/ \E p \in Lifecycle : p[1] = job[j].status /\ job'[j].status = p[2]
      BY <2>1 DEF JobStep, TypeOK
    <2>2. ASSUME NEW k \in Jobs, CreateJob(k) \/ DeleteJob(k)
          PROVE  job'[j].status = job[j].status
      <3>1. PICK l : job' = [job EXCEPT ![k].life = l]
        BY <2>2 DEF CreateJob, DeleteJob
      <3>2. QED
        BY <3>1 DEF TypeOK
    <2>3. ASSUME NEW c \in CronJobs,
                 \/ DeleteCronJob(c)
                 \/ \E s \in Schedules : CreateCronJob(c, s) \/ ChangeSchedule(c, s)
          PROVE  job' = job
      BY <2>3 DEF CreateCronJob, ChangeSchedule, DeleteCronJob
    <2>4. QED
      BY <2>1, <2>2, <2>3 DEF ClusterStep
  <1>2. QED
    BY <1>1, VerdictStays

LEMMA TruthStep ==
    ASSUME TypeOK, OriginInv, TruthInv, Next
    PROVE  TruthInv'
  <1>0. jh \in [Informers -> JobHandler]
    BY DEF TypeOK
  <1> DEFINE Same(i) == jh'[i] # Idle =>
               /\ jh[i] # Idle
               /\ jh'[i].status = jh[i].status /\ jh'[i].job = jh[i].job
  <1>1. CASE ClusterStep
    <2>1. \A j \in Jobs :
             Verdict(job[j].status) \in {"none", Verdict(job'[j].status)}
      BY <1>1, JobChanges
    <2>2. UNCHANGED <<jh, sent>>
      BY <1>1 DEF ClusterStep, CreateCronJob, ChangeSchedule, DeleteCronJob,
                  CreateJob, JobStep, DeleteJob
    <2>3. QED
      BY <2>1, <2>2, QuietTruth
  <1>2. CASE \E i \in Informers : CronStep(i)
    <2>1. UNCHANGED <<job, jh, sent>>
      BY <1>2 DEF CronStep, CronJobAdded, CronJobDeleted, CronJobPut,
                  CronJobDrop, cluster
    <2>2. QED
      BY <2>1, QuietTruth
  <1>3. ASSUME NEW i \in Informers, NEW j \in Jobs, Deliver(i, j)
        PROVE  TruthInv'
    <2>1. UNCHANGED <<job, sent>>
      BY <1>3, DeliverEffect
    <2>2. \A k \in Informers :
             jh'[k] = jh[k] \/ (jh'[k].job = j /\ jh'[k].status = job'[j].status)
      BY <1>3, <2>1, DeliverEffect
    <2>3. QED
      BY <2>1, <2>2, QuietTruth
  <1>4. ASSUME NEW i \in Informers,
               \/ CheckinJobStarting(i) \/ AddJobLock(i) \/ NothingToReport(i)
               \/ AddJob(i)
        PROVE  TruthInv'
    <2>1. UNCHANGED <<job, sent>>
      BY <1>4 DEF CheckinJobStarting, AddJobLock, NothingToReport, AddJob, cluster
    <2>2. \A k \in Informers : Same(k)
      BY <1>0, <1>4
         DEF CheckinJobStarting, AddJobLock, NothingToReport, AddJob, Return,
             JobHandler, JobCall
    <2>3. QED
      BY <2>1, <2>2, QuietTruth
  <1>5. ASSUME NEW i \in Informers, CaptureStart(i)
        PROVE  TruthInv'
    <2> DEFINE n == [id |-> lastId + 1, status |-> "in_progress",
                     mon |-> jh[i].mon, job |-> jh[i].job]
    <2>1. Starts' = Starts \cup {n} /\ Ends' = Ends
      BY <1>5 DEF CaptureStart, Starts, Ends
    <2>2. IdsUsed'
      BY <1>5, BoundsAssumption DEF TruthInv, IdsUsed, CaptureStart, TypeOK
    <2>3. \A s \in Starts : s.id # n.id
      BY DEF TruthInv, IdsUsed, Starts, TypeOK
    <2>4. StartsUnique'
      BY <2>1, <2>3 DEF TruthInv, StartsUnique
    <2>5. HandlerVerdict'
      <3>1. \A k \in Informers : Same(k)
        BY <1>0, <1>5 DEF CaptureStart, JobHandler, JobCall
      <3>2. job' = job
        BY <1>5 DEF CaptureStart, cluster
      <3>3. QED
        BY <3>1, <3>2, VerdictsInHand DEF TruthInv
    <2>6. EndVerdict'
      <3>1. job' = job
        BY <1>5 DEF CaptureStart, cluster
      <3>2. QED
        BY <2>1, <3>1 DEF TruthInv, EndVerdict, Verdict
    <2>7. QED
      BY <2>2, <2>4, <2>5, <2>6 DEF TruthInv
  <1>6. ASSUME NEW i \in Informers, CheckinJobEnding(i)
        PROVE  TruthInv'
    <2>1. PICK d \in DataOf(jh[i].mon, jh[i].job) :
             checkins' = checkins \cup
               {[id |-> d.id, status |-> Verdict(jh[i].status),
                 mon |-> jh[i].mon, job |-> jh[i].job]}
      BY <1>6 DEF CheckinJobEnding
    <2> DEFINE n == [id |-> d.id, status |-> Verdict(jh[i].status),
                     mon |-> jh[i].mon, job |-> jh[i].job]
    <2>2. n.status \in {"ok", "error"} /\ jh[i] # Idle
      BY <1>6, VerdictType DEF CheckinJobEnding
    <2>3. Starts' = Starts /\ Ends' = Ends \cup {n}
      BY <2>1, <2>2 DEF Starts, Ends
    <2>4. lastId' = lastId /\ job' = job
      BY <1>6 DEF CheckinJobEnding, cluster
    <2>5. IdsUsed'
      <3>1. PICK s \in Starts : s.id = d.id
        BY DEF OriginInv, DataHasStart, DataOf
      <3>2. n.id \in 1..lastId
        BY <3>1 DEF TruthInv, IdsUsed, Starts
      <3>3. QED
        BY <2>1, <2>4, <3>2 DEF TruthInv, IdsUsed
    <2>6. StartsUnique'
      BY <2>3 DEF TruthInv, StartsUnique
    <2>7. HandlerVerdict'
      <3>1. \A k \in Informers : Same(k)
        BY <1>0, <1>6 DEF CheckinJobEnding, Return
      <3>2. QED
        BY <2>4, <3>1, VerdictsInHand DEF TruthInv
    <2>8. EndVerdict'
      <3>1. n.status = Verdict(job[n.job].status)
        BY <2>2 DEF TruthInv, HandlerVerdict
      <3>2. QED
        BY <2>3, <2>4, <3>1 DEF TruthInv, EndVerdict, Verdict
    <2>9. QED
      BY <2>5, <2>6, <2>7, <2>8 DEF TruthInv
  <1>7. CASE Restart
    <2>1. UNCHANGED <<job, sent>> /\ \A k \in Informers : jh'[k] = Idle
      BY <1>7 DEF Restart, cluster
    <2>2. QED
      BY <2>1, QuietTruth
  <1>8. QED
    BY <1>1, <1>2, <1>3, <1>4, <1>5, <1>6, <1>7
       DEF Next, HandlerStep, Crash, MapFault

(* CheckinInv is inductive: it holds in every behaviour. *)
THEOREM CheckinsAreTrue == Spec => []CheckinInv
  <1>1. Init => CheckinInv
    BY BoundsAssumption
       DEF Init, CheckinInv, OriginInv, TruthInv, DataHasStart, HandlerHasStart,
           EndHasStart, IdsUsed, StartsUnique, HandlerVerdict, EndVerdict,
           Starts, Ends, Holds
  <1>2. TypeOK /\ CheckinInv /\ [Next]_vars => CheckinInv'
    <2> SUFFICES ASSUME TypeOK, CheckinInv, [Next]_vars
                 PROVE  CheckinInv'
      OBVIOUS
    <2>1. CASE Next
      BY <2>1, OriginStep, TruthStep DEF CheckinInv
    <2>2. CASE UNCHANGED vars
      <3>1. UNCHANGED <<job, jh, sent>>
        BY <2>2 DEF vars, cluster
      <3>2. OriginInv'
        BY <2>2, ClusterCronQuiet, QuietStep DEF CheckinInv, Holds
      <3>3. TruthInv'
        BY <3>1, QuietTruth DEF CheckinInv
      <3>4. QED
        BY <3>2, <3>3 DEF CheckinInv
    <2>3. QED
      BY <2>1, <2>2
  <1>3. QED
    BY <1>1, <1>2, TypeCorrect, PTL DEF Spec

----------------------------------------------------------------------------
(* The implementation of CheckInLifecycle. *)

(* A step that captures nothing is a stutter of the abstract specification. *)
LEMMA QuietRefines ==
    ASSUME UNCHANGED checkins
    PROVE  UNCHANGED Lifecycles!vars
  BY DEF Lifecycles!vars, Opened, Closed, Starts, Ends

LEMMA StartRefines ==
    ASSUME TypeOK, TypeOK', TruthInv, NEW i \in Informers, CaptureStart(i)
    PROVE  Lifecycles!Next
  <1> DEFINE n == [id |-> lastId + 1, status |-> "in_progress",
                   mon |-> jh[i].mon, job |-> jh[i].job]
             o == [id |-> n.id, slug |-> n.mon.slug, run |-> JobName[n.job]]
  <1>1. jh[i] # Idle
    BY DEF CaptureStart
  <1>2. o \in Lifecycles!Opening
    <2>1. n.id \in 1..MaxIds
      BY BoundsAssumption DEF CaptureStart, TypeOK
    <2>2. n.mon.slug \in Names /\ JobName[n.job] \in JobNames
      BY <1>1, RunningHandlerType DEF Monitor
    <2>3. QED
      BY <2>1, <2>2 DEF Lifecycles!Opening
  <1>3. Starts' = Starts \cup {n} /\ Ends' = Ends
    BY DEF CaptureStart, Starts, Ends
  <1>4. \A p \in Opened : p.id # o.id
    BY DEF Opened, Starts, TruthInv, IdsUsed, TypeOK
  <1>5. Opened' = Opened \cup {o} /\ Closed' = Closed
    BY <1>3 DEF Opened, Closed
  <1>6. QED
    BY <1>2, <1>4, <1>5 DEF Lifecycles!Next, Lifecycles!Open

LEMMA EndRefines ==
    ASSUME UniqueJobNames, TypeOK, CheckinInv, NEW i \in Informers,
           CheckinJobEnding(i)
    PROVE  Lifecycles!Next
  <1>1. PICK d \in DataOf(jh[i].mon, jh[i].job) :
           checkins' = checkins \cup
             {[id |-> d.id, status |-> Verdict(jh[i].status),
               mon |-> jh[i].mon, job |-> jh[i].job]}
    BY DEF CheckinJobEnding
  <1> DEFINE n == [id |-> d.id, status |-> Verdict(jh[i].status),
                   mon |-> jh[i].mon, job |-> jh[i].job]
             c == [id |-> n.id, slug |-> n.mon.slug, run |-> JobName[n.job],
                   verdict |-> n.status]
  <1>2. jh[i] # Idle /\ n.status \in {"ok", "error"}
    BY VerdictType DEF CheckinJobEnding
  <1>3. n.job \in Jobs /\ n.mon \in Monitor
    BY <1>2, RunningHandlerType
  <1>4. PICK s \in Starts : /\ s.id = n.id /\ s.mon = n.mon
                            /\ JobName[s.job] = JobName[n.job]
    BY DEF CheckinInv, OriginInv, DataHasStart, DataOf
  <1>5. s.job = n.job
    BY <1>3, <1>4 DEF UniqueJobNames, Starts, TypeOK, CheckIn
  <1>6. n.status = Verdict(job[n.job].status)
    BY <1>2 DEF CheckinInv, TruthInv, HandlerVerdict
  <1>7. c \in Lifecycles!Closing
    <2>1. n.id \in 1..MaxIds
      BY <1>4, BoundsAssumption
         DEF CheckinInv, TruthInv, IdsUsed, Starts, TypeOK
    <2>2. n.mon.slug \in Names /\ JobName[n.job] \in JobNames
      BY <1>2, RunningHandlerType DEF Monitor
    <2>3. QED
      BY <1>2, <2>1, <2>2 DEF Lifecycles!Closing
  <1>8. [id |-> c.id, slug |-> c.slug, run |-> c.run] \in Opened
    BY <1>4 DEF Opened
  <1>9. \A p \in Closed : p.id = c.id => p.verdict = c.verdict
    <2> SUFFICES ASSUME NEW e \in Ends, e.id = n.id
                 PROVE  e.status = n.status
      BY DEF Closed
    <2>1. PICK t \in Starts : t.id = e.id /\ JobName[t.job] = JobName[e.job]
      BY DEF CheckinInv, OriginInv, EndHasStart
    <2>2. t = s
      BY <1>4, <2>1 DEF CheckinInv, TruthInv, StartsUnique
    <2>3. e.job \in Jobs
      BY DEF Ends, TypeOK, CheckIn
    <2>4. e.job = n.job
      BY <1>3, <1>4, <2>1, <2>2, <2>3 DEF UniqueJobNames
    <2>5. QED
      BY <1>6, <2>4 DEF CheckinInv, TruthInv, EndVerdict
  <1>10. Starts' = Starts /\ Ends' = Ends \cup {n}
    BY <1>1, <1>2 DEF Starts, Ends
  <1>11. Opened' = Opened /\ Closed' = Closed \cup {c}
    BY <1>10 DEF Opened, Closed
  <1>12. QED
    BY <1>7, <1>8, <1>9, <1>11 DEF Lifecycles!Next, Lifecycles!Close

(* Where no two Jobs have the same name, the check-ins sent by any number  *)
(* of informers, through restarts, lost monitor data and stale stores, are *)
(* those of CheckInLifecycle.                                              *)
THEOREM CronsRefinement ==
    ASSUME UniqueJobNames
    PROVE  Spec => ImplementsLifecycle
  <1>1. Init => Lifecycles!Init
    BY DEF Init, Lifecycles!Init, Opened, Closed, Starts, Ends
  <1>2. TypeOK /\ TypeOK' /\ CheckinInv /\ [Next]_vars
           => [Lifecycles!Next]_(Lifecycles!vars)
    <2> SUFFICES ASSUME TypeOK, TypeOK', CheckinInv, [Next]_vars
                 PROVE  [Lifecycles!Next]_(Lifecycles!vars)
      OBVIOUS
    <2>1. CASE \E i \in Informers : CaptureStart(i)
      BY <2>1, StartRefines DEF CheckinInv
    <2>2. CASE \E i \in Informers : CheckinJobEnding(i)
      BY <2>2, EndRefines
    <2>3. CASE ClusterStep \/ (\E i \in Informers : CronStep(i)) \/ UNCHANGED vars
      BY <2>3, ClusterCronQuiet, QuietRefines
    <2>4. CASE \E i \in Informers, j \in Jobs : Deliver(i, j)
      BY <2>4, DeliverEffect, QuietRefines DEF sent
    <2>5. ASSUME NEW i \in Informers,
                 \/ CheckinJobStarting(i) \/ AddJobLock(i) \/ AddJob(i)
                 \/ NothingToReport(i)
          PROVE  UNCHANGED checkins
      BY <2>5 DEF CheckinJobStarting, AddJobLock, AddJob, NothingToReport, sent
    <2>6. CASE Restart
      BY <2>6, QuietRefines DEF Restart, sent
    <2>7. QED
      BY <2>1, <2>2, <2>3, <2>4, <2>5, <2>6, QuietRefines
         DEF Next, HandlerStep, Crash, MapFault
  <1>3. QED
    BY <1>1, <1>2, TypeCorrect, CheckinsAreTrue, PTL
       DEF Spec, ImplementsLifecycle, Lifecycles!Spec

----------------------------------------------------------------------------
(* Monitor data that is kept. *)

(* AddFunc is about to put monitor data where there is none. *)
PutInv ==
    \A i \in Informers : ch[i] # Idle =>
        /\ ch[i].cron \in Watched[i] \cap CronJobs
        /\ ch[i].pc = "put" => monitors[CronName[ch[i].cron]] = NoMonitor

(* Only the steps of the CronJob handlers and a restart change the monitor *)
(* data that there is, and what these handlers do.                         *)
LEMMA OthersKeepMonitors ==
    ASSUME TypeOK,
           \/ ClusterStep \/ UNCHANGED vars
           \/ \E i \in Informers : HandlerStep(i) \/ \E j \in Jobs : Deliver(i, j)
    PROVE  UNCHANGED <<monitors, lastRef, ch>>
  <1>1. ASSUME NEW i \in Informers, NEW j \in Jobs, Deliver(i, j)
        PROVE  UNCHANGED <<monitors, lastRef, ch>>
    BY <1>1 DEF Deliver, JobAdded, JobUpdated, JobDeleted,
                RunSentryCronsCheckin, memory
  <1>2. ASSUME NEW i \in Informers, HandlerStep(i)
        PROVE  UNCHANGED <<monitors, lastRef, ch>>
    BY <1>2 DEF HandlerStep, CheckinJobStarting, CaptureStart, AddJobLock,
                AddJob, NothingToReport, CheckinJobEnding, memory
  <1>3. ASSUME ClusterStep
        PROVE  UNCHANGED <<monitors, lastRef, ch>>
    BY <1>3 DEF ClusterStep, CreateCronJob, ChangeSchedule, DeleteCronJob,
                CreateJob, JobStep, DeleteJob, memory
  <1>4. QED
    BY <1>1, <1>2, <1>3 DEF vars, memory

(* What a step of a CronJob handler does to the monitor data. *)
LEMMA CronStepKeeps ==
    ASSUME TypeOK, CronNamesApart, PutInv, NEW i \in Informers, CronStep(i)
    PROVE  /\ PutInv'
           /\ \A n \in Names :
                 monitors[n] # NoMonitor => monitors'[n] \in {monitors[n], NoMonitor}
  <1>0. /\ ch \in [Informers -> CronHandler] /\ monitors \in [Names -> Monitor \cup {NoMonitor}]
        /\ Idle \notin CronCall
    BY NilAssumption DEF TypeOK
  <1>1. ASSUME NEW c \in CronJobs, CronJobAdded(i, c)
        PROVE  PutInv' /\ monitors' = monitors
    <2>1. monitors' = monitors /\ c \in Watched[i] /\ \A k \in Informers :
             \/ ch'[k] = ch[k]
             \/ /\ k = i /\ monitors[CronName[c]] = NoMonitor
                /\ ch'[k].cron = c
      BY <1>0, <1>1 DEF CronJobAdded, memory
    <2>2. QED
      BY <2>1 DEF PutInv
  <1>2. ASSUME NEW c \in CronJobs, CronJobDeleted(i, c)
        PROVE  PutInv' /\ monitors' = monitors
    <2>1. monitors' = monitors /\ c \in Watched[i] /\ \A k \in Informers :
             \/ ch'[k] = ch[k]
             \/ k = i /\ ch'[k].cron = c /\ ch'[k].pc = "drop"
      BY <1>0, <1>2 DEF CronJobDeleted, memory
    <2>2. QED
      BY <2>1 DEF PutInv
  <1>3. ASSUME CronJobPut(i) \/ CronJobDrop(i)
        PROVE  /\ PutInv'
               /\ \A n \in Names : monitors[n] # NoMonitor
                                      => monitors'[n] \in {monitors[n], NoMonitor}
    <2> DEFINE n == CronName[ch[i].cron]
    <2>1. ch[i] # Idle /\ ch' = [ch EXCEPT ![i] = Idle]
      BY <1>3 DEF CronJobPut, CronJobDrop
    <2>2. ch[i].cron \in Watched[i] \cap CronJobs /\ n \in Names
      BY <2>1, NamesAssumption DEF PutInv
    <2>a. /\ \A m \in Names : m # n => monitors'[m] = monitors[m]
          /\ ch[i].pc = "put" \/ monitors'[n] = NoMonitor
      <3>1. PICK v : monitors' = [monitors EXCEPT ![n] = v]
                     /\ (ch[i].pc = "put" \/ v = NoMonitor)
        BY <1>3 DEF CronJobPut, CronJobDrop
      <3>2. QED
        BY <1>0, <2>2, <3>1
    <2>3. \A m \in Names : monitors[m] # NoMonitor
                              => monitors'[m] \in {monitors[m], NoMonitor}
      BY <2>1, <2>2, <2>a DEF PutInv
    <2>4. PutInv'
      <3> SUFFICES ASSUME NEW k \in Informers, ch'[k] # Idle
                   PROVE  /\ ch'[k].cron \in Watched[k] \cap CronJobs
                          /\ ch'[k].pc = "put"
                                => monitors'[CronName[ch'[k].cron]] = NoMonitor
        BY DEF PutInv
      <3>1. k # i /\ ch'[k] = ch[k]
        BY <1>0, <2>1
      <3>2. ch[k].cron \in Watched[k] \cap CronJobs
        BY <3>1 DEF PutInv
      <3>3. CronName[ch[k].cron] # n /\ CronName[ch[k].cron] \in Names
        BY <2>2, <3>1, <3>2, NamesAssumption DEF CronNamesApart
      <3>4. QED
        BY <2>a, <3>1, <3>2, <3>3 DEF PutInv
    <2>5. QED
      BY <2>3, <2>4
  <1>4. QED
    BY <1>1, <1>2, <1>3 DEF CronStep

(* AddFunc never replaces monitor data, where no two informers see CronJobs *)
(* of one name: it is deleted first, or lost in a restart.                 *)
THEOREM MonitorsAreKept ==
    ASSUME CronNamesApart
    PROVE  Spec => MonitorKept
  <1>1. Init => PutInv
    BY DEF Init, PutInv
  <1>2. TypeOK /\ PutInv /\ [Next]_vars =>
           /\ PutInv'
           /\ \A n \in Names : monitors[n] # NoMonitor
                                  => monitors'[n] \in {monitors[n], NoMonitor}
    <2> SUFFICES ASSUME TypeOK, PutInv, [Next]_vars
                 PROVE  /\ PutInv'
                        /\ \A n \in Names : monitors[n] # NoMonitor
                              => monitors'[n] \in {monitors[n], NoMonitor}
      OBVIOUS
    <2>1. CASE \E i \in Informers : CronStep(i)
      BY <2>1, CronStepKeeps
    <2>2. CASE \/ ClusterStep \/ UNCHANGED vars
               \/ \E i \in Informers : HandlerStep(i) \/ \E j \in Jobs : Deliver(i, j)
      <3>1. monitors' = monitors /\ ch' = ch
        BY <2>2, OthersKeepMonitors
      <3>2. QED
        BY <3>1 DEF PutInv
    <2>3. CASE Restart
      <3>1. /\ \A n \in Names : monitors'[n] = NoMonitor
            /\ \A i \in Informers : ch'[i] = Idle
        BY <2>3 DEF Restart
      <3>2. QED
        BY <3>1 DEF PutInv
    <2>4. QED
      BY <2>1, <2>2, <2>3 DEF Next, Crash, MapFault
  <1>3. QED
    BY <1>1, <1>2, TypeCorrect, PTL DEF Spec, MonitorKept

----------------------------------------------------------------------------
(* One start for each monitor data. *)

(* Monitor data is numbered as it is allocated, in all runs of the agent.  *)
RefInv ==
    /\ \A n \in Names : monitors[n] # NoMonitor => monitors[n].ref <= lastRef
    /\ \A i \in Informers : jh[i] # Idle => jh[i].mon.ref <= lastRef
    /\ \A s \in Starts : s.mon.ref <= lastRef
    /\ \A d \in jobDatas : d.mon.ref <= lastRef

(* A handler works for its own informer, and only a Job that had not begun *)
(* gets beyond the first step.                                             *)
WorkInv ==
    \A i \in Informers : jh[i] # Idle =>
        /\ jh[i].job \in Watched[i]
        /\ jh[i].pc # "checkin" => JustBegun(jh[i].status)

IsOf(x, s) == x.mon = s.mon /\ JobName[x.job] = JobName[s.job]

(* A start is in JobDatas, or its handler is about to put it there, or its *)
(* monitor data is lost for good.                                          *)
StartIsKnown(s) ==
    \/ \E d \in jobDatas : d.mon = s.mon /\ d.name = JobName[s.job]
    \/ \E i \in Informers : Holds(i) /\ IsOf(jh[i], s)
    \/ /\ \A n \in Names : monitors[n] # s.mon
       /\ \A i \in Informers : jh[i] # Idle => jh[i].mon # s.mon

StartInv ==
    /\ \A s \in Starts : StartIsKnown(s)
    /\ \A i \in Informers : At(i, "starting") => \A s \in Starts : ~IsOf(jh[i], s)
    /\ OneStartPerMonitor

SoloInv == RefInv /\ WorkInv /\ StartInv

(* What a notification starts: the handler was idle, and has the Job with  *)
(* its status and monitor data of this moment, if it has any.              *)
LEMMA DeliverCall ==
    ASSUME TypeOK, NEW i \in Informers, NEW j \in Jobs, Deliver(i, j)
    PROVE  /\ UNCHANGED <<job, memory, sent>> /\ j \in Watched[i] /\ jh[i] = Idle
           /\ \A k \in Informers : k # i => jh'[k] = jh[k]
           /\ jobSeen' = [jobSeen EXCEPT ![i][j] = jobSeen'[i][j]]
           /\ jobSeen'[i][j] \in {Absent, job[j].status}
           /\ MonitorOf(j) = NoMonitor => jh'[i] = Idle
           /\ MonitorOf(j) # NoMonitor =>
                 /\ jh'[i] # Idle /\ jh'[i].pc = "checkin" /\ jh'[i].job = j
                 /\ jh'[i].status = job[j].status /\ jh'[i].mon = MonitorOf(j)
  <1>1. PICK on \in {"ADD", "UPDATE", "DELETE"} : RunSentryCronsCheckin(i, j, on)
    BY DEF Deliver, JobAdded, JobUpdated, JobDeleted
  <1> DEFINE h == [pc |-> "checkin", on |-> on, job |-> j,
                   status |-> job[j].status, mon |-> MonitorOf(j), id |-> 0]
  <1>2. jh \in [Informers -> JobHandler] /\ job[j].status \in Status
        /\ jobSeen \in [Informers -> [Jobs -> Status \cup {Absent}]]
    BY DEF TypeOK
  <1>3. MonitorOf(j) # NoMonitor => h \in JobCall
    <2>1. MonitorOf(j) \in Monitor \cup {NoMonitor}
      BY NamesAssumption DEF TypeOK, MonitorOf
    <2>2. QED
      BY <1>2, <2>1 DEF JobCall
  <1>4. jh[i] = Idle /\ jh' = IF MonitorOf(j) = NoMonitor THEN jh
                              ELSE [jh EXCEPT ![i] = h]
    BY <1>1 DEF RunSentryCronsCheckin
  <1>5. j \in Watched[i] /\ \E v \in {Absent, job[j].status} :
            jobSeen' = [jobSeen EXCEPT ![i][j] = v]
    BY DEF Deliver, JobAdded, JobUpdated, JobDeleted
  <1>6. /\ jobSeen' = [jobSeen EXCEPT ![i][j] = jobSeen'[i][j]]
        /\ jobSeen'[i][j] \in {Absent, job[j].status}
    BY <1>2, <1>5
  <1>7. UNCHANGED <<job, memory, sent>>
    BY <1>1 DEF RunSentryCronsCheckin, cluster
  <1>8. MonitorOf(j) = NoMonitor => jh'[i] = Idle
    BY <1>4
  <1>9. MonitorOf(j) # NoMonitor =>
           /\ jh'[i] # Idle /\ jh'[i].pc = "checkin" /\ jh'[i].job = j
           /\ jh'[i].status = job[j].status /\ jh'[i].mon = MonitorOf(j)
    <2> SUFFICES ASSUME MonitorOf(j) # NoMonitor
                 PROVE  /\ jh'[i] # Idle /\ jh'[i].pc = "checkin" /\ jh'[i].job = j
                        /\ jh'[i].status = job[j].status /\ jh'[i].mon = MonitorOf(j)
      OBVIOUS
    <2>1. jh'[i] = h
      BY <1>2, <1>4
    <2>2. h # Idle
      BY <1>3, NilAssumption
    <2>3. QED
      BY <2>1, <2>2
  <1>10. \A k \in Informers : k # i => jh'[k] = jh[k]
    BY <1>2, <1>4
  <1>11. QED
    BY <1>4, <1>5, <1>6, <1>7, <1>8, <1>9, <1>10

(* A step of a handler: the others stand still, and its Job, status and    *)
(* monitor data stay until it returns.                                     *)
LEMMA HandlerFrame ==
    ASSUME TypeOK, NEW i \in Informers, HandlerStep(i)
    PROVE  /\ UNCHANGED <<cluster, stores, monitors, lastRef, ch>>
           /\ jh[i] # Idle /\ \A k \in Informers : k # i => jh'[k] = jh[k]
           /\ jh'[i] # Idle =>
                 /\ jh'[i].job = jh[i].job /\ jh'[i].status = jh[i].status
                 /\ jh'[i].mon = jh[i].mon
                 /\ jh'[i].pc # "checkin"
                 /\ jh[i].pc = "checkin" => JustBegun(jh[i].status)
  <1>1. jh \in [Informers -> JobHandler]
    BY DEF TypeOK
  <1>2. CASE CaptureStart(i) \/ AddJobLock(i) \/ AddJob(i)
    <2>1. jh[i] \in JobCall
      BY <1>1, <1>2 DEF CaptureStart, AddJobLock, AddJob, JobHandler
    <2>2. QED
      BY <1>1, <1>2, <2>1
         DEF CaptureStart, AddJobLock, AddJob, Return, memory, JobCall
  <1>3. CASE CheckinJobStarting(i) \/ NothingToReport(i) \/ CheckinJobEnding(i)
    <2>1. jh[i] \in JobCall
      BY <1>1, <1>3 DEF CheckinJobStarting, NothingToReport, CheckinJobEnding,
                        JobHandler
    <2>2. QED
      BY <1>1, <1>3, <2>1
         DEF CheckinJobStarting, NothingToReport, CheckinJobEnding, Return,
             memory, JobCall
  <1>4. QED
    BY <1>2, <1>3 DEF HandlerStep

LEMMA WorkStep ==
    ASSUME TypeOK, WorkInv, [Next]_vars
    PROVE  WorkInv'
  <1>1. CASE ClusterStep \/ (\E i \in Informers : CronStep(i)) \/ UNCHANGED vars
    BY <1>1, ClusterCronQuiet DEF WorkInv, JustBegun
  <1>2. ASSUME NEW i \in Informers, NEW j \in Jobs, Deliver(i, j)
        PROVE  WorkInv'
    BY <1>2, DeliverCall DEF WorkInv, JustBegun
  <1>3. ASSUME NEW i \in Informers, HandlerStep(i)
        PROVE  WorkInv'
    BY <1>3, HandlerFrame DEF WorkInv, JustBegun
  <1>4. CASE Restart
    BY <1>4 DEF Restart, WorkInv
  <1>5. QED
    BY <1>1, <1>2, <1>3, <1>4 DEF Next, Crash, MapFault

LEMMA OwnMonitor ==
    ASSUME TypeOK, NEW j \in Jobs, MonitorOf(j) # NoMonitor
    PROVE  MonitorOf(j) \in Monitor /\ \E n \in Names : MonitorOf(j) = monitors[n]
  BY NamesAssumption DEF TypeOK, MonitorOf

(* Monitor data that is put has a number of its own. *)
LEMMA MonitorsChange ==
    ASSUME TypeOK,
           ClusterStep \/ (\E i \in Informers : CronStep(i)) \/ UNCHANGED vars
    PROVE  /\ lastRef' \in Nat /\ lastRef <= lastRef'
           /\ \A n \in Names :
                 \/ monitors'[n] \in {monitors[n], NoMonitor}
                 \/ monitors'[n].ref = lastRef + 1 /\ lastRef' = lastRef + 1
  <1>0. lastRef \in Nat /\ monitors \in [Names -> Monitor \cup {NoMonitor}]
    BY DEF TypeOK
  <1>1. CASE ClusterStep \/ UNCHANGED vars
    <2>1. monitors' = monitors /\ lastRef' = lastRef
      BY <1>1, OthersKeepMonitors
    <2>2. QED
      BY <1>0, <2>1
  <1>2. ASSUME NEW i \in Informers, CronJobPut(i)
        PROVE  /\ lastRef' = lastRef + 1
               /\ \A n \in Names : monitors'[n] = monitors[n]
                                   \/ monitors'[n].ref = lastRef + 1
    BY <1>0, <1>2 DEF CronJobPut
  <1>3. ASSUME NEW i \in Informers,
               \/ CronJobDrop(i)
               \/ \E c \in CronJobs : CronJobAdded(i, c) \/ CronJobDeleted(i, c)
        PROVE  /\ lastRef' = lastRef
               /\ \A n \in Names : monitors'[n] \in {monitors[n], NoMonitor}
    BY <1>0, <1>3 DEF CronJobDrop, CronJobAdded, CronJobDeleted, memory
  <1>4. QED
    BY <1>0, <1>1, <1>2, <1>3 DEF CronStep

LEMMA RefStep ==
    ASSUME TypeOK, OriginInv, RefInv, [Next]_vars
    PROVE  RefInv'
  <1>0. /\ lastRef \in Nat /\ jh \in [Informers -> JobHandler]
        /\ monitors \in [Names -> Monitor \cup {NoMonitor}]
        /\ \A s \in Starts : s.mon.ref \in Nat
        /\ \A d \in jobDatas : d.mon.ref \in Nat
        /\ \A i \in Informers : jh[i] # Idle => jh[i].mon.ref \in Nat
        /\ \A n \in Names : monitors[n] # NoMonitor => monitors[n].ref \in Nat
    <2>1. \A i \in Informers : jh[i] # Idle => jh[i].mon.ref \in Nat
      BY RunningHandlerType DEF Monitor
    <2>2. QED
      BY <2>1 DEF TypeOK, Starts, CheckIn, Monitor, JobData
  <1>1. CASE ClusterStep \/ (\E i \in Informers : CronStep(i)) \/ UNCHANGED vars
    <2>1. checkins' = checkins /\ jobDatas' = jobDatas /\ jh' = jh /\ Starts' = Starts
      BY <1>1, ClusterCronQuiet DEF Starts
    <2>2. /\ lastRef' \in Nat /\ lastRef <= lastRef'
          /\ \A n \in Names :
                \/ monitors'[n] \in {monitors[n], NoMonitor}
                \/ monitors'[n].ref = lastRef + 1 /\ lastRef' = lastRef + 1
      BY <1>1, MonitorsChange
    <2>3. \A n \in Names : monitors'[n] # NoMonitor => monitors'[n].ref <= lastRef'
      BY <1>0, <2>2 DEF RefInv
    <2>4. \A i \in Informers : jh[i] # Idle => jh[i].mon.ref <= lastRef'
      BY <1>0, <2>2 DEF RefInv
    <2>5. \A s \in Starts : s.mon.ref <= lastRef'
      BY <1>0, <2>2 DEF RefInv
    <2>6. \A d \in jobDatas : d.mon.ref <= lastRef'
      BY <1>0, <2>2 DEF RefInv
    <2>7. QED
      BY <2>1, <2>3, <2>4, <2>5, <2>6 DEF RefInv
  <1>2. ASSUME NEW i \in Informers, NEW j \in Jobs, Deliver(i, j)
        PROVE  RefInv'
    <2>1. UNCHANGED <<monitors, lastRef, checkins, jobDatas>> /\ Starts' = Starts
      BY <1>2, DeliverCall DEF memory, sent, Starts
    <2>2. ASSUME MonitorOf(j) # NoMonitor PROVE MonitorOf(j).ref <= lastRef
      BY <2>2, OwnMonitor DEF RefInv
    <2>3. \A k \in Informers : jh'[k] # Idle =>
             jh'[k] = jh[k] \/ (jh'[k].mon = MonitorOf(j) /\ MonitorOf(j) # NoMonitor)
      BY <1>2, DeliverCall
    <2>4. QED
      BY <2>1, <2>2, <2>3 DEF RefInv
  <1>3. ASSUME NEW i \in Informers, HandlerStep(i)
        PROVE  RefInv'
    <2>1. /\ UNCHANGED <<monitors, lastRef>> /\ jh[i] # Idle
          /\ \A k \in Informers :
                jh'[k] # Idle => jh[k] # Idle /\ jh'[k].mon = jh[k].mon
      BY <1>3, HandlerFrame
    <2>2. \A s \in Starts' : s \in Starts \/ s.mon = jh[i].mon
      BY <1>3, VerdictType
         DEF HandlerStep, CheckinJobStarting, CaptureStart, AddJobLock, AddJob,
             NothingToReport, CheckinJobEnding, Starts, sent
    <2>3. \A d \in jobDatas' : d \in jobDatas \/ d.mon = jh[i].mon
      BY <1>3
         DEF HandlerStep, CheckinJobStarting, CaptureStart, AddJobLock, AddJob,
             NothingToReport, CheckinJobEnding, memory
    <2>4. QED
      BY <2>1, <2>2, <2>3 DEF RefInv
  <1>4. CASE Restart
    <2>1. /\ \A n \in Names : monitors'[n] = NoMonitor
          /\ \A i \in Informers : jh'[i] = Idle
          /\ jobDatas' = {} /\ lastRef' = lastRef /\ Starts' = Starts
      BY <1>4 DEF Restart, sent, Starts
    <2>2. QED
      BY <2>1 DEF RefInv
  <1>5. QED
    BY <1>1, <1>2, <1>3, <1>4 DEF Next, Crash, MapFault

(* Steps that capture no start, where handlers keep what they hold and do  *)
(* not go on to a start, keep every start known.                           *)
LEMMA QuietStarts ==
    ASSUME TypeOK, StartInv, Starts' = Starts,
           \A d \in jobDatas : \E e \in jobDatas' : e.mon = d.mon /\ e.name = d.name,
           \A k \in Informers : At(k, "starting")' =>
              At(k, "starting") /\ jh'[k] = jh[k],
           \A k \in Informers : Holds(k) =>
              \/ Holds(k)' /\ jh'[k].mon = jh[k].mon /\ jh'[k].job = jh[k].job
              \/ \E e \in jobDatas' : e.mon = jh[k].mon /\ e.name = JobName[jh[k].job],
           \A s \in Starts :
              /\ \A n \in Names : monitors[n] # s.mon
              /\ \A k \in Informers : jh[k] # Idle => jh[k].mon # s.mon
              => /\ \A n \in Names : monitors'[n] # s.mon
                 /\ \A k \in Informers : jh'[k] # Idle => jh'[k].mon # s.mon
    PROVE  StartInv'
  <1>1. OneStartPerMonitor'
    BY DEF StartInv, OneStartPerMonitor
  <1>2. (\A k \in Informers : At(k, "starting") => \A s \in Starts : ~IsOf(jh[k], s))'
    BY DEF StartInv, IsOf
  <1>3. (\A s \in Starts : StartIsKnown(s))'
    <2> SUFFICES ASSUME NEW s \in Starts PROVE StartIsKnown(s)'
      OBVIOUS
    <2>1. CASE \E d \in jobDatas : d.mon = s.mon /\ d.name = JobName[s.job]
      BY <2>1 DEF StartIsKnown
    <2>2. CASE \E k \in Informers : Holds(k) /\ IsOf(jh[k], s)
      BY <2>2 DEF StartIsKnown, IsOf
    <2>3. CASE /\ \A n \in Names : monitors[n] # s.mon
               /\ \A k \in Informers : jh[k] # Idle => jh[k].mon # s.mon
      BY <2>3 DEF StartIsKnown
    <2>4. QED
      BY <2>1, <2>2, <2>3 DEF StartInv, StartIsKnown
  <1>4. QED
    BY <1>1, <1>2, <1>3 DEF StartInv

(* The handler of another informer never has a Job of the same name. *)
LEMMA HandlersApart ==
    ASSUME JobNamesApart, TypeOK, WorkInv, NEW i \in Informers, NEW k \in Informers,
           jh[i] # Idle, jh[k] # Idle, JobName[jh[i].job] = JobName[jh[k].job]
    PROVE  i = k
  BY RunningHandlerType DEF JobNamesApart, WorkInv

(* A start is sent for what no start was sent for. *)
LEMMA CaptureStartStep ==
    ASSUME JobNamesApart, TypeOK, WorkInv, StartInv,
           NEW i \in Informers, CaptureStart(i)
    PROVE  StartInv'
  <1> DEFINE new == [id |-> lastId + 1, status |-> "in_progress",
                     mon |-> jh[i].mon, job |-> jh[i].job]
  <1>1. /\ Starts' = Starts \cup {new} /\ jobDatas' = jobDatas /\ monitors' = monitors
        /\ jh[i] # Idle
    BY DEF CaptureStart, Starts, memory
  <1>2. jh[i] \in JobCall /\ jh \in [Informers -> JobHandler]
    BY <1>1 DEF TypeOK, JobHandler
  <1>3. /\ jh'[i].pc = "adding" /\ jh'[i].mon = jh[i].mon /\ jh'[i].job = jh[i].job
        /\ jh'[i] # Idle
        /\ \A k \in Informers : k # i => jh'[k] = jh[k]
    <2>1. lastId + 1 \in Nat
      BY DEF TypeOK
    <2>2. jh'[i] = [jh[i] EXCEPT !.pc = "adding", !.id = lastId + 1]
      BY <1>2 DEF CaptureStart
    <2>3. jh'[i] \in JobCall
      BY <1>2, <2>1, <2>2 DEF JobCall
    <2>4. jh'[i] # Idle
      BY <2>3, NilAssumption
    <2>5. \A k \in Informers : k # i => jh'[k] = jh[k]
      BY <1>2 DEF CaptureStart
    <2>6. QED
      BY <1>2, <2>2, <2>4, <2>5 DEF JobCall
  <1>4. \A s \in Starts : ~IsOf(jh[i], s)
    BY DEF CaptureStart, StartInv
  <1>5. OneStartPerMonitor'
    BY <1>1, <1>4 DEF StartInv, OneStartPerMonitor, IsOf
  <1>6. (\A k \in Informers : At(k, "starting") => \A s \in Starts : ~IsOf(jh[k], s))'
    <2> SUFFICES ASSUME NEW k \in Informers, jh'[k] # Idle, jh'[k].pc = "starting",
                        NEW s \in Starts'
                 PROVE  ~IsOf(jh'[k], s)
      BY DEF IsOf
    <2>1. k # i /\ jh'[k] = jh[k]
      BY <1>3
    <2>2. CASE s \in Starts
      BY <2>1, <2>2 DEF StartInv
    <2>3. CASE s = new
      BY <1>1, <2>1, <2>3, HandlersApart DEF IsOf
    <2>4. QED
      BY <1>1, <2>2, <2>3
  <1>7. (\A s \in Starts : StartIsKnown(s))'
    <2> SUFFICES ASSUME NEW s \in Starts' PROVE StartIsKnown(s)'
      OBVIOUS
    <2>1. CASE s = new
      BY <1>3, <2>1 DEF StartIsKnown, Holds, IsOf
    <2>2. CASE s \in Starts /\ \E d \in jobDatas : d.mon = s.mon /\ d.name = JobName[s.job]
      BY <1>1, <2>2 DEF StartIsKnown
    <2>3. CASE s \in Starts /\ \E k \in Informers : Holds(k) /\ IsOf(jh[k], s)
      <3>1. PICK k \in Informers : Holds(k) /\ IsOf(jh[k], s)
        BY <2>3
      <3>2. k # i
        BY <3>1 DEF Holds, CaptureStart
      <3>3. QED
        BY <1>3, <3>1, <3>2 DEF StartIsKnown, Holds, IsOf
    <2>4. CASE /\ s \in Starts /\ \A n \in Names : monitors[n] # s.mon
               /\ \A k \in Informers : jh[k] # Idle => jh[k].mon # s.mon
      BY <1>1, <1>3, <2>4 DEF StartIsKnown
    <2>5. QED
      BY <1>1, <2>1, <2>2, <2>3, <2>4 DEF StartInv, StartIsKnown
  <1>8. QED
    BY <1>5, <1>6, <1>7 DEF StartInv

(* JobDatas is asked before a start, and answers for the only handler that *)
(* has a Job of this name.                                                 *)
LEMMA CheckinJobStartingStep ==
    ASSUME JobNamesApart, TypeOK, WorkInv, StartInv,
           NEW i \in Informers, CheckinJobStarting(i)
    PROVE  StartInv'
  <1>1. UNCHANGED <<checkins, jobDatas, monitors>> /\ Starts' = Starts
        /\ jh[i] # Idle /\ jh[i].pc = "checkin"
    BY DEF CheckinJobStarting, memory, sent, Starts
  <1>2. /\ \A k \in Informers : k # i => jh'[k] = jh[k]
        /\ jh'[i] # Idle => jh'[i].mon = jh[i].mon /\ jh'[i].job = jh[i].job
    BY HandlerFrame DEF HandlerStep
  <1>3. OneStartPerMonitor'
    BY <1>1 DEF StartInv, OneStartPerMonitor
  <1>4. (\A k \in Informers : At(k, "starting") => \A s \in Starts : ~IsOf(jh[k], s))'
    <2> SUFFICES ASSUME NEW k \in Informers, jh'[k] # Idle, jh'[k].pc = "starting",
                        NEW s \in Starts, IsOf(jh'[k], s)
                 PROVE  FALSE
      BY <1>1 DEF IsOf
    <2>1. CASE k # i
      BY <1>2, <2>1 DEF StartInv
    <2>2. CASE k = i
      <3>1. DataOf(jh[i].mon, jh[i].job) = {}
        BY <2>2 DEF CheckinJobStarting, Return, TypeOK
      <3>2. IsOf(jh[i], s)
        BY <1>2, <2>2 DEF IsOf
      <3>3. ~\E d \in jobDatas : d.mon = s.mon /\ d.name = JobName[s.job]
        BY <3>1, <3>2 DEF DataOf, IsOf
      <3>4. PICK l \in Informers : Holds(l) /\ IsOf(jh[l], s)
        BY <1>1, <3>2, <3>3 DEF StartInv, StartIsKnown, IsOf
      <3>5. l = i
        BY <1>1, <3>2, <3>4, HandlersApart DEF IsOf, Holds
      <3>6. QED
        BY <1>1, <3>4, <3>5 DEF Holds
    <2>3. QED
      BY <2>1, <2>2
  <1>5. (\A s \in Starts : StartIsKnown(s))'
    <2> SUFFICES ASSUME NEW s \in Starts PROVE StartIsKnown(s)'
      BY <1>1
    <2>1. CASE \E d \in jobDatas : d.mon = s.mon /\ d.name = JobName[s.job]
      BY <1>1, <2>1 DEF StartIsKnown
    <2>2. CASE \E k \in Informers : Holds(k) /\ IsOf(jh[k], s)
      BY <1>1, <1>2, <2>2 DEF StartIsKnown, Holds, IsOf
    <2>3. CASE /\ \A n \in Names : monitors[n] # s.mon
               /\ \A k \in Informers : jh[k] # Idle => jh[k].mon # s.mon
      BY <1>1, <1>2, <2>3 DEF StartIsKnown
    <2>4. QED
      BY <2>1, <2>2, <2>3 DEF StartInv, StartIsKnown
  <1>6. QED
    BY <1>3, <1>4, <1>5 DEF StartInv

LEMMA AddJobStep ==
    ASSUME TypeOK, StartInv, NEW i \in Informers, AddJob(i)
    PROVE  StartInv'
  <1> DEFINE d == [mon |-> jh[i].mon, name |-> JobName[jh[i].job], id |-> jh[i].id]
  <1>1. /\ Starts' = Starts /\ monitors' = monitors
        /\ jobDatas' = (jobDatas \ DataOf(jh[i].mon, jh[i].job)) \cup {d}
    BY DEF AddJob, sent, Starts
  <1>2. \A k \in Informers : IF k = i THEN jh'[k] = Idle ELSE jh'[k] = jh[k]
    BY DEF AddJob, Return, TypeOK
  <1>3. d \in jobDatas' /\ d.mon = jh[i].mon /\ d.name = JobName[jh[i].job]
    BY <1>1
  <1>4. \A e \in jobDatas : \E f \in jobDatas' : f.mon = e.mon /\ f.name = e.name
    BY <1>1, <1>3 DEF DataOf
  <1> HIDE DEF d
  <1>5. \A k \in Informers : Holds(k) =>
           \/ Holds(k)' /\ jh'[k].mon = jh[k].mon /\ jh'[k].job = jh[k].job
           \/ \E e \in jobDatas' : e.mon = jh[k].mon /\ e.name = JobName[jh[k].job]
    BY <1>2, <1>3 DEF Holds
  <1>6. QED
    BY <1>1, <1>2, <1>4, <1>5, QuietStarts

LEMMA StartStep ==
    ASSUME JobNamesApart, TypeOK, RefInv, WorkInv, StartInv, [Next]_vars
    PROVE  StartInv'
  <1>0. /\ lastRef \in Nat
        /\ \A s \in Starts : s.mon \in Monitor /\ s.mon.ref \in Nat
    BY DEF TypeOK, Starts, CheckIn, Monitor
  <1>1. CASE ClusterStep \/ (\E i \in Informers : CronStep(i)) \/ UNCHANGED vars
    <2>1. checkins' = checkins /\ jobDatas' = jobDatas /\ jh' = jh /\ Starts' = Starts
      BY <1>1, ClusterCronQuiet DEF Starts
    <2>2. ASSUME NEW s \in Starts, \A n \in Names : monitors[n] # s.mon
          PROVE  \A n \in Names : monitors'[n] # s.mon
      <3>1. s.mon # NoMonitor /\ s.mon.ref # lastRef + 1
        BY <1>0, NilAssumption DEF RefInv
      <3>2. QED
        BY <1>1, <2>2, <3>1, MonitorsChange
    <2>3. QED
      BY <2>1, <2>2, QuietStarts DEF Holds
  <1>2. ASSUME NEW i \in Informers, NEW j \in Jobs, Deliver(i, j)
        PROVE  StartInv'
    <2>1. UNCHANGED <<monitors, checkins, jobDatas>> /\ Starts' = Starts
      BY <1>2, DeliverCall DEF memory, sent, Starts
    <2>2. \A k \in Informers :
             \/ jh'[k] = jh[k]
             \/ jh[k] = Idle /\ jh'[k] = Idle
             \/ /\ jh[k] = Idle /\ jh'[k].pc = "checkin"
                /\ jh'[k].mon = MonitorOf(j) /\ MonitorOf(j) # NoMonitor
      BY <1>2, DeliverCall
    <2>3. \A s \in Starts :
             /\ \A n \in Names : monitors[n] # s.mon
             /\ \A k \in Informers : jh[k] # Idle => jh[k].mon # s.mon
             => \A k \in Informers : jh'[k] # Idle => jh'[k].mon # s.mon
      BY <2>2, OwnMonitor
    <2>4. QED
      BY <2>1, <2>2, <2>3, QuietStarts DEF Holds
  <1>3. ASSUME NEW i \in Informers, CaptureStart(i)
        PROVE  StartInv'
    BY <1>3, CaptureStartStep
  <1>4. ASSUME NEW i \in Informers, CheckinJobStarting(i)
        PROVE  StartInv'
    BY <1>4, CheckinJobStartingStep
  <1>5. ASSUME NEW i \in Informers, AddJob(i)
        PROVE  StartInv'
    BY <1>5, AddJobStep
  <1>6. ASSUME NEW i \in Informers,
               AddJobLock(i) \/ NothingToReport(i) \/ CheckinJobEnding(i)
        PROVE  StartInv'
    <2>1. UNCHANGED <<jobDatas, monitors>> /\ Starts' = Starts
      BY <1>6, VerdictType
         DEF AddJobLock, NothingToReport, CheckinJobEnding, memory, sent, Starts
    <2>2. \A k \in Informers : IF k # i THEN jh'[k] = jh[k]
                               ELSE jh[k] # Idle /\ (jh'[k] # Idle =>
                                       jh'[k].mon = jh[k].mon /\ jh'[k].job = jh[k].job)
      BY <1>6, HandlerFrame DEF HandlerStep
    <2>3. \/ jh[i].pc = "checkin" /\ jh'[i] = Idle
          \/ jh[i].pc = "adding" /\ jh'[i] # Idle /\ jh'[i].pc = "writing"
      <3>1. jh \in [Informers -> JobHandler]
        BY DEF TypeOK
      <3>2. CASE AddJobLock(i)
        <4>1. jh[i] \in JobCall
          BY <3>1, <3>2 DEF AddJobLock, JobHandler
        <4>2. jh'[i] \in JobCall /\ jh'[i].pc = "writing"
          BY <3>1, <3>2, <4>1 DEF AddJobLock, JobCall
        <4>3. QED
          BY <3>2, <4>2, NilAssumption DEF AddJobLock
      <3>3. CASE NothingToReport(i) \/ CheckinJobEnding(i)
        BY <3>1, <3>3 DEF NothingToReport, CheckinJobEnding, Return
      <3>4. QED
        BY <1>6, <3>2, <3>3
    <2>4. \A k \in Informers : Holds(k) =>
             Holds(k)' /\ jh'[k].mon = jh[k].mon /\ jh'[k].job = jh[k].job
      BY <2>2, <2>3 DEF Holds
    <2>5. \A k \in Informers : At(k, "starting")' => At(k, "starting") /\ jh'[k] = jh[k]
      BY <2>2, <2>3
    <2>6. QED
      BY <2>1, <2>2, <2>4, <2>5, QuietStarts
  <1>7. CASE Restart
    <2>1. /\ Starts' = Starts /\ \A n \in Names : monitors'[n] = NoMonitor
          /\ \A k \in Informers : jh'[k] = Idle
      BY <1>7 DEF Restart, sent, Starts
    <2>2. (\A s \in Starts : StartIsKnown(s))'
      BY <1>0, <2>1, NilAssumption DEF StartIsKnown
    <2>3. OneStartPerMonitor'
      BY <2>1 DEF StartInv, OneStartPerMonitor
    <2>4. QED
      BY <2>1, <2>2, <2>3 DEF StartInv
  <1>8. QED
    BY <1>1, <1>2, <1>3, <1>4, <1>5, <1>6, <1>7
       DEF Next, HandlerStep, Crash, MapFault

LEMMA SoloInvariant ==
    ASSUME JobNamesApart
    PROVE  Spec => []SoloInv
  <1>1. Init => SoloInv
    <2> SUFFICES ASSUME Init PROVE SoloInv
      OBVIOUS
    <2>1. Starts = {}
      BY DEF Init, Starts
    <2>2. QED
      BY <2>1 DEF Init, SoloInv, RefInv, WorkInv, StartInv, OneStartPerMonitor
  <1>2. TypeOK /\ CheckinInv /\ SoloInv /\ [Next]_vars => SoloInv'
    BY RefStep, WorkStep, StartStep DEF SoloInv, CheckinInv
  <1>3. QED
    BY <1>1, <1>2, TypeCorrect, CheckinsAreTrue, PTL DEF Spec

(* A Job is checked in once under its monitor data, however often its      *)
(* notifications are repeated, the agent restarts and the monitor data     *)
(* goes and comes, where no two informers see Jobs of one name.            *)
THEOREM JobsStartOnce ==
    ASSUME JobNamesApart
    PROVE  Spec => []OneStartPerMonitor
  <1>1. SoloInv => OneStartPerMonitor
    BY DEF SoloInv, StartInv
  <1>2. QED
    BY <1>1, SoloInvariant, PTL

----------------------------------------------------------------------------
(* The closing of Jobs that ended. *)

(* What stores and handlers know of a Job is the state of it or an earlier *)
(* one, and the store is not ahead of the handler.                         *)
StatusInv ==
    /\ \A j \in Jobs : IsPlain(job[j].status)
    /\ \A i \in Informers, j \in Jobs : jobSeen[i][j] # Absent =>
          /\ IsPlain(jobSeen[i][j])
          /\ Verdict(jobSeen[i][j]) \in {"none", Verdict(job[j].status)}
    /\ \A i \in Informers : jh[i] # Idle =>
          jobSeen[i][jh[i].job] \in {Absent, jh[i].status}

DataUnique ==
    \A d, e \in jobDatas : d.mon = e.mon /\ d.name = e.name => d = e

(* A finished Job that JobDatas has an entry of is closed, or its handler  *)
(* is about to.                                                            *)
ClosingInv ==
    \A i \in Informers : \A j \in Watched[i] \cap Jobs :
        jobSeen[i][j] # Absent /\ Finished(jobSeen[i][j]) =>
            \A d \in jobDatas : d.name = JobName[j] /\ d.mon = MonitorOf(j) =>
                \/ \E e \in Ends : e.id = d.id /\ e.job = j
                \/ At(i, "checkin") /\ jh[i].job = j /\ jh[i].mon = d.mon

EndInv == StatusInv /\ DataUnique /\ ClosingInv

(* StatusInv after a step, with the definitions in it expanded.            *)
LEMMA StatusAfter ==
    ASSUME \A j \in Jobs : IsPlain(job'[j].status),
           \A i \in Informers, j \in Jobs : jobSeen'[i][j] # Absent =>
              /\ IsPlain(jobSeen'[i][j])
              /\ Verdict(jobSeen'[i][j]) \in {"none", Verdict(job'[j].status)},
           \A i \in Informers : jh'[i] # Idle =>
              jobSeen'[i][jh'[i].job] \in {Absent, jh'[i].status}
    PROVE  StatusInv'
  <1>1. (\A j \in Jobs : IsPlain(job[j].status))'
    BY DEF IsPlain, Finished, Exited, Verdict, Result
  <1>2. (\A i \in Informers, j \in Jobs : jobSeen[i][j] # Absent =>
             IsPlain(jobSeen[i][j]))'
    BY DEF IsPlain, Finished, Exited, Verdict, Result
  <1>3. (\A i \in Informers, j \in Jobs : jobSeen[i][j] # Absent =>
             Verdict(jobSeen[i][j]) \in {"none", Verdict(job[j].status)})'
    BY DEF Verdict
  <1>4. QED
    BY <1>1, <1>2, <1>3 DEF StatusInv

LEMMA StatusStep ==
    ASSUME PlainConditions, TypeOK, StatusInv, [Next]_vars
    PROVE  StatusInv'
  <1>0. /\ jobSeen \in [Informers -> [Jobs -> Status \cup {Absent}]]
        /\ \A i \in Informers : jh[i] # Idle => jh[i].job \in Jobs
    BY RunningHandlerType DEF TypeOK
  <1>1. CASE ClusterStep
    <2>1. UNCHANGED <<jobSeen, jh>>
      BY <1>1 DEF ClusterStep, CreateCronJob, ChangeSchedule, DeleteCronJob,
                  CreateJob, JobStep, DeleteJob, stores
    <2>2. \A j \in Jobs : IsPlain(job'[j].status)
      BY <1>1, JobChanges DEF PlainConditions, StatusInv
    <2>3. \A i \in Informers, j \in Jobs : jobSeen[i][j] # Absent =>
              Verdict(jobSeen[i][j]) \in {"none", Verdict(job'[j].status)}
      <3> SUFFICES ASSUME NEW i \in Informers, NEW j \in Jobs, jobSeen[i][j] # Absent
                   PROVE  Verdict(jobSeen[i][j]) \in {"none", Verdict(job'[j].status)}
        OBVIOUS
      <3>1. Verdict(jobSeen[i][j]) \in {"none", Verdict(job[j].status)}
        BY DEF StatusInv
      <3>2. Verdict(job[j].status) \in {"none", Verdict(job'[j].status)}
        BY <1>1, JobChanges
      <3>3. QED
        BY <3>1, <3>2
    <2>4. \A i \in Informers, j \in Jobs :
              jobSeen[i][j] # Absent => IsPlain(jobSeen[i][j])
      BY DEF StatusInv
    <2>5. \A i \in Informers : jh[i] # Idle =>
              jobSeen[i][jh[i].job] \in {Absent, jh[i].status}
      BY DEF StatusInv
    <2>6. QED
      BY <2>1, <2>2, <2>3, <2>4, <2>5, StatusAfter
  <1>2. CASE (\E i \in Informers : CronStep(i)) \/ UNCHANGED vars
    <2>1. UNCHANGED <<job, jobSeen, jh>>
      BY <1>2 DEF CronStep, CronJobAdded, CronJobDeleted, CronJobPut,
                  CronJobDrop, cluster, stores, vars
    <2>2. QED
      BY <2>1, StatusAfter DEF StatusInv
  <1>3. ASSUME NEW i \in Informers, NEW j \in Jobs, Deliver(i, j)
        PROVE  StatusInv'
    <2>1. /\ job' = job /\ jh[i] = Idle
          /\ \A k \in Informers : k # i => jh'[k] = jh[k]
          /\ jobSeen' = [jobSeen EXCEPT ![i][j] = jobSeen'[i][j]]
          /\ jobSeen'[i][j] \in {Absent, job[j].status}
          /\ jh'[i] # Idle => jh'[i].job = j /\ jh'[i].status = job[j].status
      BY <1>3, DeliverCall
    <2>2. \A k \in Informers, l \in Jobs :
              jobSeen'[k][l] = IF k = i /\ l = j THEN jobSeen'[i][j] ELSE jobSeen[k][l]
      BY <1>0, <2>1
    <2>3. \A k \in Informers, l \in Jobs : jobSeen'[k][l] # Absent =>
              /\ IsPlain(jobSeen'[k][l])
              /\ Verdict(jobSeen'[k][l]) \in {"none", Verdict(job[l].status)}
      BY <2>1, <2>2 DEF StatusInv
    <2>4. \A k \in Informers : jh'[k] # Idle =>
              jobSeen'[k][jh'[k].job] \in {Absent, jh'[k].status}
      BY <1>0, <2>1, <2>2 DEF StatusInv
    <2>5. QED
      <3>1. \A l \in Jobs : IsPlain(job'[l].status)
        BY <2>1 DEF StatusInv
      <3>2. QED
        BY <2>1, <2>3, <2>4, <3>1, StatusAfter
  <1>4. ASSUME NEW i \in Informers, HandlerStep(i)
        PROVE  StatusInv'
    <2>1. /\ UNCHANGED <<job, jobSeen>> /\ \A k \in Informers : jh'[k] # Idle =>
                jh[k] # Idle /\ jh'[k].job = jh[k].job /\ jh'[k].status = jh[k].status
      BY <1>4, HandlerFrame DEF cluster, stores
    <2>2. QED
      BY <2>1, StatusAfter DEF StatusInv
  <1>5. CASE Restart
    <2>1. /\ job' = job /\ \A k \in Informers : jh'[k] = Idle
          /\ \A k \in Informers, l \in Jobs : jobSeen'[k][l] = Absent
      BY <1>5 DEF Restart, cluster
    <2>2. QED
      BY <2>1, StatusAfter DEF StatusInv
  <1>6. QED
    BY <1>1, <1>2, <1>3, <1>4, <1>5 DEF Next, Crash, MapFault

LEMMA DataUniqueStep ==
    ASSUME TypeOK, DataUnique, [Next]_vars
    PROVE  DataUnique'
  <1>1. ASSUME NEW i \in Informers, AddJob(i)
        PROVE  DataUnique'
    BY <1>1 DEF AddJob, DataOf, DataUnique
  <1>2. ASSUME NEW i \in Informers,
               \/ CheckinJobStarting(i) \/ CaptureStart(i) \/ AddJobLock(i)
               \/ NothingToReport(i) \/ CheckinJobEnding(i)
        PROVE  jobDatas' = jobDatas
    BY <1>2 DEF CheckinJobStarting, CaptureStart, AddJobLock, NothingToReport,
                CheckinJobEnding, memory
  <1>3. ASSUME NEW i \in Informers, NEW j \in Jobs, Deliver(i, j)
        PROVE  jobDatas' = jobDatas
    BY <1>3, DeliverEffect DEF memory
  <1>4. ASSUME ClusterStep \/ (\E i \in Informers : CronStep(i)) \/ UNCHANGED vars
        PROVE  jobDatas' = jobDatas
    BY <1>4, ClusterCronQuiet
  <1>5. ASSUME Restart
        PROVE  jobDatas' = {}
    BY <1>5 DEF Restart
  <1>6. QED
    BY <1>1, <1>2, <1>3, <1>4, <1>5
       DEF Next, HandlerStep, Crash, MapFault, DataUnique

(* A check-in is pending, or done, for the entry d of a finished Job. *)
Closes(i, j, d) ==
    \/ \E e \in Ends : e.id = d.id /\ e.job = j
    \/ At(i, "checkin") /\ jh[i].job = j /\ jh[i].mon = d.mon

(* Whose handler it is that holds a Job. *)
LEMMA HandlerOfJob ==
    ASSUME UniqueJobNames, JobNamesApart, TypeOK, WorkInv,
           NEW i \in Informers, NEW j \in Watched[i] \cap Jobs,
           NEW k \in Informers, jh[k] # Idle, JobName[jh[k].job] = JobName[j]
    PROVE  k = i /\ jh[k].job = j
  <1>1. jh[k].job \in Jobs /\ jh[k].job \in Watched[k]
    BY RunningHandlerType DEF WorkInv
  <1>2. QED
    BY <1>1 DEF UniqueJobNames, JobNamesApart

(* A Job the store knows to be finished is finished for its handler. *)
LEMMA FinishedHandler ==
    ASSUME TypeOK, StatusInv, NEW i \in Informers, jh[i] # Idle,
           jobSeen[i][jh[i].job] # Absent, Finished(jobSeen[i][jh[i].job])
    PROVE  /\ Finished(jh[i].status) /\ Exited(jh[i].status)
           /\ ~JustBegun(jh[i].status) /\ Verdict(jh[i].status) # "none"
           /\ jh[i].status.active = 0
  <1>1. jh[i].status = jobSeen[i][jh[i].job] /\ jh[i].job \in Jobs
    BY RunningHandlerType DEF StatusInv
  <1>2. IsPlain(jh[i].status) /\ Finished(jh[i].status)
    BY <1>1 DEF StatusInv
  <1>3. jh[i].status \in Status
    BY RunningHandlerType
  <1>4. QED
    BY <1>2, <1>3 DEF IsPlain, Exited, JustBegun, Result, Status

LEMMA ClosingStep ==
    ASSUME UniqueJobNames, JobNamesApart, TypeOK, RefInv, WorkInv, StatusInv,
           DataUnique, ClosingInv, [Next]_vars
    PROVE  ClosingInv'
  <1> SUFFICES ASSUME NEW i \in Informers, NEW j \in Watched[i] \cap Jobs,
                      jobSeen'[i][j] # Absent, Finished(jobSeen'[i][j]),
                      NEW d \in jobDatas', d.name = JobName[j],
                      d.mon = MonitorOf(j)'
               PROVE  Closes(i, j, d)'
    BY DEF ClosingInv, Closes, Finished
  <1>0. /\ jh \in [Informers -> JobHandler]
        /\ jobSeen \in [Informers -> [Jobs -> Status \cup {Absent}]]
    BY DEF TypeOK
  <1>1. ASSUME jobSeen'[i][j] = jobSeen[i][j], d \in jobDatas, MonitorOf(j)' = MonitorOf(j)
        PROVE  Closes(i, j, d)
    BY <1>1 DEF ClosingInv, Closes
  <1>2. CASE ClusterStep \/ (\E k \in Informers : CronStep(k)) \/ UNCHANGED vars
    <2>1. /\ checkins' = checkins /\ jobDatas' = jobDatas /\ jh' = jh
          /\ Ends' = Ends
      BY <1>2, ClusterCronQuiet DEF Ends, Starts
    <2>2. jobSeen' = jobSeen
      BY <1>2 DEF ClusterStep, CreateCronJob, ChangeSchedule, DeleteCronJob,
                  CreateJob, JobStep, DeleteJob, CronStep, CronJobAdded,
                  CronJobDeleted, CronJobPut, CronJobDrop, stores, vars
    <2>3. d.mon \in Monitor /\ d.mon.ref \in Nat /\ d.mon.ref <= lastRef /\ lastRef \in Nat
      BY <2>1 DEF TypeOK, JobData, Monitor, RefInv
    <2>4. MonitorOf(j)' = MonitorOf(j)
      <3>1. Owner[j] # NoOwner
        BY <2>3, NilAssumption DEF MonitorOf
      <3>2. CronName[Owner[j]] \in Names
        BY <3>1, NamesAssumption
      <3>3. d.mon = monitors'[CronName[Owner[j]]]
        BY <3>1 DEF MonitorOf
      <3>4. d.mon = monitors[CronName[Owner[j]]]
        BY <1>2, <2>3, <3>2, <3>3, MonitorsChange, NilAssumption
      <3>5. QED
        BY <3>1, <3>3, <3>4 DEF MonitorOf
    <2>5. QED
      BY <1>1, <2>1, <2>2, <2>4 DEF Closes
  <1>3. ASSUME NEW k \in Informers, NEW l \in Jobs, Deliver(k, l)
        PROVE  Closes(i, j, d)'
    <2>1. /\ UNCHANGED <<monitors, jobDatas, checkins>> /\ Ends' = Ends
          /\ jh[k] = Idle /\ \A m \in Informers : m # k => jh'[m] = jh[m]
          /\ jobSeen' = [jobSeen EXCEPT ![k][l] = jobSeen'[k][l]]
          /\ MonitorOf(l) # NoMonitor =>
                /\ jh'[k] # Idle /\ jh'[k].pc = "checkin" /\ jh'[k].job = l
                /\ jh'[k].mon = MonitorOf(l)
      BY <1>3, DeliverCall DEF memory, sent, Ends, Starts
    <2>2. MonitorOf(j)' = MonitorOf(j) /\ MonitorOf(j) # NoMonitor
      BY <2>1, NilAssumption DEF MonitorOf, TypeOK, JobData
    <2>3. CASE k = i /\ l = j
      BY <2>1, <2>2, <2>3 DEF Closes
    <2>4. CASE ~(k = i /\ l = j)
      <3>1. jobSeen'[i][j] = jobSeen[i][j]
        BY <1>0, <2>1, <2>4
      <3>2. Closes(i, j, d)
        BY <1>1, <2>1, <2>2, <3>1
      <3>3. QED
        BY <2>1, <3>2 DEF Closes
    <2>5. QED
      BY <2>3, <2>4
  <1>4. ASSUME NEW k \in Informers, HandlerStep(k)
        PROVE  Closes(i, j, d)'
    <2>1. /\ UNCHANGED <<jobSeen, monitors>> /\ jh[k] # Idle
          /\ \A m \in Informers : m # k => jh'[m] = jh[m]
          /\ MonitorOf(j)' = MonitorOf(j)
      BY <1>4, HandlerFrame DEF stores, MonitorOf
    <2>2. \A e \in Ends : e \in Ends'
      BY <1>4, VerdictType
         DEF HandlerStep, CheckinJobStarting, CaptureStart, AddJobLock, AddJob,
             NothingToReport, CheckinJobEnding, Ends, Starts, sent
    <2>3. ASSUME jh[k].job = j, k = i
          PROVE  /\ Finished(jh[k].status) /\ Exited(jh[k].status)
                 /\ ~JustBegun(jh[k].status) /\ Verdict(jh[k].status) # "none"
                 /\ jh[k].status.active = 0
      BY <2>1, <2>3, FinishedHandler
    <2>4. CASE d \notin jobDatas
      <3>1. AddJob(k) /\ d.name = JobName[jh[k].job]
        BY <1>4, <2>4
           DEF HandlerStep, CheckinJobStarting, CaptureStart, AddJobLock, AddJob,
               NothingToReport, CheckinJobEnding, memory
      <3>2. k = i /\ jh[k].job = j
        <4>1. jh[k] # Idle /\ JobName[jh[k].job] = JobName[j]
          BY <2>1, <3>1
        <4>2. QED
          BY <4>1, HandlerOfJob
      <3>3. JustBegun(jh[k].status)
        <4>1. jh[k].pc = "writing"
          BY <3>1 DEF AddJob, At
        <4>2. jh[k].pc # "checkin"
          BY <4>1
        <4>3. QED
          BY <2>1, <4>2, Zenon DEF WorkInv
      <3>4. QED
        BY <2>3, <3>2, <3>3
    <2>5. CASE d \in jobDatas
      <3>1. Closes(i, j, d)
        BY <1>1, <2>1, <2>5
      <3>2. CASE \E e \in Ends : e.id = d.id /\ e.job = j
        BY <2>2, <3>2 DEF Closes
      <3>3. CASE k # i
        BY <2>1, <2>2, <3>1, <3>3 DEF Closes
      <3>4. CASE k = i /\ At(i, "checkin") /\ jh[i].job = j /\ jh[i].mon = d.mon
        <4>1. d \in DataOf(jh[k].mon, jh[k].job)
          BY <2>5, <3>4 DEF DataOf
        <4>2. CheckinJobEnding(k)
          BY <1>4, <2>3, <3>4, <4>1
             DEF HandlerStep, CheckinJobStarting, CaptureStart, AddJobLock,
                 AddJob, NothingToReport
        <4>3. PICK x \in DataOf(jh[k].mon, jh[k].job) :
                 checkins' = checkins \cup
                   {[id |-> x.id, status |-> Verdict(jh[k].status),
                     mon |-> jh[k].mon, job |-> jh[k].job]}
          BY <4>2 DEF CheckinJobEnding
        <4>4. x = d
          BY <4>1 DEF DataOf, DataUnique
        <4>5. Verdict(jh[k].status) # "in_progress"
          BY DEF Verdict
        <4>6. [id |-> d.id, status |-> Verdict(jh[k].status),
               mon |-> jh[k].mon, job |-> j] \in Ends'
          BY <3>4, <4>3, <4>4, <4>5 DEF Ends, Starts
        <4>7. QED
          BY <4>6 DEF Closes
      <3>5. QED
        BY <3>1, <3>2, <3>3, <3>4 DEF Closes
    <2>6. QED
      BY <2>4, <2>5
  <1>5. CASE Restart
    BY <1>5 DEF Restart
  <1>6. QED
    BY <1>2, <1>3, <1>4, <1>5 DEF Next, Crash, MapFault

(* A Job that the store of its informer knows to be finished is closed     *)
(* with its result once the handler is done with it, through restarts and  *)
(* lost monitor data: where no two Jobs have one name, each is seen by one *)
(* informer, and the first condition of a finished Job is its result.      *)
THEOREM EndedJobsAreClosed ==
    ASSUME UniqueJobNames, JobNamesApart, PlainConditions
    PROVE  Spec => []EndedJobIsClosed
  <1>1. Init => EndInv
    <2> SUFFICES ASSUME Init PROVE EndInv
      OBVIOUS
    <2>1. IsPlain(NewStatus)
      BY DEF IsPlain, Finished, NewStatus
    <2>2. QED
      BY <2>1 DEF Init, EndInv, StatusInv, DataUnique, ClosingInv
  <1>2. TypeOK /\ SoloInv /\ EndInv /\ [Next]_vars => EndInv'
    BY StatusStep, DataUniqueStep, ClosingStep DEF SoloInv, EndInv
  <1>3. TypeOK /\ CheckinInv /\ EndInv => EndedJobIsClosed
    <2> SUFFICES ASSUME TypeOK, CheckinInv, EndInv, NEW i \in Informers,
                        NEW j \in Watched[i] \cap Jobs, jh[i] = Idle,
                        jobSeen[i][j] # Absent, Finished(jobSeen[i][j]),
                        NEW d \in jobDatas, d.name = JobName[j], d.mon = MonitorOf(j)
                 PROVE  \E e \in Ends : /\ e.id = d.id /\ e.job = j
                                        /\ e.status = Result(jobSeen[i][j])
      BY DEF EndedJobIsClosed
    <2>1. PICK e \in Ends : e.id = d.id /\ e.job = j
      BY DEF EndInv, ClosingInv
    <2>2. e.status = Verdict(job[j].status)
      BY <2>1 DEF CheckinInv, TruthInv, EndVerdict
    <2>3. Verdict(jobSeen[i][j]) = Result(jobSeen[i][j])
      BY DEF EndInv, StatusInv, IsPlain
    <2>4. Verdict(jobSeen[i][j]) = Verdict(job[j].status)
      BY <2>3 DEF EndInv, StatusInv, Result
    <2>5. QED
      BY <2>1, <2>2, <2>3, <2>4
  <1>4. QED
    BY <1>1, <1>2, <1>3, TypeCorrect, CheckinsAreTrue, SoloInvariant, PTL DEF Spec
=============================================================================
