# A verification project for sentry-kubernetes

The agent in `src/` watches a Kubernetes cluster and sends what goes wrong in it
to Sentry: one goroutine per namespace reads the cluster's Event objects, one
reads Pods, and one set of informers follows CronJobs and Jobs and sends Crons
check-ins. This directory models the parts of it that have state and
concurrency, checks them with TLC on small instances, and proves with TLAPS,
for instances of any size, every safety property that TLC checks.

    tlasany M.tla                          parse a module
    tlc -workers 2 -config X.cfg MCxxx     a run, named in PROJECT.json
    tlapm CronsProofs.tla                  the proofs about check-ins
    tlapm EventBufferProofs.tla            ... the event buffer and the pipeline over it
    tlapm EventWatcherProofs.tla           ... one event watcher in time
    tlapm DsnProofs.tla                    ... the Sentry clients
    tlapm EnhancersProofs.tla              ... root owners and grouping
    tlapm PodWatcherProofs.tla             ... the Pod watcher
    tlapm StartUpProofs.tla                ... the start and the informers (three minutes)
    tlapm Induction.tla                    ... the induction that some of them use

## The system

`main` reads the configuration and starts, for every namespace to watch (or once
for all of them, `__all__`), `watchEventsInNamespaceForever` and
`watchPodsInNamespaceForever`. The latter starts the namespace's informers with
`go startInformers`. From then on these goroutines run concurrently and meet in
four package-level variables:

| shared state | written by | read by | lock |
|---|---|---|---|
| `cronsMetaData` (monitor data by CronJob name) | CronJob handlers | Job handlers | per map operation |
| `CronsMonitorData.JobDatas` (check-in ID by Job name) | Job handlers | Job handlers | writes only |
| `eventBuffer` (ring of 1000 events) | event watchers | event watchers | per operation |
| `dsnClientMapping` (Sentry client by DSN) | all | all | per operation |

The informer variables (`informers.go:12`) are global too, without a lock, and
overwritten by each namespace; so are the objects in the informers' caches, which
are handed out by pointer. `main` sets the filter sets, the main hub's scope and the
GKE metadata before its first `go` statement, and nobody writes them after it.

### Components

**Crons check-ins** (`crons.go`, `crons_monitor_data.go`, `informer_cronjobs.go`,
`informer_jobs.go`). State: monitor data by CronJob name, and under each the ID
of the check-in of every Job name. Operations: a CronJob is added (monitor data
is created if the name has none) or deleted (it is removed); a Job is added,
updated or deleted (each of which runs `runSentryCronsCheckin`: a Job without
pods is opened, one without active pods is closed with the verdict of its first
condition). Hard: the CronJob and the Job handler are different goroutines, so
monitor data may come and go between the lookup and the check-in; the opening is
sent before its ID is recorded; every update repeats a status; nothing survives
a restart; names are not unique across namespaces. Correct if a closing check-in
goes to the check-in that was opened for that Job, has that Job's result, and is
sent once the Job has ended.

**Event watcher** (`watcher_events.go`, `filters.go`). State: the cutoff
`watchSince` and the position in the watch. Operations: connect, handle a
notification (cutoff, type, reason and source filters, report, buffer), start
again a second after the channel was closed. Hard: every connection replays the
existing events; timestamps are whole seconds and the cutoff is not, and an event
may have no timestamp at all, which the code never takes for old; the event is
buffered by a deferred call, after its report, while other watchers buffer
theirs. Correct if old events that have a timestamp stay out, new ones are not lost
for good, and filtered ones are not reported.

**Event buffer** (`event_buffer.go`). State: a `container/ring`. Operations: add,
and filter by involved object. Correct if it is the window of the last 1000
events in order.

**DSN clients** (`sentry_dsn_data.go`). State: the client of each DSN, and the
client bound in the layer of each goroutine's hub. Operations: search the DSN up
the first owners, look its client up, create one. Hard: requests fail between
two steps of the search, lookup and creation are separate critical sections.
Correct if an event goes to its own object's project and clients stay bounded.

**Pod watcher** (`watcher_pods.go`). State: the position in the watch.
Operations: a Modified notification of a Pod that is not being deleted reports
each container that has terminated with an error. Hard: no cutoff and no memory,
so any later modification reports the same termination again; what happened before a
connection arrives on it as Added and is skipped; the deletion of a Pod terminates its
containers too, and from then on all of the Pod is skipped. Correct if what it reports
are failures from before the deletion, at most once per modification, and if of what
it is shown on a connection that lasts nothing is lost but those two: a failure that
the connection begins with, and one that is shown of a Pod being deleted.

**Enhancers and grouping** (`enhancers.go`, `enhancers_common.go`). State: the
message, the fingerprint and the breadcrumbs of the event. Operations: breadcrumbs
from the buffer, and one for the creation of each object that is enhanced, under one
limit; a search of all root owners (depth first, by a request per owner); the
fingerprint of the roots in place of the object's. Hard: it may fail half way,
and it changes cached objects that other goroutines read.

**Informers** (`informers.go`, `informer_*.go`). State: four package variables,
and the cache of each informer. Operations: every namespace's `startInformers`
assigns all four, starts its own factory, and waits for the caches of whatever the
variables hold; `findObject` asks the informer in the variable and then the API
server; an enhancer clears a field of the object it was given. Hard: all of it is
concurrent and without a lock. Correct if an owner that exists is found, no report
shows a field half cleared, and no call waits for ever. The handlers are part of
Crons check-ins.

**Start-up** (`main.go`, `k8s.go`, `cluster_config.go`, `sentry.go`, `filters.go`,
`integrations*.go`, `utils.go`, `context.go`). State: the filter sets, the scope of
the main hub, the GKE metadata. Operations: one after the other, each of which may
end the process. Hard: settings override each other in an order, and every watcher
takes a copy of the scope when its goroutine gets to run. Correct if what is watched
is what was configured, and every copy is complete. `py-legacy/` holds the README of
the retired Python agent and no code.

## Modules

| module | models | as |
|---|---|---|
| `CheckInLifecycle` | what the Crons integration promises | abstract specification |
| `CronsCheckins` | the Crons integration in a cluster | detailed specification |
| `CronsProofs` | | theorems and proofs |
| `MCCrons` | instances for the `Crons*.cfg` runs | |
| `RecentEvents` | what the event buffer promises | abstract specification |
| `EventBuffer` | `event_buffer.go` | detailed specification |
| `EventPipeline` | `handleWatchEvent` in all watchers, over `EventBuffer` | composition |
| `EventBufferProofs` | | theorems and proofs about both |
| `EventWatcher` | one watcher in time: connections and the cutoff | |
| `EventWatcherProofs` | | theorems and proofs |
| `DsnClients` | the search for a DSN and the client map | |
| `DsnProofs` | | theorems and proofs |
| `Enhancers` | the search for root owners and the fingerprint of a report | |
| `EnhancersProofs` | | theorems and proofs |
| `PodWatcher` | one Pod watcher: containers, their published status, connections | |
| `PodWatcherProofs` | | theorems and proofs |
| `Informers` | `startInformers`, the caches, `findObject` and the change of cached objects | |
| `StartUp` | `main`, and the watchers' goroutines over `Informers` | composition |
| `StartUpProofs` | | theorems and proofs about both |
| `Induction` | | lemmas on induction, for the proofs |
| `MCEvents`, `MCWatcher`, `MCDsn`, `MCEnhancers`, `MCPods`, `MCStartUp` | instances | |

Definitions that a comment calls "Mutant" are variants of the definition that
follows them with a plausible mistake. They are part of no specification: for
each property, `PROJECT.json` names one that breaks it.

### CronsCheckins

An informer `i` stands for one call of `startInformers`, and has two handler
goroutines: `ch[i]` for CronJobs and `jh[i]` for Jobs, as client-go gives every
listener a goroutine. The steps of a handler are the points where another
goroutine can come between:

| code | action |
|---|---|
| CronJob `AddFunc`: lookup / `addCronsMonitorData` | `CronJobAdded` / `CronJobPut` |
| CronJob `DeleteFunc`: lookup / `deleteCronsMonitorData` | `CronJobDeleted` / `CronJobDrop` |
| Job `AddFunc`, `UpdateFunc`, `DeleteFunc` up to `getCronsMonitorData` | `JobAdded`, `JobUpdated`, `JobDeleted` (through `RunSentryCronsCheckin`) |
| `checkinJobStarting`: read `JobDatas` / `CaptureCheckIn` / `addJob` locks / writes | `CheckinJobStarting` / `CaptureStart` / `AddJobLock` / `AddJob` |
| `checkinJobEnding` | `CheckinJobEnding`, or `NothingToReport` |
| read of `JobDatas` while another goroutine writes it: the Go runtime ends the process | `MapFault` |
| the process ends and is restarted (killed, or the panic of a `DeleteFunc` on a `DeletedFinalStateUnknown`) | `Crash` |

`checkinJobEnding` is one step: between its read of `JobDatas` and its capture it
touches nothing that is shared. The cluster (`CreateCronJob` ... `DeleteJob`) and
the delivery of its objects are external. An informer calls a handler when its
store (`cronSeen`, `jobSeen`) differs from the cluster; one that lags is one that
has not taken the step yet. A handler is given the state at that moment, so an
informer that lists anew and skips states in between is included, and one that
delivers every old state in turn is represented by the runs in which it takes
each step promptly. A `*CronsMonitorData` is its identity (`ref`), so data
deleted and created again under a name is another one, and `jobDatas` keeps the
entries of data that only a handler still points to. The Job in a check-in is a
history variable: the agent sends the ID, the slug, the status and the schedule.

### The event modules

`EventPipeline` is about contents: which event is in which report, for watchers
that share the ring. `EventWatcher` is about time: ticks, `Second` of them to a
second, with timestamps cut to whole seconds by Kubernetes, and connections that
replay what exists; an event has a `LastTimestamp`, an `EventTime` or neither
(`Stamp`). The cutoff test is in both: a set (`Old`) in the first, a
comparison of times in the second. The breadcrumb filter compares the involved
object of buffered events with the Event object itself (`Self`), as the code
does (`EventBreadcrumbs`). After that the kind enhancers of the involved object and of
its root owners (`Lineage`) add a "Created ..." breadcrumb each, under the same limit,
or none of them does, if the object was not found or the search for its owners failed
(`Enhanced`): what is captured is `Breadcrumbs`, in which they may have driven out the
oldest events. How the search goes is in `Enhancers`. Normal events and the filter
sets are constants; `StartUp` has how they are read from the environment.

### DsnClients

Every goroutine handles one notification at a time: `Receive`, one `SearchDsn`
for each object on the way up, `GetClientFromMap`, `AddClientToMap`, `Send`. Any
call of `findObject` may fail, for a deletion, a refused request or a timeout
(`OwnerNotFound`); `failed` remembers it so that the property can tell a
justified fallback to the default client from a wrong one.

### Enhancers

One handler builds one report after the other; handlers share nothing here.
`BuildSentryEvent` looks the object up and runs the common enhancer, `ObjectEnhancer`
goes up to the search, and each `OwnerFound` or `OwnerNotFound` is one call of
`findObject` in `ownerRefDFS`: `todo` is what the recursion has still to look up, in
its order, and `roots` what it has found. `KindEnhancers` is the rest of
`objectEnhancer`, in which nothing can fail. `lookup` remembers whether a request
failed, or a kind was unknown. What the search must find is defined apart from it
(`Reached`, `RootsOf`), by sets that are closed under owners.

### PodWatcher

A container has a run and a state on its node (`container`), and the same as the
kubelet last published it (`status`). Every change of the Pod is a revision, and a
notification with the statuses of all its containers. `HandlePodWatchEvent` is
`handlePodWatchEvent`: `Skipped` is what it returns on (a type other than Modified,
a Pod with a deletion timestamp), `Reported` its loop and the test of the exit code
in `handlePodTerminationEvent`. `Connect` is a call of `watchPodsInNamespace`, and
`Again` the end of one; the `RetryWatcher` may reconnect by itself (`Reconnect`),
and with a resource version that `watchFunc` ignores each of its connections begins
with an Added notification of every Pod. A report is known by container, run,
revision and connection; `shown` and `failures` are history variables. `failures` is
what failed on the node. `shown` is every failed run in every notification of the open
connection, those it begins with and those the watcher will skip included, with what
the server says of them: that they are replayed, that the Pod is being deleted.

A failure that the kubelet never published, because the container was restarted
first, is not shown to anybody. One that was published when there was no connection,
before the agent started included, is shown as Added when the next one begins; one
from before the deletion may first be shown with a DeletionTimestamp. The code skips
both (`watcher_pods.go:79`, `:95`), and they are lost on a connection that lasts as
well, the first until somebody modifies the Pod. All of this is in the model.
`IsNews` names the two exceptions by what the server says, not by what the watcher
does: every other failure that is shown must be reported.

### Informers and StartUp

`Informers` has the steps of a call of `startInformers` at which another goroutine
can come between: one `CreateInformer` per variable, `FactoryStart`, and for each
kind `BindHasSynced` (the argument of `WaitForCacheSync` is the informer that the
variable holds then) and `WaitForCacheSync`. client-go is external: a started
informer lists and follows the objects of its namespace late (`CacheSet`,
`CacheDelete`), and the four informers of one factory count as synced together
(`Sync`), when the slowest is. An object is known by its place in `managed`, the
`ManagedFields` of everything ever decoded: an update decodes a new object, and
everyone who has the pointer of the old one goes on with it. The field is a slice,
of which two words matter and are written in any order (`ClearWord`). A first
assignment of a variable that is read while it is written may call a method of a
nil informer: the process ends (`NilInformer`).

`StartUp` is `main`, one action per call, in an environment that is chosen in
`Init`: the variables, whether there is a service account or a kubeconfig, whether
the API server tells its version and a clientset can be made, and what the metadata
server answers (a body that does not decode and a refused connection end the
process; no answer at all leaves `main` waiting, as its client has no timeout). A
value is a word, whether it has letters in upper case, and whether there are spaces
around it: enough for `TrimSpace` and `ToLower` to do what they do. Then each
watcher's goroutine clones the hub and the one for Pods calls `startInformers`, and
the watchers build reports: a look-up of the Pod's owner, the enhancers' change of
it, and the link to the Pod's logs in the layer of that report. What a report shows
of `ManagedFields` is what they are when it is sent.

The kinds of objects in the run are Jobs and CronJobs, the two that are created in
one order and waited for in the other.

## The runs

Passing runs; each property has a mutant that breaks it in that run.

| run | question | bounds |
|---|---|---|
| `crons_one_informer` | Two CronJobs of one name under one informer (`__all__`): is monitor data kept (`MonitorKept`), is a Job opened once per monitor data (`OneStartPerMonitor`), is an ended Job closed with its result when its handler is done (`EndedJobIsClosed`), and is one that was opened closed in the end (`EndIsReported`), also if it is deleted at once? | two CronJob operations: create both, create one and edit its schedule, or create one and delete it while Jobs run; two Jobs, one without an owner, so that one's notifications can delay the other's |
| `crons_restart` | A namespace that is listed twice has two informers: with both racing on the same monitor data and Job, map faults and a restart anywhere, do the check-ins implement `CheckInLifecycle`, has a closing one its opening one (`EndHasStart`), and is `CheckinInv` an invariant? | one CronJob, one Job that fails once and is retried, two CronJob operations, so that it may go and come again, one crash, two IDs, so that both informers may open the Job; a second crash meets the same states with higher IDs; the informers are exchanged by symmetry |
| `event_pipeline` | Does the ring implement `RecentEvents` for two watchers, does the filter read that window in order, and are breadcrumbs the last ones of the recent history and of the creations that follow it (`CrumbsAreRecentHistory`)? | a ring of three and up to five deliveries of five events, so it wraps around; a limit of two breadcrumbs and up to two creations, so that they drive out some events or all |
| `watcher` | Old events out (`OldEventsNotReported`), wrong drops under a second (`DropsAreWithinASecond`), nothing lost for good (`EveryEventIsDecided`) | five ticks, two to the second; three events, one with a `LastTimestamp`, one with an `EventTime` and one with neither, and three occurrences among them; two connections, so one replay, by reconnection or after a closed channel |
| `dsn` | Right project (`SentToItsProject`), bounded clients (`ClientsPerDsn`), every event sent (`EveryEventIsSent`) | two goroutines, a chain of three owners, every kind of annotation, four notifications: twice what it takes to race and one more to meet the result |
| `pods` | Are reports of failures from before the deletion (`ReportsAreFailures`), once per modification (`OncePerModification`), and is what a connection shows, but for what it begins with and what is of a Pod being deleted, not lost while it lasts (`NothingLostWhileConnected`) and reported in the end (`FailureIsReported`)? | one Pod, as Pods share nothing but the stream; two containers, so that one may run when the other has failed; two runs and four revisions, so that a failure is published, repeated and overtaken by a restart or a deletion; two connections, so one replay |
| `start_up` | Are the namespaces watched the ones asked for, all of them and no others (`WatchesAsConfigured`), are hubs complete (`HubsAreComplete`) and filters as the README says (`FiltersIgnoreCase`); with two informers over the same variables, is an owner that exists found (`ExistingIsFound`), no report half cleared (`MetadataIsClean`), the link in its own Pod's report (`LinkIsOfItsPod`), and is every namespace asked for watched and listed in the end (`EveryNamespaceIsCached`)? | nineteen environments, each a different way through `main` or out of it; two namespaces with a watcher of each kind, or all namespaces under one; reports, changes of objects and namespaces are three together: with two namespaces a report or a change beside the race of two calls, with one two reports of one cached object, or one and its change |
| `enhancers` | Does the search find every root (`SearchIsComplete`), are complete reports grouped by message and root (`GroupedByRoot`), failed ones by the message alone (`FailureIsNotHalfGrouped`)? | two reports, which is what the grouping relates; a chain, a diamond, two ReplicaSets of one name, an unknown kind; two messages of one pattern and one without |

The bounds in the modules are `MaxCronOps`, `MaxCrashes`, `MaxIds`
(`CronsCheckins`), `MaxHandled` (`EventPipeline`, `DsnClients`, `Enhancers`),
`MaxTime`, `MaxOccurs` and `MaxConns` (`EventWatcher`), `MaxRuns`, `MaxRevs` and `MaxConns`
(`PodWatcher`), and `MaxWork` (`StartUp`). Each disables the action that would
exceed it.

Runs that show where the code and what is said part; each is a finding in
`PROJECT.json`:

| run | what happens |
|---|---|
| `crons_cross_talk` | Two namespaces with a CronJob of the same name and schedule have Jobs of the same name. Monitor data is keyed by the CronJob's name and check-ins by the Job's, so the check-in opened for one is closed with the result of the other. |
| `crons_suspended_job` | A Job that was suspended has `Suspended` as its first condition, the only one `checkinJobEnding` reads; its check-in stays open. |
| `event_related_crumbs` | The filter looks for events about the Event itself, not for those about its involved object: earlier events about the same Pod are not found. The limit is one that no report reaches, so that they are not driven out by anything. |
| `cronjob_of_operator` | The search for root owners fails if one owner has an unknown kind. Where an operator's custom resource owns a CronJob, none of the events of its Jobs and Pods has the monitor's slug. |

The shared name of the first finding has two more effects, which were seen in the
model of two informers: the deletion of one namespace's CronJob removes the monitor
data of its namesake, whose later Jobs are not checked in; and both informers may
find no monitor data, so that the second replaces what the first added, with the IDs
in it. `MonitorKept` and `OneStartPerMonitor` are therefore only checked for one
informer, and say nothing of that race; they are about the notifications of one. A
namespace that is listed twice has two as well, because `removeDuplicates` never
fills its set (`RemoveDuplicates` in `StartUp`): what still holds of its check-ins
is what `crons_restart` checks.

README.md:23 says that old events are not reported by default. The code never takes an
event without any timestamp for old (`watcher_events.go:124`): in `watcher` the event
`e3` is one, `EveryEventIsDecided` has it reported in the end whenever it happened, and
`OldEventsNotReported` is about the others.

There is no `UpdateFunc` for CronJobs, so that an edited schedule is not taken from
the manifest (README.md:99) until the agent restarts; `ChangeSchedule` happens in
`crons_one_informer`, and no property is about it.

### Deadlock

Every cfg says `CHECK_DEADLOCK FALSE`: a cluster in which nothing happens any more
leaves the agent with nothing to do, and every model comes to that point when its
bounds are used up. That no goroutine waits for ever while there is work is what
the five liveness properties check.

### Fairness

- `WF` on `CronStep` and `HandlerStep` (`CronsCheckins`), on `Start`, `Connect`,
  `Again` and `Handle` (`EventWatcher`) and on `Step` (`DsnClients`): a goroutine
  that can run does so in the end. None of them waits for anything but a mutex
  that is held for a map operation, or a request with a timeout.
- `WF` on `Connect \/ Again` and on `HandlePodWatchEvent` (`PodWatcher`), for the
  same reason.
- `WF` on one action for all of `StartUp`: `main`, the start of the watchers, and
  the informers, each of which has only so much to do. It asks less than fairness
  for each of them would. An informer that cannot list tries again until it can;
  nothing is owed by a metadata server that does not answer.
- none for `EventPipeline` and `Enhancers`, which have no liveness property.
- `SF` on `JobChanged` and `JobDeleted`: the handler takes one notification at a
  time and another Job's update may keep it busy whenever it is about to be free.
  client-go puts the notifications of a listener in a queue in order, so a change
  is not overtaken for ever; strong fairness is what a queue gives.
- `WF` on `Tick`: time passes.
- None on the cluster, on crashes, on reconnections or on `Receive`.

`EndIsReported` is for as long as the agent keeps the monitor data a Job was
checked in under: after a restart or the deletion of the CronJob the ID is gone and
the check-in is never closed, which `CheckInLifecycle` permits. `EveryEventIsSent` is
for owner references without a cycle, as Kubernetes creates them; `searchDsn` does not
guard against one. `FailureIsReported` is for failures that a connection shows as news
(`IsNews`), and for as long as that connection lasts. `EveryNamespaceIsCached` is for settings under which the agent
can run, and all the namespaces that these ask for, and counts the end of the process by a nil informer as an end.

## The proofs

Every invariant and every safety property of the passing runs is a theorem here,
for all values of the constants that the named assumptions of the modules allow:
any cluster, any number of watchers, informers and goroutines, any bounds.
`PROJECT.json` lists the theorems with the property that each states. An invariant
is proved through a stronger one that is inductive, with a lemma for each action
(or group of actions) that disturbs it. TLC looks for counterexamples to the
property; what the strengthening adds is below.

### Crons check-ins (`CronsProofs`)

From `NamesAssumption`, `LifecycleAssumption`, `MarkersAssumption`, `NilAssumption`
and `BoundsAssumption`:

- `TypeCorrect`: `Spec => []TypeOK`.
- `EndHasItsStart`: `Spec => []EndHasStart`. `EndHasStart` is not inductive by
  itself: `CheckinJobEnding` takes its ID from `JobDatas`. `OriginInv` adds that an
  ID in `JobDatas` is the ID of a start for the same monitor data and Job name
  (`DataHasStart`), and, as it gets there two steps after the capture, that so is
  the one a handler is about to write (`HandlerHasStart`). A restart empties both.
- `CheckinsAreTrue`: `Spec => []CheckinInv`. `TruthInv` adds that IDs are used
  once (`IdsUsed`, `StartsUnique`) and that a verdict in hand or sent is the one the
  Job still has (`HandlerVerdict`, `EndVerdict`): a handler works on a status that
  may be old, and this is where `LifecycleAssumption` (the first condition never
  changes) comes in.
- `CronsRefinement`, under `UniqueJobNames`: `Spec => ImplementsLifecycle`. Every step
  opens a check-in, closes one that is open under the same slug and run without
  contradicting an earlier verdict, or is a stutter. Without unique names it is
  false, as `crons_cross_talk` shows.
- `MonitorsAreKept`, under `CronNamesApart` (no two informers see CronJobs of one
  name): `Spec => MonitorKept`. `PutInv` says that where a handler is about to put
  monitor data there is still none, though it has let go of the lock since it looked.
- `JobsStartOnce`, under `JobNamesApart`: `Spec => []OneStartPerMonitor`. The ID of
  a start is in `JobDatas`, or on its way there, or its monitor data is gone for
  good (`StartIsKnown`); the last needs that monitor data is numbered as it is
  allocated, in all runs of the agent (`RefInv`).
- `EndedJobsAreClosed`, under `UniqueJobNames`, `JobNamesApart` and
  `PlainConditions` (no Job is suspended): `Spec => []EndedJobIsClosed`. Of a finished
  Job that `JobDatas` has an entry of, the check-in is closed or its handler is about
  to do it (`ClosingInv`); and what stores and handlers know of a Job is never ahead
  of it, nor the store ahead of its handler (`StatusInv`).

The hypotheses of the last four are what the agent relies on without checking it:
`crons_one_informer` has an instance that meets them all, and `crons_cross_talk` and
`crons_suspended_job` are what happens without them.

### Event buffer and pipeline (`EventBufferProofs`)

For any size of the ring, any events and any number of watchers:

- `BufferCorrect`: `BufferSpec => []BufferInv`, where `FilledInOrder` says that the
  elements not yet set are those from the pointer on.
- `BufferRefinement`: `BufferSpec => ImplementsWindow`. While the ring fills, adding
  is appending; afterwards it replaces the oldest element and moves the pointer
  past it, which shifts every position of the window by one. `FilledInOrder` is
  what tells the two cases apart.
- `FilterIsCorrect`: `Spec => []FilterReadsWindow`. In a ring that is not full,
  `RingDo` begins with the elements that were never set. That the loop skips them is
  an induction over its length, for which the filter is written as the loop it is
  (`EventsAbout`); `LoopSelects` in `MCEvents` has TLC compare it with `SelectSeq`.
- `RingIsHistory`, `BreadcrumbsAreRecent`, `PipelineTypeCorrect` and
  `PipelineRefinement`, from `PipelineInv`: between its report and its deferred add a
  watcher holds its event (`HoldsItsEvent`), and each add appends to the history what
  it writes into the ring. The limit cuts twice, after the related events and after the
  creations; `LastOfTwice` says that the result is that of cutting once, at the end. The refinement maps a step of any watcher to an addition
  or a stutter.

### Event watcher (`EventWatcherProofs`)

For any events, any number of ticks to the second, and any connections:

- `OldEventsStayOut`, `DropsAreRecent`, `WatcherTypeCorrect`, from `WatcherInv`: the
  timestamp of a notification is the zero time exactly if its event has none, and else
  less than a second older than what happened (`Truthful`), for a clock that is past
  its first second (`ClockInv`); a running watcher has its cutoff, which is not before
  the start of the agent (`CutoffInv`).

### DSN clients (`DsnProofs`)

For any graph of owners, any goroutines (finitely many, for the count):

- `EventsReachTheirProject` and `DsnTypeCorrect`, from `ProjectInv`: what is found
  from where the search is, is what is found from its subject (`SearchInv`), and
  the client in a goroutine's layer is the right one or the default (`BoundInv`).
  What a search finds is defined by sets (`SearchPath`), so that this holds of
  owners in a cycle too.
- `ClientsAreBounded`: `ClientsPerDsn` is not inductive: a goroutine between its
  lookup and its creation must be counted in. `ClientsInv` says that the clients of
  a DSN and the goroutines about to add one are no more than all goroutines, and
  that there is no client before the map has one.

### Enhancers (`EnhancersProofs`)

For any graph of owners, with cycles or without (`EnhancersAssumption`):

- `SearchCorrect`: `Spec => []SearchIsComplete`, the loop invariant of `ownerRefDFS`:
  the roots found and those above what is still to be looked up are all there are.
  The lemmas it rests on say that what is reached from an object is the least set
  closed under owners (`ReachedIsClosed`, `ReachedIsLeast`), and therefore that the
  roots of an object are those of its owners (`RootsComeFromOwners`). That the
  search ends is another matter, and is not true of a cycle.
- `ReportsAreGroupedByRoot` and `FailuresAreGroupedByMessage`: on a single line of
  owners the search has one object in hand at any moment (`LineInv`), so it ends with
  one root; and the fingerprint is decided by the message until the end of the search
  (`MessageInv`), and by message and root after it. `EnhancersTypeCorrect` for the
  rest.

### Pod watcher (`PodWatcherProofs`)

For any containers of finitely many Pods, any runs, revisions and connections:

- `PodReportsAreFailures`: a container that failed did so on the record
  (`FailureInv`), before the deletion if its notification does not say otherwise.
- `PodReportsOncePerModification`: the modifications in the stream come in the order
  of their revisions, and after the ones that were reported (`RevisionInv`).
- `PodNothingLost`: what is shown as news and not reported is in a notification to come
  (`ShownInv`), which is a modification, as a Pod is created before any of its
  containers has failed (`AbsentInv`); so it will not be skipped.
- `PodsTypeCorrect`. `TypeOK` alone is not inductive: a lost connection leaves
  nothing behind (`StreamInv`).

A connection begins with the existing Pods in some order (`SetToSeq`): a finite set has
one, and the proofs use nothing else of it.

### Start-up and informers (`StartUpProofs`)

For any environments that `EnvironmentsAssumption` allows, any objects, calls and
watchers. `StartUpInv` has three parts: `main` has done what comes before its program
counter, and nothing else (`MainInv`); a look-up holds an object that was decoded,
and one that misses its object was overtaken by a deletion or a refused request
(`InformersInv`, with `Holds` and `Misses`); a watcher that runs has a hub cloned after
the last tag was set, and its reports are what they should be (`WatchInv`).

- `ReportsAreClean`: words of a field are cleared by anybody, at any time, and never
  written again; the enhancer that reports has cleared both itself.
- `OwnersAreFound`: a cache that has not the object is not believed, the API server
  is asked; whichever call's informer the variable holds.
- `LinksAreOfTheirPods`: the link is set in a layer, never in the hub.
- `HubsHaveAllTags`: `main` sets tags in loops, of which the last assignment counts;
  `FullTagsAreComplete` says that the result is the tags `TagOf` names.
- `WatchersAreConfigured`, `FiltersAreAsListed`, `StartUpTypeCorrect`.

### Induction

The provers cannot instantiate the library's induction theorems, which take a
predicate. `Induction` states what is needed with sets in its place: a set of numbers
has a least one, so a set that has 0 and, with each number below `n`, the next one has
all up to `n` (`CountUp`), and a finite set of indices has a largest (`LargestIndex`).
A loop of the code is a function of the number of its rounds (`EventsAbout`, `Without`,
`WithGlobalTags`), about which this is enough.

### What the proofs changed

- `NamespacesToWatch` and `TagOf` were `CASE` expressions with guards that overlap, of
  which TLC takes the first and TLA+ any. The code has an order (the first `return`, the
  last tag that was set), and they are nested conditions now.
- `FilterEventsFromBuffer`, `RemoveDuplicates` and the tags of the environment were
  operators of the standard modules or enumerations; they are loops, as in the code.
- `NilAssumption` and `BlankAssumption` name what was tacit: a handler at rest is not
  one at work, and an empty value is a value. `PodsAssumption` says that Pods are
  finitely many, `EnvironmentsAssumption` that there is a call of `startInformers` for
  each namespace.

### Only model-checked

`EndIsReported`, `EveryEventIsDecided`, `EveryEventIsSent`, `FailureIsReported` and
`EveryNamespaceIsCached`: liveness under fairness is out of the prover's reach. So are
the four findings, which are about particular instances.

## Not modelled

- The informers' caches in `DsnClients` and `Enhancers`: there a call of
  `findObject` is one step that finds the object or fails. `Informers` has the
  steps, and `ExistingIsFound` says that they amount to that.
- An owner of an owner in `StartUp`, where a search is one look-up; the search
  itself is in `Enhancers`.
- Clients of custom DSNs are made without `BeforeSend` and the emptied list of
  integrations; what these change in an event is data.
- Custom DSNs of check-ins together with the check-ins: the two are modelled
  apart (`CronsCheckins` and `DsnClients`), as they share no state but the hub.
- The tags, contexts, messages and levels of a report other than those named above, the
  texts and times of its breadcrumbs (which ones there are, and in which order, is),
  `beforeSend`, JSON, logging, the check of the static fingerprint patterns, and the
  SDK's transport.
- Init containers: the code does not look at their statuses.
- `JobDatas` grows for as long as the monitor data exists; nothing bounds it and
  nothing claims that it is bounded.

## Plan

Done, in this order: the Crons integration, its abstraction and proofs; the
buffer, its abstraction and proofs; the pipeline over it; the watcher in time;
the DSN clients; the enhancers and the proof of their search; the Pod watcher; the
informers and the cached objects; the start; the proofs of all safety properties.
Next:

1. A weaker guarantee for two informers of one name, in place of the hypotheses
   `CronNamesApart` and `JobNamesApart`: how many starts a Job may have under one
   monitor data, and proved.
2. What the liveness properties rest on, as theorems: that a finished Job with an
   open check-in has a handler or a notification left that will close it, and that
   a failure shown on a connection is ahead of the reader in its stream.
3. A composition of check-ins with DSN clients, for Jobs with a custom DSN.
