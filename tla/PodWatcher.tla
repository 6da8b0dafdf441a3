----------------------------- MODULE PodWatcher -----------------------------
(***************************************************************************)
(* Which container failures one namespace's Pod watcher reports            *)
(* (watcher_pods.go), from the container on its node to the report.        *)
(*                                                                         *)
(* The cluster is external: containers run, fail and are restarted on      *)
(* their node; the kubelet publishes their state in the Pod's status when  *)
(* it gets to it, so that a state may never be published; the API server   *)
(* sends every change of the Pod as a notification with the whole Pod.     *)
(* The RetryWatcher is external too: watchFunc ignores the resource        *)
(* version it passes, so that each connection begins with an Added         *)
(* notification for every Pod there is.  A restart of the agent is a       *)
(* channel that is closed: the watcher remembers nothing.                  *)
(***************************************************************************)
EXTENDS Integers, SequencesExt

CONSTANTS
    Pods,
    Containers,
    PodOf,     \* the Pod of a container
    MaxRuns,   \* bound: runs of a container
    MaxRevs,   \* bound: revisions of a Pod
    MaxConns   \* bound: connections opened

ASSUME PodsAssumption ==
    /\ PodOf \in [Containers -> Pods] /\ IsFiniteSet(Pods)
    /\ {MaxRuns, MaxRevs, MaxConns} \subseteq Nat \ {0}

VARIABLES
    life,       \* of each Pod; it is "deleting" from its DeletionTimestamp on
    rev,        \* the revision of each Pod, 0 before it is created
    container,  \* the run of each container, and its state on the node
    status,     \* the same as published in the Pod's status
    pc,         \* "sleeping", "watching" or "closed"
    stream,     \* notifications sent by the server, not yet handled
    conns,      \* connections opened so far
    failures,   \* history: runs that failed, and if it was after a deletion
    shown,      \* history: all failed runs sent on the open connection
    reports     \* the events captured

cluster == <<life, rev, container, status, failures>>
watcher == <<pc, conns, reports>>
vars    == <<cluster, watcher, stream, shown>>

(* A container waits or runs ("up"), or it has terminated. *)
States == {"up", "completed", "failed"}

ContainersOf(p) == {c \in Containers : PodOf[c] = p}

(* A notification carries the statuses of all containers of the Pod. *)
Notice(type, p, r, deleting, st) ==
    [type |-> type, pod |-> p, rev |-> r, deleting |-> deleting,
     statuses |-> [c \in ContainersOf(p) |-> st[c]]]

Existing == {Notice("Added", p, rev[p], life[p] = "deleting", status) :
               p \in {q \in Pods : life[q] \in {"present", "deleting"}}}

(* Terminated with an exit code other than 0. *)
Failed(n) == {c \in DOMAIN n.statuses : n.statuses[c].state = "failed"}

(* A failed run, as a notification on a connection tells of it. *)
Sight(n, c, conn) ==
    [container |-> c, run |-> n.statuses[c].run, rev |-> n.rev, conn |-> conn]

(* All that a notification shows, whatever the watcher makes of it; when   *)
(* it is one of those a connection begins with, it is no news.             *)
Told(n, conn, replayed) ==
    {[sight |-> Sight(n, c, conn), deleting |-> n.deleting,
      replayed |-> replayed] : c \in Failed(n)}

Init ==
    /\ life = [p \in Pods |-> "absent"]
    /\ rev = [p \in Pods |-> 0]
    /\ container = [c \in Containers |-> [run |-> 1, state |-> "up"]]
    /\ status = container
    /\ pc = "sleeping"
    /\ stream = << >>
    /\ conns = 0
    /\ failures = {} /\ shown = {} /\ reports = {}

----------------------------------------------------------------------------
(* The API server: a new revision of the Pod, sent on an open connection.  *)
Send(n) ==
    /\ stream' = IF pc = "watching" THEN Append(stream, n) ELSE stream
    /\ shown' = IF pc = "watching" THEN shown \cup Told(n, conns, FALSE) ELSE shown

CreatePod(p) ==
    /\ life[p] = "absent"
    /\ life' = [life EXCEPT ![p] = "present"]
    /\ rev' = [rev EXCEPT ![p] = 1]
    /\ Send(Notice("Added", p, 1, FALSE, status))
    /\ UNCHANGED <<container, status, failures, watcher>>

(* The kubelet publishes the states of the moment, or somebody changes     *)
(* something else in the Pod.                                              *)
ModifyPod(p, st) ==
    /\ life[p] \in {"present", "deleting"}
    /\ rev[p] < MaxRevs
    /\ rev' = [rev EXCEPT ![p] = @ + 1]
    /\ status' = st
    /\ Send(Notice("Modified", p, rev[p] + 1, life[p] = "deleting", st))
    /\ UNCHANGED <<life, container, failures, watcher>>

PublishStatus(p) ==
    ModifyPod(p, [c \in Containers |->
                    IF PodOf[c] = p THEN container[c] ELSE status[c]])

OtherChange(p) == ModifyPod(p, status)

(* The DeletionTimestamp is set, and the Pod is removed at a later time. *)
RequestDeletion(p) ==
    /\ life[p] = "present"
    /\ rev[p] < MaxRevs
    /\ life' = [life EXCEPT ![p] = "deleting"]
    /\ rev' = [rev EXCEPT ![p] = @ + 1]
    /\ Send(Notice("Modified", p, rev[p] + 1, TRUE, status))
    /\ UNCHANGED <<container, status, failures, watcher>>

RemovePod(p) ==
    /\ life[p] = "deleting"
    /\ life' = [life EXCEPT ![p] = "gone"]
    /\ Send(Notice("Deleted", p, rev[p], TRUE, status))
    /\ UNCHANGED <<rev, container, status, failures, watcher>>

(* The node.  It exits by itself, or is killed because its Pod is deleted. *)
Exits(c, state) ==
    /\ life[PodOf[c]] \in {"present", "deleting"}
    /\ container[c].state = "up"
    /\ container' = [container EXCEPT ![c].state = state]
    /\ failures' = IF state = "failed"
                   THEN failures \cup {[container |-> c, run |-> container[c].run,
                                        deleting |-> life[PodOf[c]] = "deleting"]}
                   ELSE failures
    /\ UNCHANGED <<life, rev, status, watcher, stream, shown>>

Restarts(c) ==
    /\ life[PodOf[c]] = "present"
    /\ container[c].state # "up"
    /\ container[c].run < MaxRuns
    /\ container' = [container EXCEPT ![c] = [run |-> @.run + 1, state |-> "up"]]
    /\ UNCHANGED <<life, rev, status, failures, watcher, stream, shown>>

----------------------------------------------------------------------------
(* The watcher. *)
OpenConnection ==
    /\ conns' = conns + 1
    /\ stream' = SetToSeq(Existing)
    /\ shown' = UNION {Told(n, conns + 1, TRUE) : n \in Existing}

(* watchPodsInNamespace, called when the sleep is over. *)
Connect ==
    /\ pc = "sleeping"
    /\ conns < MaxConns
    /\ OpenConnection
    /\ pc' = "watching"
    /\ UNCHANGED <<cluster, reports>>

(* Mutant: one connection too many. *)
ReconnectOnceMore ==
    /\ pc = "watching"
    /\ conns <= MaxConns
    /\ OpenConnection
    /\ UNCHANGED <<cluster, pc, reports>>

(* The RetryWatcher loses its connection and opens another one. *)
Reconnect ==
    /\ pc = "watching"
    /\ conns < MaxConns
    /\ OpenConnection
    /\ UNCHANGED <<cluster, pc, reports>>

(* It gives up and closes the channel, or the agent ends. *)
CloseChannel ==
    /\ pc = "watching"
    /\ conns < MaxConns
    /\ pc' = "closed"
    /\ stream' = << >> /\ shown' = {}
    /\ UNCHANGED <<cluster, conns, reports>>

(* watchPodsInNamespaceForever: "some events might be lost when we're      *)
(* sleeping here".                                                         *)
Again ==
    /\ pc = "closed"
    /\ pc' = "sleeping"
    /\ UNCHANGED <<cluster, conns, reports, stream, shown>>

(* Mutant: the type of the notification does not matter. *)
SkippedByDeletionOnly(n) == n.deleting

(* Mutant: Pods that are being deleted are not skipped. *)
SkippedByType(n) == n.type # "Modified"

(* What handlePodWatchEvent returns on before it looks at the containers. *)
Skipped(n) == n.type # "Modified" \/ n.deleting

(* Mutant: the loop stops at a container that did not terminate. *)
ReportedUntilRunning(n) ==
    IF \E c \in DOMAIN n.statuses : n.statuses[c].state = "up"
    THEN {} ELSE Failed(n)

(* The loop over the statuses: a container that has not terminated is      *)
(* passed over, and handlePodTerminationEvent has nothing to say of one    *)
(* that exited with 0.                                                     *)
Reported(n) == IF Skipped(n) THEN {} ELSE Failed(n)

(* Mutant: a notification that has nothing to report is not consumed. *)
HandleReportable ==
    /\ pc = "watching"
    /\ stream # << >> /\ Reported(Head(stream)) # {}
    /\ reports' = reports \cup
         {Sight(Head(stream), c, conns) : c \in Reported(Head(stream))}
    /\ stream' = Tail(stream)
    /\ UNCHANGED <<cluster, pc, conns, shown>>

HandlePodWatchEvent ==
    /\ pc = "watching"
    /\ stream # << >>
    /\ reports' = reports \cup
         {Sight(Head(stream), c, conns) : c \in Reported(Head(stream))}
    /\ stream' = Tail(stream)
    /\ UNCHANGED <<cluster, pc, conns, shown>>

Next ==
    \/ \E p \in Pods : \/ CreatePod(p) \/ PublishStatus(p) \/ OtherChange(p)
                       \/ RequestDeletion(p) \/ RemovePod(p)
    \/ \E c \in Containers :
          \/ Restarts(c)
          \/ \E s \in {"completed", "failed"} : Exits(c, s)
    \/ Connect \/ Reconnect \/ CloseChannel \/ Again
    \/ HandlePodWatchEvent

Spec == Init /\ [][Next]_vars

(* The watcher goroutine runs on; nothing is owed by the cluster or the    *)
(* network.                                                                *)
FairSpec == Spec /\ WF_vars(Connect \/ Again) /\ WF_vars(HandlePodWatchEvent)

----------------------------------------------------------------------------
RunState == [run : 1..MaxRuns, state : States]
Sights == [container : Containers, run : 1..MaxRuns, rev : 1..MaxRevs,
           conn : 1..MaxConns]

IsNotice(n) ==
    /\ n.type \in {"Added", "Modified", "Deleted"}
    /\ n.pod \in Pods
    /\ n.rev \in 1..MaxRevs
    /\ n.deleting \in BOOLEAN
    /\ n.statuses \in [ContainersOf(n.pod) -> RunState]

TypeOK ==
    /\ life \in [Pods -> {"absent", "present", "deleting", "gone"}]
    /\ rev \in [Pods -> 0..MaxRevs]
    /\ container \in [Containers -> RunState]
    /\ status \in [Containers -> RunState]
    /\ pc \in {"sleeping", "watching", "closed"}
    /\ \A k \in 1..Len(stream) : IsNotice(stream[k])
    /\ conns \in 0..MaxConns
    /\ failures \subseteq [container : Containers, run : 1..MaxRuns,
                           deleting : BOOLEAN]
    /\ shown \subseteq [sight : Sights, deleting : BOOLEAN, replayed : BOOLEAN]
    /\ reports \subseteq Sights

(* "Pod is about to be deleted; ignoring state modifications": a report is *)
(* of a run that failed, and that failed before the deletion of its Pod    *)
(* was requested, however late the kubelet publishes, the server sends and *)
(* the watcher handles it.                                                 *)
ReportsAreFailures ==
    \A r \in reports :
        [container |-> r.container, run |-> r.run, deleting |-> FALSE] \in failures

(* A failure is reported again by every later modification of its Pod, but *)
(* once by each: a connection that replays the Pods reports none of them   *)
(* again.                                                                  *)
OncePerModification ==
    \A r, s \in reports :
        r.container = s.container /\ r.rev = s.rev => r = s

(* The server tells of a failure that is new to the connection, and of a   *)
(* Pod that nobody has asked to delete.                                    *)
IsNews(x) == ~x.replayed /\ ~x.deleting

(* Of all failed runs the server shows on a connection, while it lasts,    *)
(* two kinds alone are lost: those it shows when the connection begins,    *)
(* because the containers had failed before the agent started or while it  *)
(* was not connected, and those it shows of a Pod that is being deleted,   *)
(* even if they failed before that.  Every other one, of any container of  *)
(* the Pod, is reported or still in the stream.  One that was lost at the  *)
(* beginning is news when the next modification of its Pod shows it again. *)
NothingLostWhileConnected ==
    \A x \in shown :
        IsNews(x) => \/ x.sight \in reports
                     \/ \E k \in 1..Len(stream) :
                           /\ x.sight.container \in Failed(stream[k])
                           /\ x.sight = Sight(stream[k], x.sight.container, conns)

(* A failed run that the server shows to the watcher as news is reported   *)
(* in the end, unless the connection breaks before the watcher gets to it. *)
FailureIsReported ==
    \A c \in Containers, r \in 1..MaxRuns :
        LET Shown == \E x \in shown :
                        IsNews(x) /\ x.sight.container = c /\ x.sight.run = r
        IN  Shown ~> \/ \E x \in reports : x.container = c /\ x.run = r
                     \/ ~Shown
=============================================================================
