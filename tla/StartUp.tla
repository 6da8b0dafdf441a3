------------------------------ MODULE StartUp ------------------------------
(***************************************************************************)
(* How the agent starts (main.go and what it calls), up to the goroutines  *)
(* of every namespace, the informers they start, and what main has read    *)
(* that goes into each report.                                             *)
(*                                                                         *)
(* The environment - variables, files, the metadata server - is chosen     *)
(* once and does not change.  The value of a variable is a word that may   *)
(* have spaces around it and letters in upper case; a list is a sequence   *)
(* of values, the parts between its commas.  The owner of a Pod stands for *)
(* the root that Enhancers searches for.                                   *)
(***************************************************************************)
EXTENDS Informers, SequencesExt, FiniteSetsExt

CONSTANTS
    Environments,  \* the environments to start in
    ValidLabels,   \* words that IsValidLabelValue accepts
    OwnerOf,       \* the owner of each Pod, which is in the same namespace
    MaxWork        \* bound: reports, changes and namespaces, together

Pods == DOMAIN OwnerOf
Watchers == {"events", "pods"} \X Calls

ASSUME StartUpAssumption ==
    /\ Readers = Watchers
    /\ OwnerOf \in [Pods -> Objects] /\ Unset \notin Pods
    /\ MaxWork \in Nat
    /\ "__all__" \notin ValidLabels

VARIABLES
    env,         \* the environment
    pc,          \* what main does next
    config,      \* the cluster configuration it uses
    filters,     \* reasonFilterSet and eventSourceFilterSet
    scope,       \* the scope of the main hub
    gke,         \* instanceIntegrationGKE
    namespaces,  \* to watch
    hub,         \* the scope of each watcher's hub, cloned when it starts
    pod,         \* the Pod each watcher is building a report of
    reports,     \* the reports sent
    begun        \* reports begun

mainVars  == <<config, filters, scope, gke, namespaces>>
watchVars == <<hub, pod, reports, begun>>
vars      == <<env, pc, mainVars, watchVars, infVars>>

----------------------------------------------------------------------------
(* Values. *)
Values == [word : STRING, upper : BOOLEAN, spaces : BOOLEAN]

Plain(word)  == [word |-> word, upper |-> FALSE, spaces |-> FALSE]
Blank        == Plain("")
(* The empty word is a STRING, of which the provers know no member. *)
ASSUME BlankAssumption == Blank \in Values

TrimSpace(v) == IF v.word = "" THEN Blank ELSE [v EXCEPT !.spaces = FALSE]
ToLower(v)   == [word |-> v.word, upper |-> FALSE, spaces |-> v.spaces]

(* A list whose variable is not set, or holds nothing but spaces. *)
HasNothing(list) == Len(list) = 1 /\ list[1].word = ""

(* A loop over slice that appends what is not in the set left out.         *)
Without(slice, out) ==
    LET res[n \in 0..Len(slice)] ==
            IF n = 0 THEN << >>
            ELSE IF slice[n] \notin out THEN Append(res[n - 1], slice[n])
                 ELSE res[n - 1]
    IN  res[Len(slice)]

Trimmed(list) == Without([n \in 1..Len(list) |-> TrimSpace(list[n])], {Blank})

IsTruthy(v) == ToLower(TrimSpace(v)) \in {Plain("yes"), Plain("true"), Plain("1")}

----------------------------------------------------------------------------
(* filters.go *)
DefaultFilterReasons ==
    {"dockerstart", "kubeletstart", "nodesysctlchange", "containerdstart"}

(* Mutant: the list is taken as it is written. *)
FilterSetAsWritten(list, default) ==
    IF HasNothing(list) THEN {Plain(w) : w \in default}
    ELSE ToSet(Trimmed(list))

FilterSet(list, default) ==
    IF HasNothing(list) THEN {Plain(w) : w \in default}
    ELSE {ToLower(v) : v \in ToSet(Trimmed(list))}

(* isFilteredByReason, isFilteredByEventSource *)
IsFiltered(set, v) == v.word # "" /\ ToLower(TrimSpace(v)) \in set

(* cluster_config.go *)
OutOfCluster(e) ==
    IF (e.kubeconfigPath \/ e.home) /\ e.kubeconfigValid THEN "out" ELSE "error"

ClusterConfig(e) ==
    LET type == ToLower(TrimSpace(e.configType)).word
    IN  CASE type \in {"", "auto"} -> IF e.inCluster THEN "in" ELSE OutOfCluster(e)
          [] type = "in-cluster"   -> IF e.inCluster THEN "in" ELSE "error"
          [] type = "out-cluster"  -> OutOfCluster(e)
          [] OTHER                 -> "error"

(* scope.SetTag *)
SetTag(tags, key, value) ==
    [k \in DOMAIN tags \cup {key} |-> IF k = key THEN value ELSE tags[k]]

(* Mutant: tags without a value are set. *)
WithAnyTag(tags, key, value) == IF key # "" THEN SetTag(tags, key, value) ELSE tags

(* setTagIfNotEmpty *)
WithTag(tags, key, value) ==
    IF key # "" /\ value # Blank THEN SetTag(tags, key, value) ELSE tags

(* removeDuplicates: nothing is ever put into the set of what was seen. *)
RemoveDuplicates(slice) == LET seen == {} IN Without(slice, seen)

(* Mutant: a name that is not valid is left out. *)
ValidNamespaces(list) ==
    IF HasNothing(list) THEN <<Plain("default")>>
    ELSE IF Len(list) = 1 /\ TrimSpace(list[1]) = Plain("__all__")
    THEN <<AllNamespaces>>
    ELSE SelectSeq(Trimmed(list), LAMBDA v : v.word \in ValidLabels)

(* getNamespacesToWatch, and what main makes of "__all__"; an empty        *)
(* sequence is an error.                                                   *)
NamespacesToWatch(list) ==
    IF HasNothing(list) THEN <<Plain("default")>>
    ELSE IF Len(list) = 1 /\ TrimSpace(list[1]) = Plain("__all__")
    THEN <<AllNamespaces>>
    ELSE IF \E v \in ToSet(Trimmed(list)) : v.word \notin ValidLabels
    THEN << >>
    ELSE RemoveDuplicates(Trimmed(list))

(* What environments are made of; strings.Split returns no empty slice.    *)
(* There is a call of startInformers for every namespace to watch.         *)
ASSUME EnvironmentsAssumption ==
    \A e \in Environments :
        /\ {e.namespaces, e.reasons, e.sources} \subseteq Seq(Values) \ {<< >>}
        /\ e.tags \in Seq([key : STRING, value : Values])
        /\ {e.configType, e.hostname, e.gke} \subseteq Values
        /\ e.instance.status = "ok" =>
             {e.instance[x] : x \in {"cluster-name", "clusterName", "cluster-location",
                                     "clusterLocation"}} \subseteq Values
        /\ e.project.status = "ok" =>
             {e.project[x] : x \in {"project-id", "projectId"}} \subseteq Values
        /\ DOMAIN NamespacesToWatch(e.namespaces) \subseteq Calls

----------------------------------------------------------------------------
NotInitialized == [name |-> Blank, location |-> Blank, project |-> Blank,
                   initialized |-> FALSE]

NoScope == [kubernetes |-> "none", tags |-> << >>, gke |-> NotInitialized,
            link |-> Unset]

Init ==
    /\ env \in Environments
    /\ pc = "sdk"
    /\ config = "none"
    /\ filters = [reasons |-> {}, sources |-> {}]
    /\ scope = NoScope
    /\ gke = NotInitialized
    /\ namespaces = << >>
    /\ hub = [w \in Watchers |-> Unset]
    /\ pod = [w \in Watchers |-> Unset]
    /\ reports = {}
    /\ begun = 0
    /\ InitInformers

(* main.  log.Fatal ends the process.                                      *)
Main(at, next) ==
    /\ pc = at
    /\ pc' = next
    /\ UNCHANGED <<env, watchVars, infVars>>

InitSentrySDK ==
    /\ Main("sdk", IF env.dsn = "invalid" THEN "exited" ELSE "filters")
    /\ UNCHANGED <<config, filters, scope, gke, namespaces>>

PrepareEventFilters ==
    /\ Main("filters", "config")
    /\ filters' = [reasons |-> FilterSet(env.reasons, DefaultFilterReasons),
                   sources |-> FilterSet(env.sources, {})]
    /\ UNCHANGED <<config, scope, gke, namespaces>>

GetClusterConfig ==
    /\ Main("config", IF ClusterConfig(env) = "error" THEN "exited" ELSE "context")
    /\ config' = ClusterConfig(env)
    /\ UNCHANGED <<filters, scope, gke, namespaces>>

(* The version is left out if the request for it fails. *)
SetKubernetesSentryContext ==
    /\ Main("context", "tags")
    /\ scope' = [scope EXCEPT !.kubernetes =
                   IF env.clients /\ env.version THEN "version" ELSE "endpoint"]
    /\ UNCHANGED <<config, filters, gke, namespaces>>

(* First the host name, then the variables of the environment, in turn. *)
WithGlobalTags(tags, e) ==
    LET after[n \in 0..Len(e.tags)] ==
            IF n = 0 THEN WithTag(tags, "agent_hostname", e.hostname)
            ELSE WithTag(after[n - 1], e.tags[n].key, TrimSpace(e.tags[n].value))
    IN  after[Len(e.tags)]

SetGlobalSentryTags ==
    /\ Main("tags", "integrations")
    /\ scope' = [scope EXCEPT !.tags = WithGlobalTags(@, env)]
    /\ UNCHANGED <<config, filters, gke, namespaces>>

(* runIntegrations, with GKE the only one.  A request to the metadata      *)
(* server has no timeout: it is answered, or fails, or never returns.      *)
RunIntegrations ==
    /\ Main("integrations", IF IsTruthy(env.gke) THEN "instance" ELSE "namespaces")
    /\ UNCHANGED <<config, filters, scope, gke, namespaces>>

(* Either spelling of a field will do, and the one with hyphens comes first. *)
Field(fields, hyphens, camel) ==
    IF fields[hyphens] # Blank THEN fields[hyphens] ELSE fields[camel]

ReadMetadata(at, reply, next) ==
    /\ reply.status # "silent"
    /\ Main(at, IF reply.status = "ok" THEN next ELSE "exited")

ReadInstanceMetadata ==
    /\ ReadMetadata("instance", env.instance, "project")
    /\ gke' = IF env.instance.status # "ok" THEN gke ELSE
         [gke EXCEPT !.name = Field(env.instance, "cluster-name", "clusterName"),
                     !.location = Field(env.instance, "cluster-location",
                                                      "clusterLocation")]
    /\ UNCHANGED <<config, filters, scope, namespaces>>

ReadProjectMetadata ==
    /\ ReadMetadata("project", env.project, "setScope")
    /\ gke' = IF env.project.status # "ok" THEN gke ELSE
         [gke EXCEPT !.project = Field(env.project, "project-id", "projectId"),
                     !.initialized = TRUE]
    /\ UNCHANGED <<config, filters, scope, namespaces>>

(* Mutant: a global tag is not overridden. *)
SetMissingTags ==
    /\ Main("setScope", "namespaces")
    /\ scope' = [scope EXCEPT
         !.gke = gke,
         !.tags = @ @@ WithTag(WithTag(WithTag(<< >>, "gke_cluster_name", gke.name),
                                       "gke_cluster_location", gke.location),
                               "gke_project_name", gke.project)]
    /\ UNCHANGED <<config, filters, gke, namespaces>>

(* The context that GetContext makes, without the link; the tags of GetTags *)
(* override the global tags of the same name.                               *)
SetIntegrationScope ==
    /\ Main("setScope", "namespaces")
    /\ scope' = [scope EXCEPT
         !.gke = gke,
         !.tags = WithTag(WithTag(WithTag(@, "gke_cluster_name", gke.name),
                                  "gke_cluster_location", gke.location),
                          "gke_project_name", gke.project)]
    /\ UNCHANGED <<config, filters, gke, namespaces>>

GetNamespacesToWatch ==
    /\ Main("namespaces",
            IF NamespacesToWatch(env.namespaces) = << >> THEN "exited" ELSE "events")
    /\ namespaces' = NamespacesToWatch(env.namespaces)
    /\ UNCHANGED <<config, filters, scope, gke>>

(* startEventWatchers, then startPodWatchers: a go statement per namespace. *)
StartWatchers ==
    /\ Main("events", "pods") \/ Main("pods", "running")
    /\ UNCHANGED mainVars

MainStep ==
    \/ InitSentrySDK \/ PrepareEventFilters \/ GetClusterConfig
    \/ SetKubernetesSentryContext \/ SetGlobalSentryTags
    \/ RunIntegrations \/ ReadInstanceMetadata \/ ReadProjectMetadata
    \/ SetIntegrationScope \/ GetNamespacesToWatch \/ StartWatchers

----------------------------------------------------------------------------
(* The watchers. *)
Launched(w) ==
    /\ w[2] \in DOMAIN namespaces
    /\ pc \in IF w[1] = "events" THEN {"pods", "running"} ELSE {"running"}

(* The first lines of watchEventsInNamespaceForever and its like for Pods: *)
(* the hub is cloned as it is when the goroutine gets to run.              *)
CloneHub(w) ==
    /\ Launched(w) /\ hub[w] = Unset
    /\ hub' = [hub EXCEPT ![w] = scope]
    /\ UNCHANGED <<env, pc, mainVars, pod, reports, begun>>

StartEventWatcher(w) == w[1] = "events" /\ CloneHub(w) /\ UNCHANGED infVars

(* Without a clientset the goroutine returns, and nobody reads its error.  *)
StartPodWatcher(w) ==
    /\ w[1] = "pods"
    /\ CloneHub(w)
    /\ IF env.clients THEN CallStartInformers(w[2], namespaces[w[2]])
       ELSE UNCHANGED infVars

Watching(w) == hub[w] # Unset /\ env.clients /\ pc # "exited"

WorkLeft == begun + changes + Len(env.namespaces) < MaxWork

(* A notification about a Pod, whose owner findObject has to find. *)
BeginReport(w, p) ==
    /\ Watching(w)
    /\ WorkLeft
    /\ namespaces[w[2]] \in {AllNamespaces, OwnerOf[p].namespace}
    /\ FindObject(w, OwnerOf[p])
    /\ pod' = [pod EXCEPT ![w] = p]
    /\ begun' = begun + 1
    /\ UNCHANGED <<env, pc, mainVars, hub, reports>>

NilInformer(w, p) ==
    /\ Watching(w) /\ look[w].pc = "idle"
    /\ namespaces[w[2]] \in {AllNamespaces, OwnerOf[p].namespace}
    /\ HalfAssigned(OwnerOf[p].kind)
    /\ pc' = "exited"
    /\ UNCHANGED <<env, mainVars, watchVars, infVars>>

Look(w) ==
    /\ pc # "exited"
    /\ LookStep(w)
    /\ UNCHANGED <<env, pc, mainVars, watchVars>>

(* addPodLogLinkToGKEContext, in the layer of the report. *)
WithPodLogLink(s, p) ==
    IF IsTruthy(env.gke) /\ gke.initialized
       /\ Blank \notin {gke.name, gke.location, gke.project}
    THEN [s EXCEPT !.link = p] ELSE s

(* Mutant: the link is set on the hub of the watcher, not in a layer. *)
ReportOnHub(w) ==
    /\ pc # "exited"
    /\ LookedUp(w)
    /\ LET s == IF look[w].pc = "found" THEN WithPodLogLink(hub[w], pod[w])
                ELSE hub[w]
       IN  /\ hub' = [hub EXCEPT ![w] = s]
           /\ reports' = reports \cup
                {[pod |-> pod[w], found |-> look[w].pc = "found",
                  missed |-> look[w].missed, link |-> s.link, managed |-> Cleared]}
    /\ look' = [look EXCEPT ![w] = NotLooking]
    /\ pod' = [pod EXCEPT ![w] = Unset]
    /\ UNCHANGED <<env, pc, mainVars, begun>>
    /\ UNCHANGED <<calls, clientGo, managed, cluster>>

(* objectEnhancer gives up before the enhancer of the Pod if its search    *)
(* failed; else that one is called, and then the one of the owner.         *)
Report(w) ==
    /\ pc # "exited"
    /\ LookedUp(w)
    /\ reports' = reports \cup
         {IF look[w].pc = "found"
          THEN [pod |-> pod[w], found |-> TRUE, missed |-> look[w].missed,
                link |-> WithPodLogLink(hub[w], pod[w]).link,
                managed |-> managed[look[w].ref]]
          ELSE [pod |-> pod[w], found |-> FALSE, missed |-> look[w].missed,
                link |-> hub[w].link, managed |-> Cleared]}
    /\ look' = [look EXCEPT ![w] = NotLooking]
    /\ pod' = [pod EXCEPT ![w] = Unset]
    /\ UNCHANGED <<env, pc, mainVars, hub, begun>>
    /\ UNCHANGED <<calls, clientGo, managed, cluster>>

WatcherStep(w) ==
    \/ StartEventWatcher(w) \/ StartPodWatcher(w) \/ Look(w) \/ Report(w)
    \/ \E p \in Pods : BeginReport(w, p) \/ NilInformer(w, p)

InformerStep(c) ==
    /\ pc # "exited"
    /\ CallStep(c) \/ FollowObjects(c)
    /\ UNCHANGED <<env, pc, mainVars, watchVars>>

Cluster ==
    /\ WorkLeft
    /\ \E o \in Objects, v \in {0, changes + 2} : ChangeObject(o, v)
    /\ UNCHANGED <<env, pc, mainVars, watchVars>>

Next == \/ MainStep
        \/ \E w \in Watchers : WatcherStep(w)
        \/ \E c \in Calls : InformerStep(c)
        \/ Cluster

Spec == Init /\ [][Next]_vars

(* What the agent and client-go do of themselves goes on, an informer that *)
(* cannot list included: it tries again until it can.                      *)
FairSpec ==
    /\ Spec
    /\ WF_vars(\/ MainStep
               \/ \E w \in Watchers : StartEventWatcher(w) \/ StartPodWatcher(w)
               \/ \E c \in Calls : InformerStep(c))

----------------------------------------------------------------------------
Fields == [ptr : {"entries", "none"}, len : {"some", "zero"}]

IsScope(s) ==
    /\ DOMAIN s = DOMAIN NoScope
    /\ s.kubernetes \in {"none", "endpoint", "version"}
    /\ \A k \in DOMAIN s.tags : s.tags[k] \in Values \ {Blank}
    /\ s.link \in Pods \cup {Unset}

TypeOK ==
    /\ env \in Environments
    /\ pc \in {"sdk", "filters", "config", "context", "tags", "integrations",
               "instance", "project", "setScope", "namespaces", "events",
               "pods", "running", "exited"}
    /\ config \in {"none", "in", "out", "error"}
    /\ IsScope(scope)
    /\ {gke.name, gke.location, gke.project} \subseteq Values
    /\ DOMAIN namespaces \subseteq Calls
    /\ \A w \in Watchers : hub[w] = Unset \/ IsScope(hub[w])
    /\ pod \in [Watchers -> Pods \cup {Unset}]
    /\ \A r \in reports : r.pod \in Pods /\ r.managed \in Fields
    /\ begun \in 0..MaxWork
    /\ \A c \in Calls : step[c] \in
         {<<"none", 0>>, <<"start", 0>>, <<"block", 0>>}
           \cup ({"create", "await"} \X (1..KindCount))
    /\ bound \in [Calls -> Calls \cup {Unset}]
    /\ global \in [Kinds -> Calls \cup {Unset}]
    /\ synced \subseteq Calls
    /\ \A c \in Calls, o \in Objects :
         IsCached(c, o) => cache[c][o].ref \in 1..Len(managed)
    /\ \A n \in 1..Len(managed) : managed[n] \in Fields
    /\ version \in [Objects -> 0..(MaxWork + 1)]
    /\ \A w \in Watchers :
         /\ look[w].pc \in {"idle", "get", "request", "found", "notFound"}
         /\ look[w].pc = "idle" <=> pod[w] = Unset
         /\ look[w].pc = "found" <=> look[w].ref # Unset
         /\ look[w].todo \subseteq Words

(* What the environment says, read as the README does: spaces and the case *)
(* of a setting do not matter.                                             *)
Word(v) == v.word

HasClusterConfig(e) ==
    \/ Word(e.configType) \in {"", "auto", "in-cluster"} /\ e.inCluster
    \/ /\ Word(e.configType) \in {"", "auto", "out-cluster"}
       /\ e.kubeconfigValid /\ (e.kubeconfigPath \/ e.home)

UsesGKE(e) == Word(e.gke) \in {"yes", "true", "1"}

Named(e) == {Word(e.namespaces[n]) : n \in DOMAIN e.namespaces} \ {""}

CanRun(e) ==
    /\ e.dsn # "invalid"
    /\ HasClusterConfig(e)
    /\ UsesGKE(e) => e.instance.status = "ok" /\ e.project.status = "ok"
    /\ \/ Named(e) # {} /\ Named(e) \subseteq ValidLabels
       \/ Named(e) = {"__all__"} \/ Named(e) = {}
    /\ Len(e.namespaces) > 1 => Named(e) \notin {{}, {"__all__"}}

(* The namespaces that the environment asks for. *)
NamespacesOf(e) ==
    CASE Named(e) = {}          -> {Plain("default")}
      [] Named(e) = {"__all__"} -> {AllNamespaces}
      [] OTHER -> {[v EXCEPT !.spaces = FALSE] :
                     v \in {x \in ToSet(e.namespaces) : Word(x) # ""}}

(* An agent that watches anything was configured for it: with a DSN that   *)
(* is valid or none, a cluster configuration of the type asked for, every  *)
(* integration asked for, and the namespaces asked for, all of them and no *)
(* others.  Else it ends before its first goroutine.                       *)
WatchesAsConfigured ==
    \A w \in Watchers : hub[w] # Unset =>
        /\ CanRun(env)
        /\ w[2] \in DOMAIN namespaces
        /\ ToSet(namespaces) = NamespacesOf(env)

(* The value that a tag has in the end: of the metadata of GKE, else of    *)
(* the last SENTRY_K8S_GLOBAL_TAG_ of that name that is not blank, else of *)
(* the host name.                                                          *)
GKETags(e) ==
    LET First(reply, a, b) == IF reply[a] # Blank THEN reply[a] ELSE reply[b]
    IN  IF ~UsesGKE(e) THEN << >>
        ELSE [gke_cluster_name     |-> First(e.instance, "cluster-name", "clusterName"),
              gke_cluster_location |-> First(e.instance, "cluster-location",
                                                         "clusterLocation"),
              gke_project_name     |-> First(e.project, "project-id", "projectId")]

TagOf(e, k) ==
    LET set == {n \in DOMAIN e.tags : e.tags[n].key = k /\ Word(e.tags[n].value) # ""}
    IN  IF k \in DOMAIN GKETags(e) /\ GKETags(e)[k] # Blank THEN GKETags(e)[k]
        ELSE IF set # {} THEN [e.tags[Max(set)].value EXCEPT !.spaces = FALSE]
        ELSE IF k = "agent_hostname" THEN e.hostname
        ELSE Blank

(* Every watcher clones the hub after main has set all of it, whenever its *)
(* goroutine gets to run: no report lacks a tag or has an overridden one.  *)
HubsAreComplete ==
    LET keys == {env.tags[n].key : n \in DOMAIN env.tags}
                  \cup {"agent_hostname"} \cup DOMAIN GKETags(env)
        tags == [k \in {k \in keys \ {""} : TagOf(env, k) # Blank} |-> TagOf(env, k)]
    IN  \A w \in Watchers : hub[w] # Unset =>
            /\ hub[w].kubernetes # "none"
            /\ hub[w].tags = tags
            /\ hub[w].gke.initialized = UsesGKE(env)

(* README: "If the event's Reason is in that list, the event will be       *)
(* dropped", and so for its source.  Once main has read the lists,         *)
(* an event is dropped if a word of the list is its reason or source but   *)
(* for case and spaces, and only then.                                     *)
FiltersIgnoreCase ==
    pc = "config" =>
        \A r \in [word : {"", "a", "b", "dockerstart"},
                  upper : BOOLEAN, spaces : BOOLEAN] :
            /\ IsFiltered(filters.reasons, r) <=>
                 /\ Word(r) # ""
                 /\ IF HasNothing(env.reasons) THEN Word(r) \in DefaultFilterReasons
                    ELSE Word(r) \in {Word(v) : v \in ToSet(env.reasons)}
            /\ IsFiltered(filters.sources, r) <=>
                 Word(r) \in {Word(v) : v \in ToSet(env.sources)} \ {""}

(* Whichever namespace's informer a look-up meets in the variable, synced  *)
(* or not: an owner that is in the cluster all the while is found, unless  *)
(* a request is refused.                                                   *)
ExistingIsFound == \A r \in reports : r.found \/ r.missed

(* No report shows the ManagedFields of an owner, or half of them, though  *)
(* other goroutines write to the same cached object without a lock.        *)
MetadataIsClean == \A r \in reports : r.managed = Cleared

(* The link to the logs is in the reports of its own Pod and no others.    *)
LinkIsOfItsPod ==
    \A r \in reports :
        /\ r.link \in {r.pod, Unset}
        /\ r.link # Unset =>
             r.found /\ Blank \notin {gke.name, gke.location, gke.project}

(* All calls wait for informers of a variable that other calls assign, and *)
(* none waits for ever: every namespace that the environment asks for is   *)
(* watched in the end, by both kinds of watchers, and its informers have   *)
(* listed it.  It takes settings that are valid, a metadata server that    *)
(* answers, and no nil informer on the way.                                *)
EveryNamespaceIsCached ==
    CanRun(env) /\ env.clients =>
        <>(\/ pc = "exited"
           \/ \A ns \in NamespacesOf(env) : \E n \in DOMAIN namespaces :
                 /\ namespaces[n] = ns
                 /\ Unset \notin {hub[<<"events", n>>], hub[<<"pods", n>>]}
                 /\ step[n] = <<"block", 0>> /\ n \in synced)
=============================================================================
