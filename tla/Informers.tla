----------------------------- MODULE Informers -----------------------------
(***************************************************************************)
(* The shared informers and who reads their caches: startInformers         *)
(* (informers.go, informer_*.go), findObject (sentry_dsn_data.go) and the  *)
(* kind enhancers, which change the object they were given.                *)
(*                                                                         *)
(* Every namespace to watch has a call of startInformers in a goroutine of *)
(* its own, with a factory of its own; all calls assign the same four      *)
(* package variables.  client-go is external: a started informer lists the *)
(* objects of its namespace in the end, then follows them, late; it keeps  *)
(* a pointer to each, and hands that pointer to whoever asks.              *)
(***************************************************************************)
EXTENDS Integers, Sequences

CONSTANTS
    Calls,          \* of startInformers
    Readers,        \* goroutines that call findObject
    Namespaces,
    AllNamespaces,  \* v1.NamespaceAll
    Kinds,          \* of objects, or those of interest
    Objects,        \* records with a kind, a namespace and a name
    Unset           \* a nil pointer or interface

Only(k) == IF k \in Kinds THEN <<k>> ELSE << >>

(* The order in which startInformers creates the informers, and the order  *)
(* in which it waits for their caches.                                     *)
Created == Only("Job") \o Only("CronJob") \o Only("ReplicaSet") \o Only("Deployment")
Awaited == Only("CronJob") \o Only("Job") \o Only("ReplicaSet") \o Only("Deployment")
KindCount == Len(Created)

ASSUME InformersAssumption ==
    /\ Kinds \subseteq {"Job", "CronJob", "ReplicaSet", "Deployment"}
    /\ Kinds # {}
    /\ \A o \in Objects : o.kind \in Kinds /\ o.namespace \in Namespaces
    /\ AllNamespaces \notin Namespaces
    /\ Unset \notin Calls /\ Unset \notin Objects /\ Unset \notin Nat
    /\ Calls \subseteq Nat

VARIABLES
    scopeOf,  \* the namespace that each call was given
    step,     \* where each call is
    bound,    \* the informer whose HasSynced a call polls
    global,   \* whose informer the package variable of each kind holds
    synced,   \* the calls whose informers have all listed
    cache,    \* what each call's informers have: version and pointer
    managed,  \* ManagedFields of each object decoded, by pointer
    version,  \* of the objects in the cluster; 0 if there is none
    changes,  \* of objects so far
    look      \* what each reader is doing

calls    == <<scopeOf, step, bound, global>>
clientGo == <<synced, cache>>
cluster  == <<version, changes>>
infVars  == <<calls, clientGo, managed, cluster, look>>

(* A slice, as the two of its words that matter: both are written anew. *)
Decoded == [ptr |-> "entries", len |-> "some"]
Words   == DOMAIN Decoded
Cleared == [ptr |-> "none", len |-> "zero"]

(* todo: the words not yet cleared; missed: the object was not there for a *)
(* moment, or a request failed.                                            *)
NotLooking == [pc |-> "idle", object |-> Unset, informer |-> Unset,
               ref |-> Unset, todo |-> Words, missed |-> FALSE]

InitInformers ==
    /\ scopeOf = [c \in Calls |-> Unset]
    /\ step = [c \in Calls |-> <<"none", 0>>]
    /\ bound = [c \in Calls |-> Unset]
    /\ global = [k \in Kinds |-> Unset]
    /\ synced = {}
    /\ cache = [c \in Calls |-> << >>]
    /\ managed = << >>
    /\ version = [o \in Objects |-> 1]
    /\ changes = 0
    /\ look = [r \in Readers |-> NotLooking]

----------------------------------------------------------------------------
(* startInformers(ctx, ns), from its call on. *)
CallStartInformers(c, ns) ==
    /\ scopeOf' = [scopeOf EXCEPT ![c] = ns]
    /\ step' = [step EXCEPT ![c] = <<"create", 1>>]
    /\ UNCHANGED <<bound, global, clientGo, managed, cluster, look>>

(* createJobInformer and its like: an informer of the call's own factory   *)
(* is assigned to the variable of all calls.                               *)
CreateInformer(c, n) ==
    /\ step[c] = <<"create", n>>
    /\ global' = [global EXCEPT ![Created[n]] = c]
    /\ step' = [step EXCEPT ![c] = IF n = KindCount THEN <<"start", 0>>
                                   ELSE <<"create", n + 1>>]
    /\ UNCHANGED <<scopeOf, bound, clientGo, managed, cluster, look>>

(* factory.Start: the informers of this factory, and no others. *)
FactoryStart(c) ==
    /\ step[c] = <<"start", 0>>
    /\ step' = [step EXCEPT ![c] = <<"await", 1>>]
    /\ UNCHANGED <<scopeOf, bound, global, clientGo, managed, cluster, look>>

(* WaitForCacheSync is given HasSynced of the informer that the variable   *)
(* holds at this moment, whosever it is, and polls that one.               *)
BindHasSynced(c, n) ==
    /\ step[c] = <<"await", n>>
    /\ bound[c] = Unset
    /\ bound' = [bound EXCEPT ![c] = global[Awaited[n]]]
    /\ UNCHANGED <<scopeOf, step, global, clientGo, managed, cluster, look>>

(* After the last one the call blocks for good on its doneChan. *)
WaitForCacheSync(c, n) ==
    /\ step[c] = <<"await", n>>
    /\ bound[c] \in synced
    /\ bound' = [bound EXCEPT ![c] = Unset]
    /\ step' = [step EXCEPT ![c] = IF n = KindCount THEN <<"block", 0>>
                                   ELSE <<"await", n + 1>>]
    /\ UNCHANGED <<scopeOf, global, clientGo, managed, cluster, look>>

CallStep(c) ==
    \/ FactoryStart(c)
    \/ \E n \in 1..KindCount :
          CreateInformer(c, n) \/ BindHasSynced(c, n) \/ WaitForCacheSync(c, n)

----------------------------------------------------------------------------
(* client-go and the cluster. *)
(* Mutant: the factory is started when the waiting is over. *)
StartedLate(c) == step[c][1] = "block"

Started(c) == step[c][1] \in {"await", "block"}

Covers(c, o) == scopeOf[c] \in {AllNamespaces, o.namespace}

IsCached(c, o) == o \in DOMAIN cache[c]

(* An object that is listed, added or updated is decoded into a new one.   *)
CacheSet(c, o) ==
    /\ Started(c) /\ Covers(c, o) /\ version[o] # 0
    /\ IsCached(c, o) => cache[c][o].version # version[o]
    /\ managed' = Append(managed, Decoded)
    /\ cache' = [cache EXCEPT ![c] = [x \in DOMAIN @ \cup {o} |->
                    IF x = o
                    THEN [version |-> version[o], ref |-> Len(managed) + 1]
                    ELSE @[x]]]
    /\ UNCHANGED <<calls, synced, cluster, look>>

CacheDelete(c, o) ==
    /\ IsCached(c, o) /\ version[o] = 0
    /\ cache' = [cache EXCEPT ![c] = [x \in DOMAIN @ \ {o} |-> @[x]]]
    /\ UNCHANGED <<calls, synced, managed, cluster, look>>

(* The objects of the first lists are all in the caches.  The informers of *)
(* a factory count as synced when the slowest of them is.                  *)
Sync(c) ==
    /\ Started(c) /\ c \notin synced
    /\ \A o \in Objects : Covers(c, o) /\ version[o] # 0 => IsCached(c, o)
    /\ synced' = synced \cup {c}
    /\ UNCHANGED <<calls, cache, managed, cluster, look>>

FollowObjects(c) ==
    \/ \E o \in Objects : CacheSet(c, o) \/ CacheDelete(c, o)
    \/ Sync(c)

(* An object is created, updated or deleted (v = 0). *)
ChangeObject(o, v) ==
    /\ changes' = changes + 1
    /\ v \in {0, changes + 2} \ {version[o]}
    /\ version' = [version EXCEPT ![o] = v]
    /\ look' = [r \in Readers |-> IF look[r].object = o /\ v = 0
                                  THEN [look[r] EXCEPT !.missed = TRUE]
                                  ELSE look[r]]
    /\ UNCHANGED <<calls, clientGo, managed>>

----------------------------------------------------------------------------
(* findObject, for a kind that has an informer. *)
Now(r, changed) ==
    /\ look' = [look EXCEPT ![r] = changed]
    /\ UNCHANGED <<calls, clientGo, cluster>>

(* The variable is read, and is nil before the first call assigned it. *)
FindObject(r, o) ==
    /\ look[r].pc = "idle"
    /\ Now(r, [pc |-> IF global[o.kind] = Unset THEN "request" ELSE "get",
               object |-> o, informer |-> global[o.kind], ref |-> Unset,
               todo |-> Words, missed |-> version[o] = 0])
    /\ UNCHANGED managed

(* An interface is two words.  Whoever reads the variable in the middle of *)
(* its first assignment may call a method of a nil informer, which panics. *)
HalfAssigned(k) ==
    /\ global[k] = Unset
    /\ \E c \in Calls, n \in 1..KindCount :
          Created[n] = k /\ step[c] = <<"create", n>>

(* Mutant: a cache that has not got the object is taken at its word. *)
OnlyByKey(r) ==
    /\ look[r].pc = "get"
    /\ LET c == look[r].informer  o == look[r].object
       IN  Now(r, IF IsCached(c, o)
                  THEN [look[r] EXCEPT !.pc = "found", !.ref = cache[c][o].ref]
                  ELSE [look[r] EXCEPT !.pc = "notFound"])
    /\ UNCHANGED managed

(* GetIndexer().GetByKey(namespace + "/" + name). *)
GetByKey(r) ==
    /\ look[r].pc = "get"
    /\ LET c == look[r].informer  o == look[r].object
       IN  Now(r, IF IsCached(c, o)
                  THEN [look[r] EXCEPT !.pc = "found", !.ref = cache[c][o].ref]
                  ELSE [look[r] EXCEPT !.pc = "request"])
    /\ UNCHANGED managed

(* A request is answered with an object of the caller's own. *)
Request(r) ==
    /\ look[r].pc = "request"
    /\ version[look[r].object] # 0
    /\ Now(r, [look[r] EXCEPT !.pc = "found", !.ref = Len(managed) + 1])
    /\ managed' = Append(managed, Decoded)

RequestFails(r) ==
    /\ look[r].pc = "request"
    /\ Now(r, [look[r] EXCEPT !.pc = "notFound",
                 !.missed = @ \/ version[look[r].object] # 0])
    /\ UNCHANGED managed

(* replicaSetEnhancer and its like: ManagedFields = []...{}, in whatever   *)
(* order the words are written, on an object that others may have too.     *)
ClearWord(r, word) ==
    /\ look[r].pc = "found" /\ word \in look[r].todo
    /\ managed' = [managed EXCEPT ![look[r].ref][word] = Cleared[word]]
    /\ Now(r, [look[r] EXCEPT !.todo = @ \ {word}])

LookStep(r) ==
    \/ GetByKey(r) \/ Request(r) \/ RequestFails(r)
    \/ \E word \in Words : ClearWord(r, word)

(* Mutant: the metadata is read before the field is cleared. *)
LookedUpOnly(r) == look[r].pc \in {"found", "notFound"}

(* The object's owner was found and cleared, or was not found. *)
LookedUp(r) == \/ look[r].pc = "found" /\ look[r].todo = {}
               \/ look[r].pc = "notFound"
=============================================================================
