----------------------------- MODULE DsnClients -----------------------------
(***************************************************************************)
(* Which Sentry client an event is sent with (sentry_dsn_data.go), for an  *)
(* agent that runs with SENTRY_K8S_CUSTOM_DSNS on.  Every watcher and Job  *)
(* handler is a goroutine of its own; all share dsnClientMapping.  Each    *)
(* call of findObject is a read of a cache or a request: it may fail at    *)
(* any time, for the object may be deleted between two calls, or the       *)
(* request is refused or times out.                                        *)
(***************************************************************************)
EXTENDS Integers, FiniteSets

CONSTANTS
    Goroutines,
    EventWatchers,  \* the goroutines that look the involved object up first
    Objects,
    InHand,      \* the Pods and Jobs the other goroutines have in hand
    Owner,       \* OwnerReferences[0] of an object, or NoOwner
    Findable,    \* the objects of a kind that findObject knows
    Annotation,  \* the DSN annotation of an object, or NoAnnotation
    Dsns,        \* values of annotations
    ValidDsns,   \* those sentry.NewClient accepts; EmptyDsn is not one
    EmptyDsn, NoOwner, NoAnnotation, NoClient, Default,  \* model values
    MaxHandled   \* bound: notifications handled

(* A client of clientMap, numbered as they are created. *)
Client == [no : Nat, dsn : ValidDsns]

ASSUME DsnAssumption ==
    /\ Owner \in [Objects -> Objects \cup {NoOwner}]
    /\ NoOwner \notin Objects
    /\ InHand \subseteq Findable /\ Findable \subseteq Objects
    /\ EventWatchers \subseteq Goroutines
    /\ Annotation \in [Objects -> Dsns \cup {NoAnnotation}]
    /\ NoAnnotation \notin Dsns
    /\ ValidDsns \subseteq Dsns \ {EmptyDsn}
    /\ NoClient \notin Client /\ Default \notin Client
    /\ IsFiniteSet(Goroutines)
    /\ MaxHandled \in Nat

VARIABLES
    clientMap,  \* dsnClientMapping.clientMap
    created,    \* all clients created by AddClientToMap
    pc,         \* where each goroutine is
    subject,    \* the object its notification is about
    at,         \* the object searchDsn has reached
    failed,     \* whether a call of findObject failed
    bound,      \* the client of the top layer of its cloned hub
    sent,       \* the events sent: subject, client, whether a call failed
    handled     \* notifications handled so far

vars == <<clientMap, created, pc, subject, at, failed, bound, sent, handled>>

Init ==
    /\ clientMap = [d \in Dsns |-> NoClient]
    /\ created = {}
    /\ pc = [g \in Goroutines |-> "idle"]
    /\ subject \in [Goroutines -> {NoOwner}]
    /\ at = subject
    /\ failed = [g \in Goroutines |-> FALSE]
    /\ bound = [g \in Goroutines |-> Default]
    /\ sent = {}
    /\ handled = 0

(* A notification arrives, and hub.Clone() and the layer WithScope pushes  *)
(* start from the client the goroutine's hub has.  A Pod watcher or Job    *)
(* handler has the object in hand; an event watcher must find it, or it    *)
(* sends with that client.                                                 *)
Receive(g, o) ==
    /\ pc[g] = "idle"
    /\ handled < MaxHandled
    /\ handled' = handled + 1
    /\ subject' = [subject EXCEPT ![g] = o]
    /\ at' = [at EXCEPT ![g] = o]
    /\ \/ /\ o \in (IF g \in EventWatchers THEN Findable ELSE InHand)
          /\ pc' = [pc EXCEPT ![g] = "search"]
          /\ UNCHANGED failed
       \/ /\ g \in EventWatchers
          /\ pc' = [pc EXCEPT ![g] = "send"]
          /\ failed' = [failed EXCEPT ![g] = TRUE]
    /\ UNCHANGED <<clientMap, created, bound, sent>>

(* One call of searchDsn: it returns the annotation, the empty DSN or an   *)
(* error, or it goes on to the first owner.  Only a DSN that is not empty  *)
(* leads to a lookup.                                                      *)
Annotated(g) ==
    /\ Annotation[at[g]] # NoAnnotation
    /\ pc' = [pc EXCEPT ![g] =
                IF Annotation[at[g]] = EmptyDsn THEN "send" ELSE "get"]
    /\ UNCHANGED <<at, failed>>

NoDsn(g) ==
    /\ Annotation[at[g]] = NoAnnotation /\ Owner[at[g]] = NoOwner
    /\ pc' = [pc EXCEPT ![g] = "send"]
    /\ UNCHANGED <<at, failed>>

OwnerNotFound(g) ==
    /\ Annotation[at[g]] = NoAnnotation /\ Owner[at[g]] # NoOwner
    /\ pc' = [pc EXCEPT ![g] = "send"]
    /\ failed' = [failed EXCEPT ![g] = TRUE]
    /\ UNCHANGED at

OwnerFound(g) ==
    /\ Annotation[at[g]] = NoAnnotation /\ Owner[at[g]] \in Findable
    /\ at' = [at EXCEPT ![g] = Owner[at[g]]]
    /\ UNCHANGED <<pc, failed>>

SearchDsn(g) ==
    /\ pc[g] = "search"
    /\ Annotated(g) \/ NoDsn(g) \/ OwnerNotFound(g) \/ OwnerFound(g)
    /\ UNCHANGED <<clientMap, created, subject, bound, sent, handled>>

DsnOf(g) == Annotation[at[g]]

(* Mutant: every event makes a client. *)
NeverInMap(g) ==
    /\ pc[g] = "get"
    /\ pc' = [pc EXCEPT ![g] = "add"]
    /\ UNCHANGED <<clientMap, created, subject, at, failed, bound, sent, handled>>

GetClientFromMap(g) ==
    /\ pc[g] = "get"
    /\ IF clientMap[DsnOf(g)] = NoClient
       THEN pc' = [pc EXCEPT ![g] = "add"] /\ UNCHANGED bound
       ELSE /\ pc' = [pc EXCEPT ![g] = "send"]
            /\ bound' = [bound EXCEPT ![g] = clientMap[DsnOf(g)]]
    /\ UNCHANGED <<clientMap, created, subject, at, failed, sent, handled>>

(* Mutant: the error of sentry.NewClient is ignored. *)
AddAnyClientToMap(g) ==
    /\ pc[g] = "add"
    /\ pc' = [pc EXCEPT ![g] = "send"]
    /\ LET c == [no |-> Cardinality(created) + 1, dsn |-> DsnOf(g)]
       IN  /\ created' = created \cup {c}
           /\ clientMap' = [clientMap EXCEPT ![c.dsn] = c]
           /\ bound' = [bound EXCEPT ![g] = c]
    /\ UNCHANGED <<subject, at, failed, sent, handled>>

(* Mutant: after an error the lookup is tried again. *)
AddClientToMapOrRetry(g) ==
    /\ pc[g] = "add"
    /\ IF DsnOf(g) \in ValidDsns
       THEN LET c == [no |-> Cardinality(created) + 1, dsn |-> DsnOf(g)]
            IN  /\ pc' = [pc EXCEPT ![g] = "send"]
                /\ created' = created \cup {c}
                /\ clientMap' = [clientMap EXCEPT ![c.dsn] = c]
                /\ bound' = [bound EXCEPT ![g] = c]
       ELSE /\ pc' = [pc EXCEPT ![g] = "get"]
            /\ UNCHANGED <<created, clientMap, bound>>
    /\ UNCHANGED <<subject, at, failed, sent, handled>>

(* A new client in any case, "even if client already exists".  An invalid  *)
(* DSN is an error, and the event goes to the default client.              *)
AddClientToMap(g) ==
    /\ pc[g] = "add"
    /\ pc' = [pc EXCEPT ![g] = "send"]
    /\ IF DsnOf(g) \in ValidDsns
       THEN LET c == [no |-> Cardinality(created) + 1, dsn |-> DsnOf(g)]
            IN  /\ created' = created \cup {c}
                /\ clientMap' = [clientMap EXCEPT ![c.dsn] = c]
                /\ bound' = [bound EXCEPT ![g] = c]
       ELSE UNCHANGED <<created, clientMap, bound>>
    /\ UNCHANGED <<subject, at, failed, sent, handled>>

(* Mutant: the client is bound to the goroutine's hub, not to a layer. *)
SendAndStayBound(g) ==
    /\ pc[g] = "send"
    /\ sent' = sent \cup
         {[subject |-> subject[g], client |-> bound[g], failed |-> failed[g]]}
    /\ pc' = [pc EXCEPT ![g] = "idle"]
    /\ subject' = [subject EXCEPT ![g] = NoOwner]
    /\ at' = [at EXCEPT ![g] = NoOwner]
    /\ failed' = [failed EXCEPT ![g] = FALSE]
    /\ UNCHANGED <<clientMap, created, bound, handled>>

(* CaptureEvent or CaptureCheckIn with the client of the top layer, which  *)
(* is popped on return.                                                    *)
Send(g) ==
    /\ pc[g] = "send"
    /\ sent' = sent \cup
         {[subject |-> subject[g], client |-> bound[g], failed |-> failed[g]]}
    /\ pc' = [pc EXCEPT ![g] = "idle"]
    /\ subject' = [subject EXCEPT ![g] = NoOwner]
    /\ at' = [at EXCEPT ![g] = NoOwner]
    /\ failed' = [failed EXCEPT ![g] = FALSE]
    /\ bound' = [bound EXCEPT ![g] = Default]
    /\ UNCHANGED <<clientMap, created, handled>>

Step(g) == \/ SearchDsn(g) \/ GetClientFromMap(g) \/ AddClientToMap(g)
           \/ Send(g)

Next == \E g \in Goroutines : (\E o \in Objects : Receive(g, o)) \/ Step(g)

Spec == Init /\ [][Next]_vars

FairSpec == Spec /\ \A g \in Goroutines : WF_vars(Step(g))

----------------------------------------------------------------------------
TypeOK ==
    /\ clientMap \in [Dsns -> Client \cup {NoClient}]
    /\ created \subseteq Client
    /\ pc \in [Goroutines -> {"idle", "search", "get", "add", "send"}]
    /\ subject \in [Goroutines -> Objects \cup {NoOwner}]
    /\ at \in [Goroutines -> Objects \cup {NoOwner}]
    /\ failed \in [Goroutines -> BOOLEAN]
    /\ bound \in [Goroutines -> Client \cup {Default}]
    /\ sent \subseteq [subject : Objects, client : Client \cup {Default},
                       failed : BOOLEAN]
    /\ handled \in Nat

(* The objects a search from o comes to if nothing fails are in every set  *)
(* that contains o and goes on as the search does: to the owner of what    *)
(* has no annotation.                                                      *)
GoesOn(S) ==
    \A x \in S : Annotation[x] = NoAnnotation /\ Owner[x] # NoOwner => Owner[x] \in S

SearchPath == [o \in Objects |->
    {x \in Objects : \A S \in SUBSET Objects : o \in S /\ GoesOn(S) => x \in S}]

(* The DSN of o, its own or its nearest owner's: none or one. *)
CustomDsns(o) == {Annotation[x] : x \in SearchPath[o]} \ {NoAnnotation}

(* README: a DSN in an object's manifest "takes precedence over the global *)
(* DSN".  An event goes to the project of its object's custom DSN, its own *)
(* or its nearest owner's, and to the default one only if that DSN is not  *)
(* valid or findObject failed for this very event: not for another one of  *)
(* the goroutine, nor because of what another goroutine registers.         *)
SentToItsProject ==
    \A s \in sent :
        IF s.client = Default
        THEN s.failed \/ CustomDsns(s.subject) \cap ValidDsns = {}
        ELSE CustomDsns(s.subject) = {s.client.dsn}

(* Two goroutines may both miss a DSN and create a client each, but once   *)
(* one is in the map nobody else starts to: there are never more clients   *)
(* (transports, goroutines) of a DSN than goroutines, however many events. *)
ClientsPerDsn ==
    \A d \in ValidDsns :
        Cardinality({c \in created : c.dsn = d}) <= Cardinality(Goroutines)

(* The search up the owners ends, and every notification received is sent, *)
(* whatever requests fail and whatever other goroutines do meanwhile.      *)
EveryEventIsSent == \A g \in Goroutines : pc[g] # "idle" ~> pc[g] = "idle"
=============================================================================
