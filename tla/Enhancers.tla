----------------------------- MODULE Enhancers -----------------------------
(***************************************************************************)
(* How a report is grouped (enhancers.go, enhancers_common.go): the        *)
(* fingerprint is made of the message, or of the pattern it matches, and   *)
(* of the root owners of the object the report is about, which are found   *)
(* by a depth-first search that makes a request, or reads a cache, for     *)
(* each owner.  Any of these may fail.                                     *)
(*                                                                         *)
(* Handlers build their reports independently: one of them is enough.      *)
(* The breadcrumbs of eventEnhancer are in EventPipeline; tags and the     *)
(* contexts other than "Monitor" are left out.                             *)
(***************************************************************************)
EXTENDS Integers, Sequences, FiniteSetsExt

CONSTANTS
    Objects,
    Owners,      \* the OwnerReferences of each object, in order
    Findable,    \* the objects of a kind that findObject knows
    InHand,      \* the Pods that the Pod watcher has in hand
    CronJobs,
    Label,       \* kind and name of each object
    Messages,    \* without the prefix "(combined from similar events):"
    Pattern,     \* what matchCommonPatterns makes of a message, or NoPattern
    NoPattern, NoObject, NoSlug,  \* model values
    MaxHandled   \* bound: reports built

ASSUME EnhancersAssumption ==
    /\ Owners \in [Objects -> Seq(Objects)]
    /\ InHand \subseteq Findable /\ Findable \subseteq Objects
    /\ CronJobs \subseteq Objects
    /\ DOMAIN Label = Objects /\ DOMAIN Pattern = Messages
    /\ NoObject \notin Objects
    /\ MaxHandled \in Nat

VARIABLES
    pc,           \* "idle", "object", "search" or "capture"
    object,       \* the object the report is about
    message,      \* its message, without the name objectEnhancer prefixes
    fingerprint,  \* sentryEvent.Fingerprint
    todo,         \* the owners that ownerRefDFS has not looked up yet
    roots,        \* the root owners it has found
    slug,         \* the slug in the context "Monitor" of the scope
    lookup,       \* history: "done", or why an object was not found
    reports,      \* the events captured
    handled       \* reports built so far

report == <<object, message>>
search == <<todo, roots>>
vars   == <<pc, report, fingerprint, search, slug, lookup, reports, handled>>

Init ==
    /\ pc = "idle"
    /\ object = NoObject /\ message \in Messages
    /\ fingerprint = << >>
    /\ todo = << >> /\ roots = << >>
    /\ slug = NoSlug
    /\ lookup = "done"
    /\ reports = {}
    /\ handled = 0

(* What a report without an object is grouped by. *)
CommonFingerprint(m) == IF Pattern[m] = NoPattern THEN << >> ELSE <<Pattern[m]>>

(* The object is looked up, and the common enhancer runs.  The Pod watcher *)
(* has its object in hand; without one, objectEnhancer is skipped.         *)
BuildSentryEvent(o, m) ==
    /\ pc = "idle"
    /\ handled < MaxHandled
    /\ handled' = handled + 1
    /\ object' = o /\ message' = m
    /\ fingerprint' = CommonFingerprint(m)
    /\ \/ o \in Findable /\ pc' = "object" /\ UNCHANGED lookup
       \/ o \notin InHand /\ pc' = "capture" /\ lookup' = "no object"
    /\ UNCHANGED <<search, slug, reports>>

(* Mutant: the object's own label is added before the search. *)
ObjectEnhancerEagerly ==
    /\ pc = "object"
    /\ fingerprint' = Append(fingerprint, Label[object])
    /\ roots' = IF Owners[object] = << >> THEN <<object>> ELSE << >>
    /\ todo' = Owners[object]
    /\ pc' = "search"
    /\ UNCHANGED <<report, slug, lookup, reports, handled>>

(* Up to the call of findRootOwners; the search starts from the object. *)
ObjectEnhancer ==
    /\ pc = "object"
    /\ fingerprint' = IF fingerprint = << >> THEN <<message>> ELSE fingerprint
    /\ roots' = IF Owners[object] = << >> THEN <<object>> ELSE << >>
    /\ todo' = Owners[object]
    /\ pc' = "search"
    /\ UNCHANGED <<report, slug, lookup, reports, handled>>

(* Mutant: the search forgets the other owners on the way up. *)
OwnerFoundFirstOnly ==
    /\ pc = "search" /\ todo # << >>
    /\ LET o == Head(todo)
       IN  /\ o \in Findable
           /\ todo' = IF Owners[o] = << >> THEN Tail(todo) ELSE Owners[o]
           /\ roots' = IF Owners[o] = << >> THEN Append(roots, o) ELSE roots
    /\ UNCHANGED <<pc, report, fingerprint, slug, lookup, reports, handled>>

(* ownerRefDFS: the next owner is found; one without owners is a root, and *)
(* the owners of another come before what is left to look up.              *)
OwnerFound ==
    /\ pc = "search" /\ todo # << >>
    /\ LET o == Head(todo)
       IN  /\ o \in Findable
           /\ todo' = Owners[o] \o Tail(todo)
           /\ roots' = IF Owners[o] = << >> THEN Append(roots, o) ELSE roots
    /\ UNCHANGED <<pc, report, fingerprint, slug, lookup, reports, handled>>

(* Mutant: what is not found is taken for a root. *)
OwnerNotFoundIsRoot ==
    /\ pc = "search" /\ todo # << >>
    /\ roots' = Append(roots, NoObject)
    /\ todo' = Tail(todo)
    /\ UNCHANGED <<pc, report, fingerprint, slug, lookup, reports, handled>>

(* A request fails, or findObject does not know the kind of the owner: the *)
(* error goes all the way up, and the report is captured as it is.         *)
OwnerNotFound ==
    /\ pc = "search" /\ todo # << >>
    /\ lookup' = IF Head(todo) \in Findable THEN "no owner" ELSE "unknown kind"
    /\ todo' = << >> /\ roots' = << >>
    /\ pc' = "capture"
    /\ UNCHANGED <<report, fingerprint, slug, reports, handled>>

(* findRootOwners: an object without owners, which is its own root, has no *)
(* root owners.                                                            *)
RootOwners == IF roots[1] = object THEN << >> ELSE roots

Labels(s) == [k \in DOMAIN s |-> Label[s[k]]]

(* Mutant: the fingerprint is not put back before the owners are added. *)
AllLabels == <<Label[object]>> \o Labels(RootOwners)

(* What the kind enhancers add: the label of the object, which is removed  *)
(* again if there are root owners, whose labels take its place.            *)
OwnLabels == IF RootOwners = << >> THEN <<Label[object]>> ELSE Labels(RootOwners)

(* cronjobEnhancer, for the object and for its root owners in turn: the    *)
(* slug of the last CronJob stays.                                         *)
Slug ==
    LET subjects == <<object>> \o RootOwners
        crons == {k \in DOMAIN subjects : subjects[k] \in CronJobs}
    IN  IF crons = {} THEN NoSlug ELSE Label[subjects[Max(crons)]]

KindEnhancers ==
    /\ pc = "search" /\ todo = << >>
    /\ fingerprint' = fingerprint \o OwnLabels
    /\ slug' = Slug
    /\ roots' = << >>
    /\ pc' = "capture"
    /\ UNCHANGED <<report, todo, lookup, reports, handled>>

(* hub.CaptureEvent; the layer with its scope is popped. *)
Capture ==
    /\ pc = "capture"
    /\ reports' = reports \cup
         {[object |-> object, message |-> message, lookup |-> lookup,
           fingerprint |-> fingerprint, slug |-> slug]}
    /\ pc' = "idle"
    /\ object' = NoObject
    /\ fingerprint' = << >>
    /\ slug' = NoSlug
    /\ lookup' = "done"
    /\ UNCHANGED <<message, search, handled>>

Step == ObjectEnhancer \/ OwnerFound \/ OwnerNotFound \/ KindEnhancers \/ Capture

Next == Step \/ \E o \in Objects, m \in Messages : BuildSentryEvent(o, m)

Spec == Init /\ [][Next]_vars

----------------------------------------------------------------------------
Parts == Messages \cup {Pattern[m] : m \in Messages} \cup {Label[o] : o \in Objects}

TypeOK ==
    /\ pc \in {"idle", "object", "search", "capture"}
    /\ object \in Objects \cup {NoObject} /\ message \in Messages
    /\ fingerprint \in Seq(Parts)
    /\ todo \in Seq(Objects) /\ roots \in Seq(Objects)
    /\ slug \in {Label[c] : c \in CronJobs} \cup {NoSlug}
    /\ lookup \in {"done", "no object", "no owner", "unknown kind"}
    /\ \A r \in reports : r.object \in Objects /\ r.fingerprint \in Seq(Parts)
    /\ handled \in Nat

(* The definitions the search is measured by: the objects reached from one *)
(* are in every set that contains it and is closed under owners.           *)
InSeq(s) == {s[k] : k \in DOMAIN s}

ClosedUnderOwners(S) == \A o \in S : InSeq(Owners[o]) \subseteq S

Reached == [o \in Objects |->
    {a \in Objects : \A S \in SUBSET Objects :
        o \in S /\ ClosedUnderOwners(S) => a \in S}]

RootsOf(o) == {a \in Reached[o] : Owners[a] = << >>}

(* ownerRefDFS "finds the leaves of the owner references graph": at every  *)
(* moment the roots found and those above the owners still to be looked up *)
(* are all the roots there are, so nothing is missing at the end.          *)
SearchIsComplete ==
    pc = "search" =>
        RootsOf(object) = InSeq(roots) \cup UNION {RootsOf(o) : o \in InSeq(todo)}

(* Objects with several owners list the label of a common root repeatedly. *)
SingleLine(o) == \A a \in Reached[o] : Len(Owners[a]) <= 1

GroupKey(r) == <<IF Pattern[r.message] = NoPattern THEN r.message
                 ELSE Pattern[r.message],
                 {Label[o] : o \in RootsOf(r.object)}>>

(* "Remove any fingerprinting so the event can be grouped by its owners    *)
(* instead": of two complete reports, those of one message (or pattern)    *)
(* and one root fall into one group, and no others do.                     *)
GroupedByRoot ==
    \A r, s \in {x \in reports : x.lookup = "done" /\ SingleLine(x.object)} :
        r.fingerprint = s.fingerprint <=> GroupKey(r) = GroupKey(s)

(* A search that fails at any owner leaves no trace of the object or of    *)
(* the owners that were found before: what it has seen of the owners does  *)
(* not decide the group of the report.                                     *)
FailureIsNotHalfGrouped ==
    \A r, s \in {x \in reports : x.lookup \in {"no owner", "unknown kind"}} :
        GroupKey(r)[1] = GroupKey(s)[1] => r.fingerprint = s.fingerprint

(* README: events of "any resource object [...] that is associated with a  *)
(* CronJob will have the corresponding monitor slug", if no request fails. *)
CronJobEventsHaveSlug ==
    \A r \in reports : \A c \in CronJobs \cap Reached[r.object] :
        r.lookup \in {"done", "unknown kind"} => r.slug = Label[c]
=============================================================================
