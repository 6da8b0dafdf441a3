--------------------------- MODULE EventPipeline ---------------------------
(***************************************************************************)
(* handleWatchEvent (watcher_events.go) in the watchers of all namespaces, *)
(* which run concurrently and share the event buffer: an event is filtered, *)
(* reported with the related events and the creation of the objects it is  *)
(* about as breadcrumbs, and buffered.  EventWatcher says which events     *)
(* reach a watcher, and when they are old.                                 *)
(***************************************************************************)
EXTENDS EventBuffer, SequencesExt

CONSTANTS
    Watchers,        \* one for each call of watchEventsInNamespaceForever
    Watched,         \* the events in the namespace of a watcher
    Self,            \* the Event object itself: its namespace, "Event", its name
    Lineage,         \* the involved object of an event and its root owners, as
                     \* far as a kind enhancer has a breadcrumb for them
    Old,             \* events from before the cutoff
    Normal,          \* events of type Normal
    FilteredReason,  \* events isFilteredByReason drops
    FilteredSource,  \* events isFilteredByEventSource drops
    BreadcrumbLimit, \* breadcrumbLimit
    MaxHandled       \* bound: events handled

ASSUME PipelineAssumption ==
    /\ Watched \in [Watchers -> SUBSET Events]
    /\ Self \in [Events -> Objects] /\ Lineage \in [Events -> Seq(Objects)]
    /\ BreadcrumbLimit \in Nat /\ MaxHandled \in Nat

VARIABLES
    pc, current,  \* where each watcher is, and the event it handles
    reports,      \* the events captured, with their breadcrumbs
    added         \* history: the events buffered so far

vars == <<buffer, pc, current, reports, added>>

Init ==
    /\ InitBuffer
    /\ pc = [w \in Watchers |-> "idle"]
    /\ current = [w \in Watchers |-> Nil]
    /\ reports = {}
    /\ added = << >>

Ignored(e) == e \in Old \cup Normal \cup FilteredReason \cup FilteredSource

(* Added and Modified notifications; others, and objects that are no       *)
(* Events, return before the deferred call and change nothing.  An event   *)
(* may come again: it is modified, or the connection is opened anew.       *)
HandleWatchEvent(w, e) ==
    /\ pc[w] = "idle"
    /\ e \in Watched[w]
    /\ Len(added) < MaxHandled
    /\ current' = [current EXCEPT ![w] = e]
    /\ pc' = [pc EXCEPT ![w] = IF Ignored(e) THEN "deferred" ELSE "report"]
    /\ UNCHANGED <<buffer, reports, added>>

(* The last n elements: scope.AddBreadcrumb drops the oldest one in excess, *)
(* so this is what is left of a sequence that is added one by one.         *)
LastOf(n, s) == IF Len(s) <= n THEN s ELSE SubSeq(s, Len(s) - n + 1, Len(s))

(* eventEnhancer *)
EventBreadcrumbs(e) == LastOf(BreadcrumbLimit, FilterEventsFromBuffer(Self[e]))

(* The objects whose kind enhancers run: none if the involved object is not *)
(* found or has no kind of those, or if the search for root owners fails.  *)
Enhanced(e) == {<< >>, Lineage[e]}

(* Mutant: the kind enhancers do not mind the limit. *)
BreadcrumbsBeyondLimit(e, made) == EventBreadcrumbs(e) \o made

(* Each kind enhancer adds "Created ..." of its object (which stands for   *)
(* that breadcrumb) to what eventEnhancer left in the scope.               *)
Breadcrumbs(e, made) == LastOf(BreadcrumbLimit, EventBreadcrumbs(e) \o made)

CaptureEvent(w) ==
    /\ pc[w] = "report"
    /\ \E made \in Enhanced(current[w]) :
          reports' = reports \cup
            {[event |-> current[w], crumbs |-> Breadcrumbs(current[w], made)]}
    /\ pc' = [pc EXCEPT ![w] = "deferred"]
    /\ UNCHANGED <<buffer, current, added>>

(* Mutant: deferred twice. *)
RunDeferredTwice(w) ==
    /\ pc[w] = "deferred"
    /\ AddEventToBuffer(current[w])
    /\ added' = Append(added, current[w])
    /\ current' = [current EXCEPT ![w] = Nil]
    /\ UNCHANGED <<pc, reports>>

(* defer addEventToBuffer(eventObject): on every return after the cast. *)
RunDeferred(w) ==
    /\ pc[w] = "deferred"
    /\ AddEventToBuffer(current[w])
    /\ added' = Append(added, current[w])
    /\ pc' = [pc EXCEPT ![w] = "idle"]
    /\ current' = [current EXCEPT ![w] = Nil]
    /\ UNCHANGED reports

Next == \E w \in Watchers :
            \/ \E e \in Events : HandleWatchEvent(w, e)
            \/ CaptureEvent(w) \/ RunDeferred(w)

Spec == Init /\ [][Next]_vars

----------------------------------------------------------------------------
TypeOK ==
    /\ BufferTypeOK
    /\ pc \in [Watchers -> {"idle", "report", "deferred"}]
    /\ current \in [Watchers -> Events \cup {Nil}]
    /\ \A r \in reports : /\ r.event \in Events
                         /\ r.crumbs \in Seq(Events \cup Objects)
    /\ added \in Seq(Events)

(* The breadcrumbs of a report are the last ones of these: the events      *)
(* about the Event that are among the last Size, in the order in which all *)
(* watchers together buffered them, and then the creation of its object    *)
(* and of the roots of that, unless the enhancers did not come that far.   *)
(* So they are never a future event nor its own delivery, and where they   *)
(* are too many it is the oldest event that gives way.                     *)
CrumbsAreRecentHistory ==
    [][\A r \in reports' \ reports :
          \E made \in Enhanced(r.event) :
             r.crumbs = LastOf(BreadcrumbLimit,
                          EventsAbout(Self[r.event], LastOf(Size, added)) \o made)]_vars

(* Filtered events are not reported, and still reach the buffer: a report  *)
(* is never made of one, a breadcrumb may be.  The ring and the history of *)
(* all watchers agree at every moment, with handlers in between.           *)
BufferIsHistory == Contents = LastOf(Size, added)

(* eventEnhancer: "Add related events as breadcrumbs".  When an event      *)
(* about the same involved object is buffered, a report has a breadcrumb   *)
(* made of such an event.                                                  *)
RelatedEventsAreCrumbs ==
    [][\A r \in reports' \ reports :
          (\E k \in 1..Len(Contents) : About[Contents[k]] = About[r.event])
             => \E k \in 1..Len(r.crumbs) :
                   /\ r.crumbs[k] \in Events
                   /\ About[r.crumbs[k]] = About[r.event]]_vars
=============================================================================
