---------------------------- MODULE EventWatcher ----------------------------
(***************************************************************************)
(* Which Kubernetes events reach the report of one namespace's watcher     *)
(* (watchEventsInNamespaceForever, watchEventsInNamespace and the cutoff   *)
(* of handleWatchEvent in watcher_events.go), in time.                     *)
(*                                                                         *)
(* Time is counted in ticks, Second of them to a second: time.Now() has    *)
(* the precision of a tick, a LastTimestamp that of a second.  The server  *)
(* keeps the events for as long as the model runs.  The RetryWatcher is    *)
(* external; watchFunc ignores the resource version it passes, so every    *)
(* connection, the first one and each one it reopens by itself, delivers   *)
(* all existing events anew.  Filters other than the cutoff are in         *)
(* EventPipeline.                                                          *)
(***************************************************************************)
EXTENDS Integers

CONSTANTS
    Events,
    Stamp,        \* which timestamp an event has: "last", "eventTime" or "none"
    Second,       \* ticks in a second
    Historical,   \* SENTRY_K8S_WATCH_HISTORICAL
    MaxTime,      \* bound: ticks (and what a last sleep takes)
    MaxOccurs,    \* bound: occurrences of all events together
    MaxConns      \* bound: connections opened

ASSUME WatcherAssumption ==
    /\ Stamp \in [Events -> {"last", "eventTime", "none"}]
    /\ Second \in Nat \ {0}
    /\ Historical \in BOOLEAN
    /\ {MaxTime, MaxOccurs, MaxConns} \subseteq Nat

VARIABLES
    now,
    occurrences,      \* of all events so far
    firstAt, lastAt,  \* when each event occurred first and last, 0 if never
    pc,               \* "start", "watching", "closed" or "sleeping"
    watchSince,       \* the cutoff, 0 if zero
    wakeAt,           \* when time.Sleep returns
    stream,           \* notifications sent by the server, not yet handled
    conns,            \* connections opened so far
    started,          \* when the watcher was started, 0 before
    reports, ignored  \* the notifications reported, and those found too old

events == <<occurrences, firstAt, lastAt>>
vars   == <<now, events, pc, watchSince, wakeAt, stream, conns, started, reports,
            ignored>>

WholeSeconds(t) == t - (t % Second)

(* Mutant: always the time of the first occurrence. *)
FirstTimestamp(e, first, last) ==
    CASE Stamp[e] = "last"      -> WholeSeconds(first)
      [] Stamp[e] = "eventTime" -> first
      [] Stamp[e] = "none"      -> 0

(* LastTimestamp, or EventTime when it is zero: a series keeps the time of *)
(* its first occurrence.  0 is the zero time: an event may have neither.   *)
Timestamp(e, first, last) ==
    CASE Stamp[e] = "last"      -> WholeSeconds(last)
      [] Stamp[e] = "eventTime" -> first
      [] Stamp[e] = "none"      -> 0

(* A notification, with the time of the occurrence it is about. *)
Notification(e, first, last) ==
    [event |-> e, ts |-> Timestamp(e, first, last), at |-> last]

Existing == {Notification(e, firstAt[e], lastAt[e]) :
               e \in {x \in Events : lastAt[x] # 0}}

Init ==
    /\ now = Second
    /\ occurrences = 0
    /\ firstAt = [e \in Events |-> 0]
    /\ lastAt = [e \in Events |-> 0]
    /\ pc = "start"
    /\ watchSince = 0
    /\ wakeAt = 0
    /\ stream = {}
    /\ conns = 0
    /\ started = 0
    /\ reports = {}
    /\ ignored = {}

----------------------------------------------------------------------------
(* The cluster. *)
Tick ==
    /\ now < MaxTime \/ (pc = "sleeping" /\ now < wakeAt)
    /\ now' = now + 1
    /\ UNCHANGED <<events, pc, watchSince, wakeAt, stream, conns,
                   started, reports, ignored>>

(* An event is created, or the one recorded is updated when it occurs again. *)
Occur(e) ==
    /\ lastAt[e] < now /\ now <= MaxTime /\ occurrences < MaxOccurs
    /\ occurrences' = occurrences + 1
    /\ firstAt' = [firstAt EXCEPT ![e] = IF @ = 0 THEN now ELSE @]
    /\ lastAt' = [lastAt EXCEPT ![e] = now]
    /\ stream' = IF pc = "watching"
                 THEN stream \cup {Notification(e, firstAt'[e], now)}
                 ELSE stream
    /\ UNCHANGED <<now, pc, watchSince, wakeAt, conns, started, reports, ignored>>

----------------------------------------------------------------------------
(* The watcher. *)
Start ==
    /\ pc = "start"
    /\ watchSince' = IF Historical THEN 0 ELSE now
    /\ started' = now
    /\ pc' = "sleeping"
    /\ wakeAt' = now
    /\ UNCHANGED <<now, events, stream, conns, reports, ignored>>

(* Mutant: only events that are new to the connection are delivered. *)
ConnectFromNow ==
    /\ pc = "sleeping" /\ now >= wakeAt
    /\ conns < MaxConns
    /\ conns' = conns + 1
    /\ stream' = {}
    /\ pc' = "watching"
    /\ UNCHANGED <<now, events, watchSince, wakeAt, started, reports,
                   ignored>>

(* watchEventsInNamespace, called when the sleep is over. *)
Connect ==
    /\ pc = "sleeping" /\ now >= wakeAt
    /\ conns < MaxConns
    /\ conns' = conns + 1
    /\ stream' = Existing
    /\ pc' = "watching"
    /\ UNCHANGED <<now, events, watchSince, wakeAt, started, reports,
                   ignored>>

(* Mutant: one connection too many. *)
ReconnectOnceMore ==
    /\ pc = "watching"
    /\ conns <= MaxConns
    /\ conns' = conns + 1
    /\ stream' = Existing
    /\ UNCHANGED <<now, events, pc, watchSince, wakeAt, started,
                   reports, ignored>>

(* The RetryWatcher loses its connection and opens another one. *)
Reconnect ==
    /\ pc = "watching"
    /\ conns < MaxConns
    /\ conns' = conns + 1
    /\ stream' = Existing
    /\ UNCHANGED <<now, events, pc, watchSince, wakeAt, started,
                   reports, ignored>>

(* It gives up (410 Gone) and closes the channel: what was not handled yet *)
(* is lost.  At most MaxConns - 1 times: the last connection stays.        *)
CloseChannel ==
    /\ pc = "watching"
    /\ conns < MaxConns
    /\ stream' = {}
    /\ pc' = "closed"
    /\ UNCHANGED <<now, events, watchSince, wakeAt, conns, started,
                   reports, ignored>>

Again ==
    /\ pc = "closed"
    /\ watchSince' = now
    /\ wakeAt' = now + Second
    /\ pc' = "sleeping"
    /\ UNCHANGED <<now, events, stream, conns, started, reports, ignored>>

(* Mutant: a second of grace, to make up for whole seconds. *)
TooOldWithGrace(ts) == watchSince # 0 /\ ts # 0 /\ ts < watchSince - Second

TooOld(ts) == watchSince # 0 /\ ts # 0 /\ ts < watchSince

HandleWatchEvent(n) ==
    /\ pc = "watching"
    /\ n \in stream
    /\ stream' = stream \ {n}
    /\ IF TooOld(n.ts)
       THEN ignored' = ignored \cup {n} /\ UNCHANGED reports
       ELSE reports' = reports \cup {n} /\ UNCHANGED ignored
    /\ UNCHANGED <<now, events, pc, watchSince, wakeAt, conns, started>>

Handle == \E n \in stream : HandleWatchEvent(n)

Next ==
    \/ Tick
    \/ \E e \in Events : Occur(e)
    \/ Start \/ Connect \/ Reconnect \/ CloseChannel \/ Again
    \/ Handle

Spec == Init /\ [][Next]_vars

(* Time passes and the watcher goroutine runs on.  It receives whatever is *)
(* in the stream sooner or later, for the stream is a queue.               *)
Fairness == WF_vars(Tick) /\ WF_vars(Start \/ Connect \/ Again) /\ WF_vars(Handle)

FairSpec == Spec /\ Fairness

----------------------------------------------------------------------------
Notifications == [event : Events, ts : Nat, at : Nat]

TypeOK ==
    /\ now \in Nat /\ occurrences \in 0..MaxOccurs
    /\ firstAt \in [Events -> Nat] /\ lastAt \in [Events -> Nat]
    /\ pc \in {"start", "watching", "closed", "sleeping"}
    /\ watchSince \in Nat /\ wakeAt \in Nat
    /\ stream \subseteq Notifications
    /\ conns \in 0..MaxConns
    /\ started \in Nat
    /\ reports \subseteq Notifications /\ ignored \subseteq Notifications

(* README: "old events will not be reported" by default.  However often    *)
(* the existing events are replayed, by a reconnection or after a restart  *)
(* of the watch, what happened before the agent started is not reported,   *)
(* of every event that has a timestamp to tell it by.  One that has none   *)
(* is never too old for the code, however old it is, and each connection   *)
(* that replays it has it reported again.                                  *)
OldEventsNotReported ==
    ~Historical =>
        \A n \in reports : n.at >= started \/ Stamp[n.event] = "none"

(* The price of comparing whole seconds with a precise cutoff: an          *)
(* occurrence is dropped less than a second after the cutoff at most, if   *)
(* its LastTimestamp is what is compared; with no timestamp it never is.   *)
DropsAreWithinASecond ==
    [][\A n \in ignored' \ ignored :
          /\ Stamp[n.event] = "last" => n.at < watchSince + Second
          /\ Stamp[n.event] # "none"]_vars

(* No occurrence is forgotten: the one recorded of an event is reported in *)
(* the end, whatever was lost with a closed channel, unless its timestamp  *)
(* is behind the cutoff by then or it occurs once more.  That of an event  *)
(* without a timestamp never is.                                           *)
EveryEventIsDecided ==
    \A e \in Events : \A t \in 1..MaxTime :
        (lastAt[e] = t)
          ~> \/ lastAt[e] # t
             \/ \E n \in reports : n.event = e /\ n.at = t
             \/ TooOld(Timestamp(e, firstAt[e], lastAt[e]))
=============================================================================
