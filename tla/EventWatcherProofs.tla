------------------------- MODULE EventWatcherProofs -------------------------
(***************************************************************************)
(* What the cutoff of EventWatcher keeps out and what it drops, for any    *)
(* events, any precision of the clock and any number of connections.       *)
(***************************************************************************)
EXTENDS EventWatcher, TLAPS

(* A timestamp is the zero time if the event has none, and only then;      *)
(* never later than the occurrence it stands for, and less than a second   *)
(* earlier if it is a LastTimestamp.                                       *)
Truthful(n) ==
    /\ n.ts = 0 <=> Stamp[n.event] = "none"
    /\ n.ts <= n.at
    /\ Stamp[n.event] = "last" => n.at < n.ts + Second

(* The clock does not start at the zero time, and what has occurred did so *)
(* after a full second of it: whole seconds are not zero either.           *)
ClockInv ==
    /\ Second <= now
    /\ \A e \in Events :
          /\ firstAt[e] # 0 \/ lastAt[e] # 0
                => Second <= firstAt[e] /\ firstAt[e] <= lastAt[e]
          /\ lastAt[e] <= now

NotificationInv == \A n \in stream \cup reports \cup ignored : Truthful(n)

(* The cutoff is never before the start of the agent.                      *)
CutoffInv ==
    /\ started <= now
    /\ pc = "start" => stream = {} /\ reports = {}
    /\ pc # "start" /\ ~Historical => watchSince # 0 /\ started <= watchSince

WatcherInv ==
    /\ TypeOK
    /\ ClockInv
    /\ NotificationInv
    /\ CutoffInv
    /\ OldEventsNotReported

(* Cutting a time to whole seconds takes less than a second off.           *)
LEMMA WholeSecondsBounds ==
    ASSUME NEW t \in Nat, Second <= t
    PROVE  /\ WholeSeconds(t) \in Nat
           /\ 0 < WholeSeconds(t) /\ WholeSeconds(t) <= t
           /\ t < WholeSeconds(t) + Second
  <1>1. Second \in Nat \ {0}
    BY WatcherAssumption
  <1>2. t % Second \in 0..(Second - 1)
    BY <1>1
  <1>3. QED
    BY <1>1, <1>2 DEF WholeSeconds

(* A notification about something that occurred is well-formed and         *)
(* truthful.                                                               *)
LEMMA NotificationIsTruthful ==
    ASSUME NEW e \in Events, NEW first \in Nat, NEW last \in Nat,
           Second <= first, first <= last
    PROVE  /\ Notification(e, first, last) \in Notifications
           /\ Truthful(Notification(e, first, last))
  <1> DEFINE ts == Timestamp(e, first, last)
  <1>1. Second \in Nat \ {0} /\ Stamp[e] \in {"last", "eventTime", "none"}
    BY WatcherAssumption
  <1>2. /\ ts \in Nat /\ ts <= last
        /\ ts = 0 <=> Stamp[e] = "none"
        /\ Stamp[e] = "last" => last < ts + Second
    <2>1. CASE Stamp[e] = "last"
      <3>1. ts = WholeSeconds(last)
        BY <2>1 DEF Timestamp
      <3>2. Second <= last
        BY <1>1
      <3>3. ts \in Nat /\ ts <= last /\ ts # 0 /\ last < ts + Second
        BY <3>1, <3>2, WholeSecondsBounds
      <3>4. QED
        BY <2>1, <3>3
    <2>2. CASE Stamp[e] = "eventTime"
      <3>1. ts = first
        BY <2>2 DEF Timestamp
      <3>2. ts \in Nat /\ ts <= last /\ ts # 0
        BY <1>1, <3>1
      <3>3. QED
        BY <2>2, <3>2
    <2>3. CASE Stamp[e] = "none"
      <3>1. ts = 0
        BY <2>3 DEF Timestamp
      <3>2. QED
        BY <2>3, <3>1
    <2>4. QED
      BY <1>1, <2>1, <2>2, <2>3
  <1> HIDE DEF ts
  <1>3. Notification(e, first, last) = [event |-> e, ts |-> ts, at |-> last]
    BY DEF Notification, ts
  <1>4. QED
    BY <1>2, <1>3 DEF Notifications, Truthful

(* So are those a new connection begins with.                              *)
LEMMA ExistingIsTruthful ==
    ASSUME TypeOK, ClockInv, NEW n \in Existing
    PROVE  n \in Notifications /\ Truthful(n)
  <1>1. PICK e \in Events : lastAt[e] # 0 /\ n = Notification(e, firstAt[e], lastAt[e])
    BY DEF Existing
  <1>2. firstAt[e] \in Nat /\ lastAt[e] \in Nat
    BY DEF TypeOK
  <1>3. Second <= firstAt[e] /\ firstAt[e] <= lastAt[e]
    BY <1>1 DEF ClockInv
  <1>4. QED
    BY <1>1, <1>2, <1>3, NotificationIsTruthful

LEMMA OccurStep ==
    ASSUME WatcherInv, NEW e \in Events, Occur(e)
    PROVE  WatcherInv'
  <1> USE DEF WatcherInv, events
  <1>1. /\ now \in Nat /\ Second \in Nat \ {0} /\ Second <= now /\ now' = now
        /\ firstAt \in [Events -> Nat] /\ lastAt \in [Events -> Nat]
        /\ firstAt' = [firstAt EXCEPT ![e] = IF firstAt[e] = 0 THEN now
                                             ELSE firstAt[e]]
        /\ lastAt' = [lastAt EXCEPT ![e] = now]
        /\ occurrences' \in 0..MaxOccurs
        /\ UNCHANGED <<pc, watchSince, wakeAt, conns, started, reports, ignored>>
    BY WatcherAssumption DEF TypeOK, ClockInv, Occur
  <1>2. ClockInv'
    BY <1>1 DEF ClockInv
  <1>3. /\ Notification(e, firstAt'[e], now) \in Notifications
        /\ Truthful(Notification(e, firstAt'[e], now))
    <2>1. /\ firstAt'[e] \in Nat /\ now \in Nat
          /\ Second <= firstAt'[e] /\ firstAt'[e] <= now
      <3>1. firstAt'[e] = IF firstAt[e] = 0 THEN now ELSE firstAt[e]
        BY <1>1
      <3>2. firstAt[e] # 0 => /\ Second <= firstAt[e] /\ firstAt[e] <= lastAt[e]
                              /\ lastAt[e] <= now
        BY DEF ClockInv
      <3>3. QED
        BY <1>1, <3>1, <3>2
    <2>2. QED
      BY <2>1, NotificationIsTruthful
  <1>4. \/ stream' = stream
        \/ stream' = stream \cup {Notification(e, firstAt'[e], now)}
           /\ pc = "watching"
    BY DEF Occur
  <1>5. TypeOK'
    BY <1>1, <1>3, <1>4 DEF TypeOK
  <1>6. NotificationInv'
    BY <1>1, <1>3, <1>4 DEF NotificationInv, Truthful
  <1>7. CutoffInv'
    BY <1>1, <1>4 DEF CutoffInv
  <1>8. OldEventsNotReported'
    BY <1>1 DEF OldEventsNotReported
  <1>9. QED
    BY <1>2, <1>5, <1>6, <1>7, <1>8

(* A notification that is reported is behind no cutoff, so what it is      *)
(* about happened after the start.                                         *)
LEMMA HandleStep ==
    ASSUME WatcherInv, NEW n \in stream, HandleWatchEvent(n)
    PROVE  WatcherInv'
  <1> USE DEF WatcherInv, events
  <1>1. TypeOK'
    BY DEF HandleWatchEvent, TypeOK
  <1>2. ClockInv'
    BY DEF HandleWatchEvent, ClockInv
  <1>3. NotificationInv'
    BY DEF HandleWatchEvent, NotificationInv, Truthful
  <1>4. CutoffInv'
    BY DEF HandleWatchEvent, CutoffInv
  <1>5. OldEventsNotReported'
    <2>1. UNCHANGED started /\ (reports' = reports \/ reports' = reports \cup {n})
      BY DEF HandleWatchEvent
    <2>2. ASSUME ~Historical, n \in reports', n \notin reports,
                 Stamp[n.event] # "none"
          PROVE  n.at >= started
      <3>1. ~TooOld(n.ts)
        BY <2>2 DEF HandleWatchEvent
      <3>2. watchSince # 0 /\ started <= watchSince
        BY <2>2 DEF CutoffInv, HandleWatchEvent
      <3>3. n.ts # 0 /\ n.ts <= n.at
        BY <2>2 DEF NotificationInv, Truthful
      <3>4. n.ts \in Nat /\ n.at \in Nat /\ started \in Nat /\ watchSince \in Nat
        BY DEF TypeOK, Notifications
      <3>5. QED
        BY <3>1, <3>2, <3>3, <3>4 DEF TooOld
    <2>3. QED
      BY <2>1, <2>2 DEF OldEventsNotReported
  <1>6. QED
    BY <1>1, <1>2, <1>3, <1>4, <1>5

LEMMA WatcherInvStep == WatcherInv /\ [Next]_vars => WatcherInv'
  <1> SUFFICES ASSUME WatcherInv, [Next]_vars
               PROVE  WatcherInv'
    OBVIOUS
  <1> USE DEF WatcherInv, events
  <1>1. CASE Tick
    <2>1. now \in Nat /\ now' = now + 1
          /\ UNCHANGED <<events, pc, watchSince, wakeAt, stream, conns,
                         started, reports, ignored>>
      BY <1>1 DEF Tick, TypeOK
    <2>2. TypeOK'
      BY <2>1 DEF TypeOK
    <2>3. ClockInv'
      BY <2>1, WatcherAssumption DEF ClockInv, TypeOK
    <2>4. CutoffInv'
      BY <2>1 DEF CutoffInv, TypeOK
    <2>5. NotificationInv' /\ OldEventsNotReported'
      BY <2>1 DEF NotificationInv, Truthful, OldEventsNotReported
    <2>6. QED
      BY <2>2, <2>3, <2>4, <2>5
  <1>2. ASSUME NEW e \in Events, Occur(e)
        PROVE  WatcherInv'
    BY <1>2, OccurStep
  <1>3. CASE Start
    <2>1. UNCHANGED <<now, events, stream, conns, reports, ignored>>
          /\ pc = "start" /\ pc' = "sleeping" /\ started' = now /\ wakeAt' = now
          /\ watchSince' = IF Historical THEN 0 ELSE now
      BY <1>3 DEF Start
    <2>2. TypeOK'
      BY <2>1 DEF TypeOK
    <2>3. ClockInv' /\ NotificationInv'
      BY <2>1 DEF ClockInv, NotificationInv, Truthful
    <2>4. CutoffInv'
      <3>1. now \in Nat /\ now # 0
        BY WatcherAssumption DEF TypeOK, ClockInv
      <3>2. QED
        BY <2>1, <3>1 DEF CutoffInv
    <2>5. OldEventsNotReported'
      BY <2>1 DEF CutoffInv, OldEventsNotReported
    <2>6. QED
      BY <2>2, <2>3, <2>4, <2>5
  <1>4. CASE Connect \/ Reconnect
    <2>1. UNCHANGED <<now, events, watchSince, wakeAt, started, reports,
                      ignored>>
          /\ conns < MaxConns /\ conns' = conns + 1
          /\ stream' = Existing /\ pc # "start" /\ pc' = "watching"
      BY <1>4 DEF Connect, Reconnect, TypeOK
    <2>2. TypeOK'
      <3>1. stream' \subseteq Notifications
        BY <2>1, ExistingIsTruthful
      <3>2. conns' \in 0..MaxConns
        BY <2>1, WatcherAssumption DEF TypeOK
      <3>3. QED
        BY <2>1, <3>1, <3>2 DEF TypeOK
    <2>3. NotificationInv'
      BY <2>1, ExistingIsTruthful DEF NotificationInv, Truthful
    <2>4. ClockInv' /\ CutoffInv' /\ OldEventsNotReported'
      BY <2>1 DEF ClockInv, CutoffInv, OldEventsNotReported
    <2>5. QED
      BY <2>2, <2>3, <2>4
  <1>5. CASE CloseChannel
    BY <1>5 DEF CloseChannel, TypeOK, ClockInv, NotificationInv, Truthful,
                CutoffInv, OldEventsNotReported
  <1>6. CASE Again
    <2>1. UNCHANGED <<now, events, stream, conns, started, reports, ignored>>
          /\ pc # "start" /\ pc' = "sleeping"
          /\ watchSince' = now /\ wakeAt' = now + Second
      BY <1>6 DEF Again
    <2>2. TypeOK'
      BY <2>1, WatcherAssumption DEF TypeOK
    <2>3. CutoffInv'
      BY <2>1, WatcherAssumption DEF CutoffInv, TypeOK, ClockInv
    <2>4. ClockInv' /\ NotificationInv' /\ OldEventsNotReported'
      BY <2>1 DEF ClockInv, NotificationInv, Truthful, OldEventsNotReported
    <2>5. QED
      BY <2>2, <2>3, <2>4
  <1>7. CASE Handle
    BY <1>7, HandleStep DEF Handle
  <1>8. CASE UNCHANGED vars
    BY <1>8 DEF vars, TypeOK, ClockInv, NotificationInv, Truthful, CutoffInv,
                OldEventsNotReported
  <1>9. QED
    BY <1>1, <1>2, <1>3, <1>4, <1>5, <1>6, <1>7, <1>8 DEF Next

LEMMA WatcherInvariant == Spec => []WatcherInv
  <1>1. Init => WatcherInv
    BY WatcherAssumption DEF Init, WatcherInv, TypeOK, ClockInv, NotificationInv,
                             CutoffInv, OldEventsNotReported
  <1>2. QED
    BY <1>1, WatcherInvStep, PTL DEF Spec

(* Every state of the watcher is well-typed: the connections stay within   *)
(* their bound, a timestamp is a time.                                     *)
THEOREM WatcherTypeCorrect == Spec => []TypeOK
  <1>1. WatcherInv => TypeOK
    BY DEF WatcherInv
  <1>2. QED
    BY <1>1, WatcherInvariant, PTL

(* Nothing that happened before the agent started is reported, however     *)
(* often the existing events are replayed, with any precision of the clock *)
(* (watchSince in watchEventsInNamespaceForever), unless its event has no  *)
(* timestamp, which handleWatchEvent never finds too old.                  *)
THEOREM OldEventsStayOut == Spec => []OldEventsNotReported
  <1>1. WatcherInv => OldEventsNotReported
    BY DEF WatcherInv
  <1>2. QED
    BY <1>1, WatcherInvariant, PTL

(* What handleWatchEvent drops as too old has a timestamp, and happened    *)
(* less than a second after the cutoff at most, if its LastTimestamp is    *)
(* what is compared.                                                       *)
THEOREM DropsAreRecent == Spec => DropsAreWithinASecond
  <1> DEFINE Drops == \A n \in ignored' \ ignored :
                        /\ Stamp[n.event] = "last" => n.at < watchSince + Second
                        /\ Stamp[n.event] # "none"
  <1>1. WatcherInv /\ [Next]_vars => [Drops]_vars
    <2> SUFFICES ASSUME WatcherInv, Next
                 PROVE  Drops
      OBVIOUS
    <2>1. CASE Handle
      <3>1. PICK n \in stream : HandleWatchEvent(n)
        BY <2>1 DEF Handle
      <3>2. ASSUME NEW m \in ignored' \ ignored
            PROVE  m = n /\ TooOld(n.ts)
        BY <3>1 DEF HandleWatchEvent
      <3>3. ASSUME NEW m \in ignored' \ ignored
            PROVE  Stamp[m.event] # "none"
        <4>1. m = n /\ n.ts # 0
          BY <3>2 DEF TooOld
        <4>2. QED
          BY <4>1 DEF WatcherInv, NotificationInv, Truthful
      <3>4. ASSUME NEW m \in ignored' \ ignored, Stamp[m.event] = "last"
            PROVE  m.at < watchSince + Second
        <4>1. m = n /\ TooOld(n.ts)
          BY <3>2
        <4>2. n.ts < watchSince /\ n.at < n.ts + Second
          BY <3>4, <4>1 DEF TooOld, WatcherInv, NotificationInv, Truthful
        <4>3. /\ n.ts \in Nat /\ n.at \in Nat /\ watchSince \in Nat
              /\ Second \in Nat
          BY WatcherAssumption DEF WatcherInv, TypeOK, Notifications
        <4>4. QED
          BY <4>1, <4>2, <4>3
      <3>5. QED
        BY <3>3, <3>4
    <2>2. CASE ~Handle
      BY <2>2 DEF Next, Tick, Occur, Start, Connect, Reconnect, CloseChannel, Again
    <2>3. QED
      BY <2>1, <2>2
  <1>2. QED
    BY <1>1, WatcherInvariant, PTL DEF Spec, DropsAreWithinASecond
=============================================================================
