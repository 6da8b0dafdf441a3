-------------------------- MODULE PodWatcherProofs --------------------------
(***************************************************************************)
(* What PodWatcher reports, for any Pods and containers, and any number of *)
(* runs, revisions and connections.                                        *)
(***************************************************************************)
EXTENDS PodWatcher, FiniteSetTheorems, SequenceTheorems, TLAPS

Notices == {Notice(type, p, r, d, st) :
               type \in {"Added", "Modified", "Deleted"}, p \in Pods,
               r \in 1..MaxRevs, d \in BOOLEAN, st \in [Containers -> RunState]}

Showings == [sight : Sights, deleting : BOOLEAN, replayed : BOOLEAN]

(* There is a stream, and something shown, on an open connection only. *)
StreamInv ==
    /\ stream \in Seq(Notices)
    /\ pc # "watching" => stream = << >> /\ shown = {}
    /\ pc = "watching" => conns # 0
    /\ \A p \in Pods : life[p] = "absent" <=> rev[p] = 0

PodsOK == TypeOK /\ StreamInv

(* The run failed, before the deletion of its Pod or at all. *)
FailedInTime(c, run) ==
    [container |-> c, run |-> run, deleting |-> FALSE] \in failures

IsRecorded(c, st) ==
    st.state = "failed" =>
        \E d \in BOOLEAN :
            [container |-> c, run |-> st.run, deleting |-> d] \in failures

(* As long as a Pod is not being deleted, its failures are all in time.    *)
FailureInv ==
    /\ \A c \in Containers : IsRecorded(c, container[c]) /\ IsRecorded(c, status[c])
    /\ \A f \in failures :
          f.deleting => life[PodOf[f.container]] \in {"deleting", "gone"}
    /\ \A k \in 1..Len(stream) : ~Skipped(stream[k]) =>
          \A c \in Failed(stream[k]) : FailedInTime(c, stream[k].statuses[c].run)
    /\ ReportsAreFailures

(* Modifications come in the order of their revisions, each once. *)
RevisionInv ==
    /\ \A x \in reports : x.rev <= rev[PodOf[x.container]]
    /\ \A k \in 1..Len(stream) : ~Skipped(stream[k]) =>
          /\ stream[k].rev <= rev[stream[k].pod]
          /\ \A x \in reports :
                PodOf[x.container] = stream[k].pod => x.rev < stream[k].rev
          /\ \A j \in 1..(k - 1) :
                ~Skipped(stream[j]) /\ stream[j].pod = stream[k].pod
                   => stream[j].rev < stream[k].rev
    /\ OncePerModification

(* What is shown as news and not reported is a failure of a notification   *)
(* to come, which will not be skipped.                                     *)
Waiting(x) ==
    \E k \in 1..Len(stream) :
        /\ ~Skipped(stream[k])
        /\ x.container \in Failed(stream[k])
        /\ x = Sight(stream[k], x.container, conns)

ShownInv == \A x \in shown : IsNews(x) => x.sight \in reports \/ Waiting(x.sight)

(* Nothing has happened to a Pod that is still to be created: the Added    *)
(* notification of its creation shows no failure.                          *)
AbsentInv ==
    \A c \in Containers :
        life[PodOf[c]] = "absent" => container[c].state = "up" /\ status[c].state = "up"

PodInv == PodsOK /\ FailureInv /\ RevisionInv /\ ShownInv /\ AbsentInv

----------------------------------------------------------------------------
(* Notifications. *)
LEMMA NoticeFields ==
    ASSUME NEW n \in Notices
    PROVE  /\ n.type \in {"Added", "Modified", "Deleted"}
           /\ n.pod \in Pods /\ n.rev \in 1..MaxRevs /\ n.deleting \in BOOLEAN
           /\ n.statuses \in [ContainersOf(n.pod) -> RunState]
           /\ Failed(n) \subseteq ContainersOf(n.pod)
  <1>1. PICK type \in {"Added", "Modified", "Deleted"}, p \in Pods,
             r \in 1..MaxRevs, d \in BOOLEAN, st \in [Containers -> RunState] :
                 n = Notice(type, p, r, d, st)
    BY DEF Notices
  <1>2. \A c \in ContainersOf(p) : st[c] \in RunState
    BY DEF ContainersOf
  <1>3. QED
    BY <1>1, <1>2 DEF Notice, Failed

LEMMA NoticeOf ==
    ASSUME NEW type \in {"Added", "Modified", "Deleted"}, NEW p \in Pods,
           NEW r \in 1..MaxRevs, NEW d \in BOOLEAN,
           NEW st \in [Containers -> RunState],
           NEW n, n = Notice(type, p, r, d, st)
    PROVE  /\ n \in Notices
           /\ n.type = type /\ n.pod = p /\ n.rev = r /\ n.deleting = d
           /\ DOMAIN n.statuses = ContainersOf(p)
           /\ \A c \in ContainersOf(p) : n.statuses[c] = st[c]
  <1>1. n \in Notices
    BY DEF Notices
  <1>2. n = [type |-> type, pod |-> p, rev |-> r, deleting |-> d,
             statuses |-> [c \in ContainersOf(p) |-> st[c]]]
    BY DEF Notice
  <1>3. QED
    BY <1>1, <1>2

LEMMA ToldTypes ==
    ASSUME NEW n \in Notices, NEW conn \in 1..MaxConns, NEW replayed \in BOOLEAN
    PROVE  Told(n, conn, replayed) \subseteq Showings
  <1> SUFFICES ASSUME NEW c \in Failed(n)
               PROVE  /\ Sight(n, c, conn) \in Sights
                      /\ n.deleting \in BOOLEAN
    BY DEF Told, Showings
  <1>1. n.statuses[c].run \in 1..MaxRuns /\ c \in Containers
    BY NoticeFields DEF RunState, ContainersOf
  <1>2. n.rev \in 1..MaxRevs /\ n.deleting \in BOOLEAN
    BY NoticeFields
  <1>3. QED
    BY <1>1, <1>2 DEF Sight, Sights

(* A finite set, written as a sequence. *)
LEMMA SetToSeqIsSeq ==
    ASSUME NEW S, IsFiniteSet(S)
    PROVE  SetToSeq(S) \in Seq(S)
  <1> DEFINE n == Cardinality(S)
  <1>1. n \in Nat /\ ExistsBijection(1..n, S)
    BY FS_CardinalityType
  <1>2. \E f \in [1..n -> S] : IsInjective(f)
    BY <1>1, Zenon DEF ExistsBijection, Bijection, Injection
  <1>3. SetToSeq(S) \in [1..n -> S]
    BY <1>2 DEF SetToSeq
  <1>4. QED
    BY <1>1, <1>3

(* A connection begins with notifications that are skipped. *)
LEMMA ReplayIsSkipped ==
    ASSUME PodsOK, NEW s, s = SetToSeq(Existing)
    PROVE  /\ s \in Seq(Notices) /\ \A k \in 1..Len(s) : Skipped(s[k])
           /\ Existing \subseteq Notices
  <1> DEFINE Q == {q \in Pods : life[q] \in {"present", "deleting"}}
             f == [p \in Q |-> Notice("Added", p, rev[p], life[p] = "deleting", status)]
  <1>1. IsFiniteSet(Q)
    BY PodsAssumption, FS_Subset
  <1>2. \A p \in Q : f[p] \in Notices /\ f[p].type = "Added"
    <2> SUFFICES ASSUME NEW p \in Q
                 PROVE  f[p] \in Notices /\ f[p].type = "Added"
      OBVIOUS
    <2>1. rev[p] \in 1..MaxRevs /\ status \in [Containers -> RunState]
      BY PodsAssumption DEF PodsOK, StreamInv, TypeOK
    <2>2. PICK d \in BOOLEAN : d = (life[p] = "deleting")
      OBVIOUS
    <2>3. f[p] = Notice("Added", p, rev[p], d, status)
      BY <2>2
    <2> HIDE DEF f
    <2>4. QED
      BY <2>1, <2>3, NoticeOf
  <1>3. Existing = {f[p] : p \in Q}
    BY DEF Existing
  <1>4. f \in Surjection(Q, Existing)
    BY <1>3 DEF Surjection
  <1>5. IsFiniteSet(Existing)
    BY <1>1, <1>4, FS_Surjection
  <1>6. s \in Seq(Existing)
    BY <1>5, SetToSeqIsSeq
  <1>7. \A k \in 1..Len(s) : s[k] \in Existing
    BY <1>6, ElementOfSeq
  <1>8. Existing \subseteq Notices /\ \A n \in Existing : n.type = "Added"
    BY <1>2, <1>3
  <1>9. s \in Seq(Notices)
    BY <1>6, <1>8
  <1>10. QED
    BY <1>7, <1>8, <1>9 DEF Skipped

(* What the server sends comes last. *)
LEMMA SentLast ==
    ASSUME PodsOK, NEW n \in Notices, Send(n)
    PROVE  /\ stream' \in Seq(Notices)
           /\ \A k \in 1..Len(stream) :
                 k \in 1..Len(stream') /\ stream'[k] = stream[k]
           /\ \A k \in 1..Len(stream') :
                 \/ k \in 1..Len(stream)
                 \/ k = Len(stream) + 1 /\ stream'[k] = n
           /\ pc = "watching" =>
                 Len(stream) + 1 \in 1..Len(stream') /\ stream'[Len(stream) + 1] = n
  <1>1. stream \in Seq(Notices) /\ Len(stream) \in Nat
    BY LenProperties DEF PodsOK, StreamInv
  <1>2. CASE pc = "watching"
    <2>1. /\ Append(stream, n) \in Seq(Notices)
          /\ Len(Append(stream, n)) = Len(stream) + 1
          /\ \A k \in 1..Len(stream) : Append(stream, n)[k] = stream[k]
          /\ Append(stream, n)[Len(stream) + 1] = n
      BY <1>1, AppendProperties
    <2>2. stream' = Append(stream, n)
      BY <1>2 DEF Send
    <2>3. QED
      BY <1>1, <2>1, <2>2
  <1>3. CASE pc # "watching"
    BY <1>1, <1>3 DEF Send
  <1>4. QED
    BY <1>2, <1>3

(* What the watcher handled is gone, and the rest moves up. *)
LEMMA HeadIsHandled ==
    ASSUME PodsOK, HandlePodWatchEvent
    PROVE  /\ Head(stream) = stream[1] /\ stream[1] \in Notices
           /\ Len(stream) \in Nat \ {0}
           /\ stream' \in Seq(Notices) /\ Len(stream') = Len(stream) - 1
           /\ \A k \in 1..Len(stream') :
                 k + 1 \in 1..Len(stream) /\ stream'[k] = stream[k + 1]
  <1>1. stream \in Seq(Notices) /\ stream # << >> /\ stream' = Tail(stream)
    BY DEF PodsOK, StreamInv, HandlePodWatchEvent
  <1>2. Len(stream) \in Nat \ {0}
    BY <1>1, LenProperties, EmptySeq
  <1>3. /\ stream' \in Seq(Notices) /\ Len(stream') = Len(stream) - 1
        /\ \A k \in 1..Len(stream') : stream'[k] = stream[k + 1]
    BY <1>1, HeadTailProperties
  <1>4. stream[1] \in Notices
    BY <1>1, <1>2, ElementOfSeq
  <1>5. Head(stream) = stream[1]
    BY <1>1
  <1>6. \A k \in 1..(Len(stream) - 1) : k + 1 \in 1..Len(stream)
    BY <1>2
  <1>7. QED
    BY <1>2, <1>3, <1>4, <1>5, <1>6

LEMMA AreNotices ==
    ASSUME NEW s \in Seq(Notices)
    PROVE  \A k \in 1..Len(s) : IsNotice(s[k])
  <1> SUFFICES ASSUME NEW k \in 1..Len(s) PROVE IsNotice(s[k])
    OBVIOUS
  <1>1. s[k] \in Notices
    BY ElementOfSeq
  <1>2. QED
    BY <1>1, NoticeFields DEF IsNotice

----------------------------------------------------------------------------
(* The API server. *)
LEMMA SendTypes ==
    ASSUME PodsOK, NEW n \in Notices, Send(n)
    PROVE  /\ stream' \in Seq(Notices) /\ shown' \subseteq Showings
           /\ \A k \in 1..Len(stream') : IsNotice(stream'[k])
           /\ pc # "watching" => stream' = << >> /\ shown' = {}
  <1>1. stream' \in Seq(Notices)
    BY SentLast
  <1>2. \A k \in 1..Len(stream') : IsNotice(stream'[k])
    BY <1>1, AreNotices
  <1>3. pc # "watching" => stream' = << >> /\ shown' = {}
    BY DEF PodsOK, StreamInv, Send
  <1>4. shown' \subseteq Showings
    <2>1. shown \subseteq Showings
      BY DEF PodsOK, TypeOK, Showings
    <2>2. CASE pc = "watching"
      <3>1. conns \in 1..MaxConns
        BY <2>2, PodsAssumption DEF PodsOK, StreamInv, TypeOK
      <3>2. Told(n, conns, FALSE) \subseteq Showings
        BY <3>1, ToldTypes
      <3>3. QED
        BY <2>1, <2>2, <3>2 DEF Send
    <2>3. QED
      BY <2>1, <2>2 DEF Send
  <1>5. QED
    BY <1>1, <1>2, <1>3, <1>4

(* A step of the server that sends n, which is a new revision unless it is *)
(* skipped.                                                                *)
SendsNews(n) ==
    /\ Send(n)
    /\ UNCHANGED <<container, failures, watcher>>
    /\ \A c \in Containers : IsRecorded(c, status'[c])
    /\ \A p \in Pods : rev[p] <= rev'[p] /\ rev'[p] \in Nat
    /\ \A p \in Pods : life[p] \in {"deleting", "gone"}
                          => life'[p] \in {"deleting", "gone"}
    /\ \A c \in Containers : life'[PodOf[c]] = "absent"
                               => life[PodOf[c]] = "absent" /\ status'[c] = status[c]
    /\ n.type # "Modified" /\ ~n.deleting => Failed(n) = {}
    /\ ~Skipped(n) => /\ \A c \in Failed(n) : FailedInTime(c, n.statuses[c].run)
                      /\ rev[n.pod] < n.rev /\ n.rev <= rev'[n.pod]

LEMMA SendFailures ==
    ASSUME PodInv, NEW n \in Notices, SendsNews(n)
    PROVE  FailureInv'
  <1>1. /\ \A c \in Containers : IsRecorded(c, container[c]) /\ IsRecorded(c, status'[c])
        /\ container' = container /\ failures' = failures /\ reports' = reports
    BY DEF PodInv, FailureInv, SendsNews, watcher
  <1>2. \A c \in Containers : IsRecorded(c, container[c])' /\ IsRecorded(c, status[c])'
    BY <1>1 DEF IsRecorded
  <1>3. \A f \in failures : PodOf[f.container] \in Pods
    BY PodsAssumption DEF PodInv, PodsOK, TypeOK
  <1>4. (\A f \in failures :
            f.deleting => life[PodOf[f.container]] \in {"deleting", "gone"})'
    BY <1>1, <1>3 DEF PodInv, FailureInv, SendsNews
  <1>5. (\A k \in 1..Len(stream) : ~Skipped(stream[k]) =>
            \A c \in Failed(stream[k]) : FailedInTime(c, stream[k].statuses[c].run))'
    <2> SUFFICES ASSUME NEW k \in 1..Len(stream'), ~Skipped(stream'[k]),
                        NEW c \in Failed(stream'[k])
                 PROVE  FailedInTime(c, stream'[k].statuses[c].run)
      BY <1>1 DEF FailedInTime, Failed, Skipped
    <2>1. CASE k \in 1..Len(stream)
      <3>1. stream'[k] = stream[k]
        BY <2>1, SentLast DEF PodInv, SendsNews
      <3>2. QED
        BY <2>1, <3>1 DEF PodInv, FailureInv
    <2>2. CASE stream'[k] = n
      BY <2>2 DEF SendsNews
    <2>3. QED
      BY <2>1, <2>2, SentLast DEF PodInv, SendsNews
  <1>6. ReportsAreFailures'
    BY <1>1 DEF PodInv, FailureInv, ReportsAreFailures
  <1>7. QED
    BY <1>2, <1>4, <1>5, <1>6 DEF FailureInv

LEMMA SendRevisions ==
    ASSUME PodInv, NEW n \in Notices, SendsNews(n)
    PROVE  RevisionInv'
  <1>1. reports' = reports /\ \A x \in reports : PodOf[x.container] \in Pods /\ x.rev \in Nat
    BY PodsAssumption DEF PodInv, PodsOK, TypeOK, Sights, SendsNews, watcher
  <1>2. \A p \in Pods : rev[p] \in Nat /\ rev'[p] \in Nat /\ rev[p] <= rev'[p]
    BY DEF PodInv, PodsOK, TypeOK, SendsNews
  <1>3. \A x \in reports' : x.rev <= rev'[PodOf[x.container]]
    <2>1. \A x \in reports : x.rev <= rev[PodOf[x.container]]
      BY DEF PodInv, RevisionInv
    <2>2. QED
      BY <1>1, <1>2, <2>1
  <1>4. ASSUME NEW k \in 1..Len(stream'), ~Skipped(stream'[k])
        PROVE  /\ stream'[k].rev <= rev'[stream'[k].pod]
               /\ \A x \in reports' :
                     PodOf[x.container] = stream'[k].pod => x.rev < stream'[k].rev
               /\ \A j \in 1..(k - 1) :
                     ~Skipped(stream'[j]) /\ stream'[j].pod = stream'[k].pod
                        => stream'[j].rev < stream'[k].rev
    <2>1. /\ \A i \in 1..Len(stream) : stream[i] \in Notices /\ stream'[i] = stream[i]
          /\ Len(stream) \in Nat
      BY SentLast, LenProperties, ElementOfSeq
         DEF PodInv, PodsOK, StreamInv, SendsNews
    <2>2. \A m \in Notices : m.pod \in Pods /\ m.rev \in Nat
      BY NoticeFields
    <2>3. CASE k \in 1..Len(stream)
      <3>1. /\ stream[k].rev <= rev[stream[k].pod]
            /\ \A x \in reports :
                  PodOf[x.container] = stream[k].pod => x.rev < stream[k].rev
            /\ \A j \in 1..(k - 1) :
                  ~Skipped(stream[j]) /\ stream[j].pod = stream[k].pod
                     => stream[j].rev < stream[k].rev
        BY <1>4, <2>1, <2>3 DEF PodInv, RevisionInv
      <3>2. \A j \in 1..(k - 1) : stream'[j] = stream[j]
        BY <2>1, <2>3
      <3>3. stream[k].pod \in Pods /\ stream[k].rev \in Nat
        BY <2>1, <2>2, <2>3
      <3>4. stream[k].rev <= rev'[stream[k].pod]
        BY <1>2, <3>1, <3>3
      <3>5. QED
        BY <1>1, <2>1, <2>3, <3>1, <3>2, <3>4
    <2>4. CASE k = Len(stream) + 1 /\ stream'[k] = n
      <3>1. rev[n.pod] < n.rev /\ n.rev <= rev'[n.pod]
        BY <1>4, <2>4 DEF SendsNews
      <3>2. n.pod \in Pods /\ n.rev \in Nat
        BY <2>2
      <3>3. \A x \in reports : PodOf[x.container] = n.pod => x.rev < n.rev
        <4>1. \A x \in reports : x.rev <= rev[PodOf[x.container]]
          BY DEF PodInv, RevisionInv
        <4>2. QED
          BY <1>1, <1>2, <3>1, <3>2, <4>1
      <3>4. ASSUME NEW j \in 1..(k - 1), ~Skipped(stream'[j]), stream'[j].pod = n.pod
            PROVE  stream'[j].rev < n.rev
        <4>1. j \in 1..Len(stream) /\ stream'[j] = stream[j] /\ stream[j] \in Notices
          BY <2>1, <2>4
        <4>2. stream[j].rev <= rev[n.pod]
          BY <3>4, <4>1 DEF PodInv, RevisionInv
        <4>3. QED
          BY <1>2, <2>2, <3>1, <3>2, <4>1, <4>2
      <3>5. QED
        BY <1>1, <2>4, <3>1, <3>3, <3>4
    <2>5. QED
      BY <2>3, <2>4, SentLast DEF PodInv, SendsNews
  <1>5. OncePerModification'
    BY <1>1 DEF PodInv, RevisionInv, OncePerModification
  <1>6. QED
    BY <1>3, <1>4, <1>5 DEF RevisionInv, Skipped

LEMMA SendShown ==
    ASSUME PodInv, NEW n \in Notices, SendsNews(n)
    PROVE  ShownInv'
  <1>1. reports' = reports /\ conns' = conns /\ pc' = pc /\ Send(n)
    BY DEF SendsNews, watcher
  <1> SUFFICES ASSUME NEW x \in shown', IsNews(x)
               PROVE  \/ x.sight \in reports
                      \/ \E k \in 1..Len(stream') :
                            /\ ~Skipped(stream'[k])
                            /\ x.sight.container \in Failed(stream'[k])
                            /\ x.sight = Sight(stream'[k], x.sight.container, conns)
    BY <1>1 DEF ShownInv, Waiting, IsNews, Skipped, Failed, Sight
  <1>2. CASE x \in shown
    <2>1. \A k \in 1..Len(stream) : k \in 1..Len(stream') /\ stream'[k] = stream[k]
      BY <1>1, SentLast DEF PodInv
    <2>2. QED
      BY <1>2, <2>1 DEF PodInv, ShownInv, Waiting
  <1>3. CASE x \notin shown
    <2>1. pc = "watching" /\ x \in Told(n, conns, FALSE)
      BY <1>1, <1>3 DEF Send
    <2>2. PICK c \in Failed(n) : x = [sight |-> Sight(n, c, conns),
                                     deleting |-> n.deleting, replayed |-> FALSE]
      BY <2>1 DEF Told
    <2>3. x.sight = Sight(n, c, conns) /\ ~n.deleting
      BY <2>2 DEF IsNews
    <2>4. x.sight.container = c
      BY <2>3 DEF Sight
    <2>5. ~Skipped(n)
      BY <2>2, <2>3 DEF SendsNews, Skipped
    <2>6. Len(stream) + 1 \in 1..Len(stream') /\ stream'[Len(stream) + 1] = n
      BY <1>1, <2>1, SentLast DEF PodInv
    <2>7. QED
      BY <2>2, <2>3, <2>4, <2>5, <2>6
  <1>4. QED
    BY <1>2, <1>3

LEMMA SendStep ==
    ASSUME PodInv, NEW n \in Notices, SendsNews(n), PodsOK'
    PROVE  PodInv'
  <1>1. AbsentInv'
    BY DEF PodInv, AbsentInv, SendsNews
  <1>2. QED
    BY <1>1, SendFailures, SendRevisions, SendShown DEF PodInv

LEMMA CreatePodStep ==
    ASSUME PodInv, NEW p \in Pods, CreatePod(p)
    PROVE  PodInv'
  <1> DEFINE n == Notice("Added", p, 1, FALSE, status)
  <1>1. /\ n \in Notices /\ n.type = "Added" /\ DOMAIN n.statuses = ContainersOf(p)
        /\ \A c \in ContainersOf(p) : n.statuses[c] = status[c]
    <2>1. 1 \in 1..MaxRevs /\ status \in [Containers -> RunState]
      BY PodsAssumption DEF PodInv, PodsOK, TypeOK
    <2>2. PICK d \in BOOLEAN : d = FALSE
      OBVIOUS
    <2>3. n = Notice("Added", p, 1, d, status)
      BY <2>2
    <2> HIDE DEF n
    <2>4. QED
      BY <2>1, <2>3, NoticeOf
  <1> HIDE DEF n
  <1>2. PodsOK'
    <2>1. /\ stream' \in Seq(Notices) /\ shown' \subseteq Showings
          /\ \A k \in 1..Len(stream') : IsNotice(stream'[k])
          /\ pc # "watching" => stream' = << >> /\ shown' = {}
      <3>1. Send(n)
        BY DEF n, CreatePod
      <3>2. QED
        BY <1>1, <3>1, SendTypes DEF PodInv
    <2>2. TypeOK'
      BY <2>1, PodsAssumption DEF PodInv, PodsOK, TypeOK, CreatePod, Showings, watcher
    <2>3. StreamInv'
      BY <2>1 DEF PodInv, PodsOK, TypeOK, StreamInv, CreatePod, watcher
    <2>4. QED
      BY <2>2, <2>3 DEF PodsOK
  <1>3. SendsNews(n)
    <2>1. /\ Send(n) /\ rev' = [rev EXCEPT ![p] = 1] /\ rev[p] = 0
          /\ life' = [life EXCEPT ![p] = "present"] /\ life[p] = "absent"
          /\ UNCHANGED <<container, status, failures, watcher>>
      BY DEF n, PodInv, PodsOK, StreamInv, CreatePod
    <2>2. Failed(n) = {}
      <3>1. \A c \in ContainersOf(p) : status[c].state = "up"
        BY <2>1 DEF PodInv, AbsentInv, ContainersOf
      <3>2. QED
        BY <1>1, <3>1 DEF Failed
    <2>3. \A c \in Containers : PodOf[c] \in Pods
      BY PodsAssumption
    <2>4. QED
      BY <1>1, <2>1, <2>2, <2>3 DEF PodInv, PodsOK, TypeOK, FailureInv, SendsNews, Skipped
  <1>4. QED
    BY <1>1, <1>2, <1>3, SendStep

(* Only a run that failed in time is in a notification that is not skipped. *)
LEMMA RecordedInTime ==
    ASSUME PodInv, NEW c \in Containers, NEW st \in RunState,
           IsRecorded(c, st), st.state = "failed",
           life[PodOf[c]] = "present"
    PROVE  FailedInTime(c, st.run)
  <1>1. PICK d \in BOOLEAN :
            [container |-> c, run |-> st.run, deleting |-> d] \in failures
    BY DEF IsRecorded
  <1>2. d = FALSE
    BY <1>1 DEF PodInv, FailureInv
  <1>3. QED
    BY <1>1, <1>2 DEF FailedInTime

LEMMA ModifyPodStep ==
    ASSUME PodInv, NEW p \in Pods, NEW st \in [Containers -> RunState],
           \A c \in Containers : IsRecorded(c, st[c]), ModifyPod(p, st),
           \A c \in Containers : PodOf[c] # p => st[c] = status[c]
    PROVE  PodInv'
  <1>1. PICK d \in BOOLEAN : d = (life[p] = "deleting")
    OBVIOUS
  <1>2. /\ rev[p] \in Nat /\ rev[p] + 1 \in 1..MaxRevs /\ rev' = [rev EXCEPT ![p] = @ + 1]
        /\ rev[p] + 1 # 0 /\ life[p] # "absent"
        /\ UNCHANGED <<life, container, failures, watcher>> /\ status' = st
    BY PodsAssumption DEF PodInv, PodsOK, TypeOK, ModifyPod
  <1> DEFINE n == Notice("Modified", p, rev[p] + 1, d, st)
  <1>3. /\ n \in Notices /\ n.type = "Modified" /\ n.pod = p
        /\ n.rev = rev[p] + 1 /\ n.deleting = d
        /\ DOMAIN n.statuses = ContainersOf(p)
        /\ \A c \in ContainersOf(p) : n.statuses[c] = st[c]
    BY <1>2, NoticeOf
  <1>4. Send(n)
    BY <1>1 DEF ModifyPod
  <1> HIDE DEF n
  <1>5. PodsOK'
    <2>1. /\ stream' \in Seq(Notices) /\ shown' \subseteq Showings
          /\ \A k \in 1..Len(stream') : IsNotice(stream'[k])
          /\ pc # "watching" => stream' = << >> /\ shown' = {}
      BY <1>3, <1>4, SendTypes DEF PodInv
    <2>2. TypeOK'
      BY <1>2, <2>1 DEF PodInv, PodsOK, TypeOK, Showings, watcher
    <2>3. StreamInv'
      BY <1>2, <2>1 DEF PodInv, PodsOK, TypeOK, StreamInv, watcher
    <2>4. QED
      BY <2>2, <2>3 DEF PodsOK
  <1>6. ASSUME ~Skipped(n)
        PROVE  \A c \in Failed(n) : FailedInTime(c, n.statuses[c].run)
    <2>1. life[p] = "present"
      BY <1>1, <1>3, <1>6 DEF Skipped, ModifyPod
    <2>2. \A c \in Failed(n) : /\ c \in Containers /\ PodOf[c] = p
                               /\ st[c].state = "failed" /\ n.statuses[c] = st[c]
      BY <1>3 DEF Failed, ContainersOf
    <2>3. QED
      BY <2>1, <2>2, RecordedInTime
  <1>7. SendsNews(n)
    BY <1>2, <1>3, <1>4, <1>6 DEF PodInv, PodsOK, TypeOK, SendsNews
  <1>8. QED
    BY <1>3, <1>5, <1>7, SendStep

LEMMA PublishStatusStep ==
    ASSUME PodInv, NEW p \in Pods, PublishStatus(p) \/ OtherChange(p)
    PROVE  PodInv'
  <1>1. CASE PublishStatus(p)
    <2> DEFINE st == [c \in Containers |->
                        IF PodOf[c] = p THEN container[c] ELSE status[c]]
    <2>1. st \in [Containers -> RunState]
      BY DEF PodInv, PodsOK, TypeOK
    <2>2. \A c \in Containers : IsRecorded(c, st[c])
      BY DEF PodInv, FailureInv
    <2>3. \A c \in Containers : PodOf[c] # p => st[c] = status[c]
      OBVIOUS
    <2>4. QED
      BY <1>1, <2>1, <2>2, <2>3, ModifyPodStep DEF PublishStatus
  <1>2. CASE OtherChange(p)
    <2>1. status \in [Containers -> RunState] /\ \A c \in Containers : IsRecorded(c, status[c])
      BY DEF PodInv, PodsOK, TypeOK, FailureInv
    <2>2. QED
      BY <1>2, <2>1, ModifyPodStep DEF OtherChange
  <1>3. QED
    BY <1>1, <1>2

LEMMA RequestDeletionStep ==
    ASSUME PodInv, NEW p \in Pods, RequestDeletion(p)
    PROVE  PodInv'
  <1>1. /\ rev[p] \in Nat /\ rev[p] + 1 \in 1..MaxRevs /\ rev' = [rev EXCEPT ![p] = @ + 1]
        /\ life' = [life EXCEPT ![p] = "deleting"]
        /\ UNCHANGED <<container, status, failures, watcher>>
    BY PodsAssumption DEF PodInv, PodsOK, TypeOK, RequestDeletion
  <1> DEFINE n == Notice("Modified", p, rev[p] + 1, TRUE, status)
  <1>2. n \in Notices /\ n.deleting = TRUE
    <2>1. status \in [Containers -> RunState]
      BY DEF PodInv, PodsOK, TypeOK
    <2>2. PICK d \in BOOLEAN : d = TRUE
      OBVIOUS
    <2>3. n = Notice("Modified", p, rev[p] + 1, d, status)
      BY <2>2
    <2> HIDE DEF n
    <2>4. n \in Notices /\ n.deleting = d
      BY <1>1, <2>1, <2>3, NoticeOf
    <2>5. QED
      BY <2>2, <2>4, Zenon
  <1>3. Send(n)
    BY DEF RequestDeletion
  <1> HIDE DEF n
  <1>4. PodsOK'
    <2>1. /\ stream' \in Seq(Notices) /\ shown' \subseteq Showings
          /\ \A k \in 1..Len(stream') : IsNotice(stream'[k])
          /\ pc # "watching" => stream' = << >> /\ shown' = {}
      BY <1>2, <1>3, SendTypes DEF PodInv
    <2>2. TypeOK'
      BY <1>1, <2>1 DEF PodInv, PodsOK, TypeOK, Showings, watcher
    <2>3. StreamInv'
      BY <1>1, <2>1 DEF PodInv, PodsOK, TypeOK, StreamInv, watcher
    <2>4. QED
      BY <2>2, <2>3 DEF PodsOK
  <1>5. SendsNews(n)
    <2>1. \A c \in Containers : PodOf[c] \in Pods
      BY PodsAssumption
    <2>2. QED
      BY <1>1, <1>2, <1>3, <2>1
         DEF PodInv, PodsOK, TypeOK, FailureInv, SendsNews, Skipped
  <1>6. QED
    BY <1>2, <1>4, <1>5, SendStep

LEMMA RemovePodStep ==
    ASSUME PodInv, NEW p \in Pods, RemovePod(p)
    PROVE  PodInv'
  <1>1. /\ rev[p] \in 1..MaxRevs /\ life[p] = "deleting"
        /\ life' = [life EXCEPT ![p] = "gone"]
        /\ UNCHANGED <<rev, container, status, failures, watcher>>
    BY PodsAssumption DEF PodInv, PodsOK, StreamInv, TypeOK, RemovePod
  <1> DEFINE n == Notice("Deleted", p, rev[p], TRUE, status)
  <1>2. n \in Notices /\ n.deleting = TRUE
    <2>1. status \in [Containers -> RunState]
      BY DEF PodInv, PodsOK, TypeOK
    <2>2. PICK d \in BOOLEAN : d = TRUE
      OBVIOUS
    <2>3. n = Notice("Deleted", p, rev[p], d, status)
      BY <2>2
    <2> HIDE DEF n
    <2>4. n \in Notices /\ n.deleting = d
      BY <1>1, <2>1, <2>3, NoticeOf
    <2>5. QED
      BY <2>2, <2>4, Zenon
  <1>3. Send(n)
    BY DEF RemovePod
  <1> HIDE DEF n
  <1>4. PodsOK'
    <2>1. /\ stream' \in Seq(Notices) /\ shown' \subseteq Showings
          /\ \A k \in 1..Len(stream') : IsNotice(stream'[k])
          /\ pc # "watching" => stream' = << >> /\ shown' = {}
      BY <1>2, <1>3, SendTypes DEF PodInv
    <2>2. TypeOK'
      BY <1>1, <2>1 DEF PodInv, PodsOK, TypeOK, Showings, watcher
    <2>3. StreamInv'
      BY <1>1, <2>1 DEF PodInv, PodsOK, TypeOK, StreamInv, watcher
    <2>4. QED
      BY <2>2, <2>3 DEF PodsOK
  <1>5. SendsNews(n)
    <2>1. \A c \in Containers : PodOf[c] \in Pods
      BY PodsAssumption
    <2>2. QED
      BY <1>1, <1>2, <1>3, <2>1
         DEF PodInv, PodsOK, TypeOK, FailureInv, SendsNews, Skipped
  <1>6. QED
    BY <1>2, <1>4, <1>5, SendStep

----------------------------------------------------------------------------
(* The node. *)
LEMMA ExitsStep ==
    ASSUME PodInv, NEW c \in Containers, NEW state \in {"completed", "failed"},
           Exits(c, state)
    PROVE  PodInv'
  <1>1. /\ container' = [container EXCEPT ![c].state = state]
        /\ UNCHANGED <<life, rev, status, watcher, stream, shown>>
        /\ life[PodOf[c]] \in {"present", "deleting"}
    BY DEF Exits
  <1>2. PICK d \in BOOLEAN : d = (life[PodOf[c]] = "deleting")
    OBVIOUS
  <1> DEFINE f == [container |-> c, run |-> container[c].run, deleting |-> d]
  <1>3. /\ failures \subseteq failures'
        /\ failures' \subseteq failures \cup {f}
        /\ state = "failed" => f \in failures'
    BY <1>2 DEF Exits
  <1>4. container[c].run \in 1..MaxRuns /\ container' \in [Containers -> RunState]
    BY <1>1 DEF PodInv, PodsOK, TypeOK, RunState, States
  <1>5. PodsOK'
    <2>1. f \in [container : Containers, run : 1..MaxRuns, deleting : BOOLEAN]
      BY <1>2, <1>4
    <2>2. TypeOK'
      BY <1>1, <1>3, <1>4, <2>1 DEF PodInv, PodsOK, TypeOK, watcher
    <2>3. StreamInv'
      BY <1>1 DEF PodInv, PodsOK, StreamInv, watcher
    <2>4. QED
      BY <2>2, <2>3 DEF PodsOK
  <1>6. FailureInv'
    <2>1. \A x \in Containers : IsRecorded(x, container[x])'
      <3> SUFFICES ASSUME NEW x \in Containers PROVE IsRecorded(x, container[x])'
        OBVIOUS
      <3>1. CASE x = c
        <4>1. container'[c].run = container[c].run /\ container'[c].state = state
          BY <1>1, <1>4 DEF PodInv, PodsOK, TypeOK, RunState
        <4>2. QED
          BY <1>2, <1>3, <3>1, <4>1 DEF IsRecorded
      <3>2. CASE x # c
        <4>1. container'[x] = container[x] /\ IsRecorded(x, container[x])
          BY <1>1, <3>2 DEF PodInv, PodsOK, TypeOK, FailureInv
        <4>2. QED
          BY <1>3, <4>1 DEF IsRecorded
      <3>3. QED
        BY <3>1, <3>2
    <2>2. \A x \in Containers : IsRecorded(x, status[x])'
      BY <1>1, <1>3 DEF PodInv, FailureInv, IsRecorded
    <2>3. (\A g \in failures :
              g.deleting => life[PodOf[g.container]] \in {"deleting", "gone"})'
      <3>1. f.deleting => life[PodOf[f.container]] \in {"deleting", "gone"}
        BY <1>2
      <3>2. \A g \in failures :
              g.deleting => life[PodOf[g.container]] \in {"deleting", "gone"}
        BY DEF PodInv, FailureInv
      <3> HIDE DEF f
      <3>3. QED
        BY <1>1, <1>3, <3>1, <3>2
    <2>4. (\A k \in 1..Len(stream) : ~Skipped(stream[k]) =>
              \A x \in Failed(stream[k]) :
                  FailedInTime(x, stream[k].statuses[x].run))'
      BY <1>1, <1>3 DEF PodInv, FailureInv, FailedInTime, Failed, Skipped
    <2>5. ReportsAreFailures'
      BY <1>1, <1>3 DEF PodInv, FailureInv, ReportsAreFailures, watcher
    <2>6. QED
      BY <2>1, <2>2, <2>3, <2>4, <2>5 DEF FailureInv
  <1>7. RevisionInv' /\ ShownInv'
    BY <1>1 DEF PodInv, RevisionInv, OncePerModification, ShownInv, Waiting, IsNews,
                Skipped, Failed, Sight, watcher
  <1>8. AbsentInv'
    BY <1>1 DEF PodInv, PodsOK, TypeOK, AbsentInv
  <1>9. QED
    BY <1>5, <1>6, <1>7, <1>8 DEF PodInv

LEMMA RestartsStep ==
    ASSUME PodInv, NEW c \in Containers, Restarts(c)
    PROVE  PodInv'
  <1>1. /\ UNCHANGED <<life, rev, status, failures, watcher, stream, shown>>
        /\ container' = [container EXCEPT ![c] = [run |-> container[c].run + 1,
                                                  state |-> "up"]]
    BY DEF Restarts
  <1>2. container' \in [Containers -> RunState]
    <2>1. container[c].run + 1 \in 1..MaxRuns
      BY PodsAssumption DEF PodInv, PodsOK, TypeOK, RunState, Restarts
    <2>2. QED
      BY <1>1, <2>1 DEF PodInv, PodsOK, TypeOK, RunState, States
  <1>3. PodsOK'
    BY <1>1, <1>2 DEF PodInv, PodsOK, TypeOK, StreamInv, watcher
  <1>4. FailureInv'
    <2>1. \A x \in Containers : container'[x].state = "failed"
                                   => container'[x] = container[x]
      BY <1>1 DEF PodInv, PodsOK, TypeOK
    <2>2. \A x \in Containers : IsRecorded(x, container[x])' /\ IsRecorded(x, status[x])'
      BY <1>1, <2>1 DEF PodInv, FailureInv, IsRecorded
    <2>3. (\A k \in 1..Len(stream) : ~Skipped(stream[k]) =>
              \A x \in Failed(stream[k]) :
                  FailedInTime(x, stream[k].statuses[x].run))'
      BY <1>1 DEF PodInv, FailureInv, FailedInTime, Failed, Skipped
    <2>4. QED
      BY <1>1, <2>2, <2>3 DEF PodInv, FailureInv, ReportsAreFailures, watcher
  <1>5. RevisionInv' /\ ShownInv'
    BY <1>1 DEF PodInv, RevisionInv, OncePerModification, ShownInv, Waiting, IsNews,
                Skipped, Failed, Sight, watcher
  <1>6. AbsentInv'
    BY <1>1 DEF PodInv, PodsOK, TypeOK, AbsentInv, Restarts
  <1>7. QED
    BY <1>3, <1>4, <1>5, <1>6 DEF PodInv

----------------------------------------------------------------------------
(* The watcher.  A connection that begins or ends shows no news at first,  *)
(* and all that is in its stream is skipped.                               *)
LEMMA NewStreamStep ==
    ASSUME PodInv, NEW s \in Seq(Notices), \A k \in 1..Len(s) : Skipped(s[k]),
           stream' = s, UNCHANGED <<cluster, reports>>,
           shown' \subseteq Showings, \A x \in shown' : ~IsNews(x),
           pc' \in {"sleeping", "watching", "closed"}, conns' \in 0..MaxConns,
           pc' # "watching" => s = << >> /\ shown' = {}, pc' = "watching" => conns' # 0
    PROVE  PodInv'
  <1>1. PodsOK'
    <2>1. \A k \in 1..Len(stream') : IsNotice(stream'[k])
      BY AreNotices
    <2>2. TypeOK'
      BY <2>1 DEF PodInv, PodsOK, TypeOK, Showings, cluster
    <2>3. StreamInv'
      BY DEF PodInv, PodsOK, StreamInv, cluster
    <2>4. QED
      BY <2>2, <2>3 DEF PodsOK
  <1>2. FailureInv'
    <2>1. \A x \in Containers : IsRecorded(x, container[x])' /\ IsRecorded(x, status[x])'
      BY DEF PodInv, FailureInv, IsRecorded, cluster
    <2>2. ReportsAreFailures'
      BY DEF PodInv, FailureInv, ReportsAreFailures, cluster
    <2>3. (\A k \in 1..Len(stream) : Skipped(stream[k]))'
      BY DEF Skipped
    <2>4. QED
      BY <2>1, <2>2, <2>3 DEF PodInv, FailureInv, cluster
  <1>3. RevisionInv'
    <2>1. (\A k \in 1..Len(stream) : Skipped(stream[k]))'
      BY DEF Skipped
    <2>2. OncePerModification'
      BY DEF PodInv, RevisionInv, OncePerModification
    <2>3. QED
      BY <2>1, <2>2 DEF PodInv, RevisionInv, cluster
  <1>4. ShownInv'
    BY DEF ShownInv, IsNews
  <1>5. AbsentInv'
    BY DEF PodInv, AbsentInv, cluster
  <1>6. QED
    BY <1>1, <1>2, <1>3, <1>4, <1>5 DEF PodInv

LEMMA ConnectStep ==
    ASSUME PodInv, Connect \/ Reconnect \/ CloseChannel \/ Again
    PROVE  PodInv'
  <1>1. conns \in 0..MaxConns /\ MaxConns \in Nat
    BY PodsAssumption DEF PodInv, PodsOK, TypeOK
  <1>2. CASE Connect \/ Reconnect
    <2>1. /\ stream' = SetToSeq(Existing)
          /\ shown' = UNION {Told(n, conns + 1, TRUE) : n \in Existing}
          /\ UNCHANGED <<cluster, reports>>
          /\ pc' = "watching" /\ conns' = conns + 1 /\ conns < MaxConns
      BY <1>2 DEF Connect, Reconnect, OpenConnection
    <2>2. conns' \in 0..MaxConns /\ conns' # 0 /\ conns + 1 \in 1..MaxConns
      BY <1>1, <2>1
    <2>3. /\ stream' \in Seq(Notices) /\ \A k \in 1..Len(stream') : Skipped(stream'[k])
          /\ Existing \subseteq Notices
      BY <2>1, ReplayIsSkipped DEF PodInv
    <2>4. shown' \subseteq Showings
      <3> SUFFICES ASSUME NEW n \in Existing
                   PROVE  Told(n, conns + 1, TRUE) \subseteq Showings
        BY <2>1
      <3>1. QED
        BY <2>2, <2>3, ToldTypes
    <2>5. \A x \in shown' : ~IsNews(x)
      BY <2>1 DEF Told, IsNews
    <2>6. QED
      BY <2>1, <2>2, <2>3, <2>4, <2>5, NewStreamStep
  <1>3. CASE CloseChannel \/ Again
    <2>1. /\ stream' = << >> /\ shown' = {} /\ conns' = conns
          /\ UNCHANGED <<cluster, reports>>
          /\ pc' \in {"closed", "sleeping"}
      BY <1>3 DEF CloseChannel, Again, PodInv, PodsOK, StreamInv
    <2>2. << >> \in Seq(Notices) /\ \A k \in 1..Len(<< >>) : FALSE
      BY EmptySeq
    <2>3. \A k \in 1..Len(stream') : Skipped(stream'[k])
      BY <2>1, <2>2
    <2>4. QED
      BY <1>1, <2>1, <2>2, <2>3, NewStreamStep
  <1>4. QED
    BY <1>2, <1>3

LEMMA HandleStep ==
    ASSUME PodInv, HandlePodWatchEvent
    PROVE  PodInv'
  <1> DEFINE n == stream[1]
             new == {Sight(n, c, conns) : c \in Reported(n)}
  <1>1. /\ Head(stream) = n /\ n \in Notices /\ Len(stream) \in Nat \ {0}
        /\ stream' \in Seq(Notices) /\ Len(stream') = Len(stream) - 1
        /\ \A k \in 1..Len(stream') :
              k + 1 \in 1..Len(stream) /\ stream'[k] = stream[k + 1]
    BY HeadIsHandled DEF PodInv
  <1>2. /\ reports' = reports \cup new
        /\ UNCHANGED <<cluster, pc, conns, shown>> /\ pc = "watching"
    BY <1>1 DEF HandlePodWatchEvent
  <1>3. /\ n.pod \in Pods /\ n.rev \in 1..MaxRevs
        /\ n.statuses \in [ContainersOf(n.pod) -> RunState]
        /\ Failed(n) \subseteq ContainersOf(n.pod)
    BY <1>1, NoticeFields
  <1>4. 1 \in 1..Len(stream)
    BY <1>1
  <1> HIDE DEF n
  <1>5. \A x \in new :
            /\ ~Skipped(n) /\ x.container \in Failed(n)
            /\ PodOf[x.container] = n.pod /\ x = Sight(n, x.container, conns)
            /\ x.run = n.statuses[x.container].run /\ x.rev = n.rev
    BY <1>3 DEF Sight, Reported, ContainersOf
  <1>6. PodsOK'
    <2>1. \A k \in 1..Len(stream') : IsNotice(stream'[k])
      BY <1>1, AreNotices
    <2>2. new \subseteq Sights
      <3> SUFFICES ASSUME NEW c \in Failed(n) PROVE Sight(n, c, conns) \in Sights
        BY DEF Reported
      <3>1. n.statuses[c].run \in 1..MaxRuns /\ c \in Containers
        BY <1>3 DEF RunState, ContainersOf
      <3>2. conns \in 1..MaxConns
        BY <1>2, PodsAssumption DEF PodInv, PodsOK, StreamInv, TypeOK
      <3>3. QED
        BY <1>3, <3>1, <3>2 DEF Sight, Sights
    <2> HIDE DEF new
    <2>3. TypeOK'
      BY <1>2, <2>1, <2>2 DEF PodInv, PodsOK, TypeOK, cluster
    <2>4. StreamInv'
      BY <1>1, <1>2 DEF PodInv, PodsOK, StreamInv, cluster
    <2>5. QED
      BY <2>3, <2>4 DEF PodsOK
  <1> HIDE DEF new
  <1>7. FailureInv'
    <2>1. \A x \in Containers : IsRecorded(x, container[x])' /\ IsRecorded(x, status[x])'
      BY <1>2 DEF PodInv, FailureInv, IsRecorded, cluster
    <2>2. (\A f \in failures :
              f.deleting => life[PodOf[f.container]] \in {"deleting", "gone"})'
      BY <1>2 DEF PodInv, FailureInv, cluster
    <2>3. (\A k \in 1..Len(stream) : ~Skipped(stream[k]) =>
              \A x \in Failed(stream[k]) :
                  FailedInTime(x, stream[k].statuses[x].run))'
      <3> SUFFICES ASSUME NEW k \in 1..Len(stream'), ~Skipped(stream'[k]),
                          NEW x \in Failed(stream'[k])
                   PROVE  FailedInTime(x, stream'[k].statuses[x].run)
        BY <1>2 DEF FailedInTime, Failed, Skipped, cluster
      <3>1. QED
        BY <1>1 DEF PodInv, FailureInv
    <2>4. ReportsAreFailures'
      <3>1. \A x \in new : FailedInTime(x.container, x.run)
        BY <1>4, <1>5 DEF n, PodInv, FailureInv
      <3>2. QED
        BY <1>2, <3>1 DEF PodInv, FailureInv, ReportsAreFailures, FailedInTime, cluster
    <2>5. QED
      BY <2>1, <2>2, <2>3, <2>4 DEF FailureInv
  <1>8. RevisionInv'
    <2>1. \A x \in new : x.rev <= rev[PodOf[x.container]]
      BY <1>4, <1>5 DEF n, PodInv, RevisionInv
    <2>2. \A x \in reports' : x.rev <= rev'[PodOf[x.container]]
      BY <1>2, <2>1 DEF PodInv, RevisionInv, cluster
    <2>3. ASSUME NEW k \in 1..Len(stream'), ~Skipped(stream'[k])
          PROVE  /\ stream'[k].rev <= rev'[stream'[k].pod]
                 /\ \A x \in reports' :
                       PodOf[x.container] = stream'[k].pod => x.rev < stream'[k].rev
                 /\ \A j \in 1..(k - 1) :
                       ~Skipped(stream'[j]) /\ stream'[j].pod = stream'[k].pod
                          => stream'[j].rev < stream'[k].rev
      <3>1. k + 1 \in 1..Len(stream) /\ stream'[k] = stream[k + 1] /\ ~Skipped(stream[k + 1])
        BY <1>1, <2>3
      <3>2. /\ stream[k + 1].rev <= rev[stream[k + 1].pod]
            /\ \A x \in reports : PodOf[x.container] = stream[k + 1].pod
                                     => x.rev < stream[k + 1].rev
            /\ \A j \in 1..(k + 1 - 1) :
                  ~Skipped(stream[j]) /\ stream[j].pod = stream[k + 1].pod
                     => stream[j].rev < stream[k + 1].rev
        BY <3>1 DEF PodInv, RevisionInv
      <3>3. 1 \in 1..(k + 1 - 1) /\ \A j \in 1..(k - 1) :
                j \in 1..Len(stream') /\ j + 1 \in 1..(k + 1 - 1)
        BY <1>1
      <3>4. \A x \in new : PodOf[x.container] = stream[k + 1].pod
                              => x.rev < stream[k + 1].rev
        BY <1>5, <3>2, <3>3 DEF n
      <3>5. \A j \in 1..(k - 1) :
               ~Skipped(stream'[j]) /\ stream'[j].pod = stream[k + 1].pod
                  => stream'[j].rev < stream[k + 1].rev
        BY <1>1, <3>2, <3>3
      <3>6. rev' = rev
        BY <1>2 DEF cluster
      <3>7. QED
        BY <1>2, <3>1, <3>2, <3>4, <3>5, <3>6
    <2>4. OncePerModification'
      <3>1. \A x, y \in new : x.container = y.container => x = y
        BY <1>5
      <3>2. \A x \in reports, y \in new :
               x.container = y.container => x.rev # y.rev
        <4> SUFFICES ASSUME NEW x \in reports, NEW y \in new,
                            x.container = y.container
                     PROVE  x.rev # y.rev
          OBVIOUS
        <4>1. x.rev < n.rev
          BY <1>4, <1>5 DEF n, PodInv, RevisionInv
        <4>2. x.rev \in Nat /\ n.rev \in Nat
          BY <1>3 DEF PodInv, PodsOK, TypeOK, Sights
        <4>3. QED
          BY <1>5, <4>1, <4>2
      <3>3. QED
        BY <1>2, <3>1, <3>2 DEF PodInv, RevisionInv, OncePerModification
    <2>5. QED
      BY <2>2, <2>3, <2>4 DEF RevisionInv, Skipped
  <1>9. ShownInv'
    <2> SUFFICES ASSUME NEW x \in shown, IsNews(x), x.sight \notin reports'
                 PROVE  \E k \in 1..Len(stream') :
                            /\ ~Skipped(stream'[k])
                            /\ x.sight.container \in Failed(stream'[k])
                            /\ x.sight = Sight(stream'[k], x.sight.container, conns)
      BY <1>2 DEF ShownInv, Waiting, IsNews, Skipped, Failed, Sight
    <2>1. PICK k \in 1..Len(stream) :
              /\ ~Skipped(stream[k])
              /\ x.sight.container \in Failed(stream[k])
              /\ x.sight = Sight(stream[k], x.sight.container, conns)
      BY <1>2 DEF PodInv, ShownInv, Waiting
    <2>2. k # 1
      BY <1>2, <2>1 DEF n, new, Reported
    <2>3. k - 1 \in 1..Len(stream') /\ (k - 1) + 1 = k
      BY <1>1, <2>2
    <2>4. stream'[k - 1] = stream[k]
      BY <1>1, <2>3
    <2>5. QED
      BY <2>1, <2>3, <2>4
  <1>10. AbsentInv'
    BY <1>2 DEF PodInv, AbsentInv, cluster
  <1>11. QED
    BY <1>6, <1>7, <1>8, <1>9, <1>10 DEF PodInv

----------------------------------------------------------------------------
LEMMA PodInvStep == PodInv /\ [Next]_vars => PodInv'
  <1> SUFFICES ASSUME PodInv, [Next]_vars
               PROVE  PodInv'
    OBVIOUS
  <1>1. ASSUME NEW p \in Pods,
               \/ CreatePod(p) \/ PublishStatus(p) \/ OtherChange(p)
               \/ RequestDeletion(p) \/ RemovePod(p)
        PROVE  PodInv'
    BY <1>1, CreatePodStep, PublishStatusStep, RequestDeletionStep, RemovePodStep
  <1>2. ASSUME NEW c \in Containers,
               \/ Restarts(c) \/ \E s \in {"completed", "failed"} : Exits(c, s)
        PROVE  PodInv'
    BY <1>2, RestartsStep, ExitsStep
  <1>3. CASE Connect \/ Reconnect \/ CloseChannel \/ Again
    BY <1>3, ConnectStep
  <1>4. CASE HandlePodWatchEvent
    BY <1>4, HandleStep
  <1>5. CASE UNCHANGED vars
    <2>1. PodsOK'
      BY <1>5 DEF vars, cluster, watcher, PodInv, PodsOK, TypeOK, StreamInv, IsNotice
    <2>2. FailureInv'
      BY <1>5 DEF vars, cluster, watcher, PodInv, FailureInv, IsRecorded,
                  FailedInTime, ReportsAreFailures, Skipped, Failed
    <2>3. RevisionInv'
      BY <1>5 DEF vars, cluster, watcher, PodInv, RevisionInv, OncePerModification,
                  Skipped
    <2>4. ShownInv'
      BY <1>5 DEF vars, cluster, watcher, PodInv, ShownInv, Waiting, IsNews, Skipped,
                  Failed, Sight
    <2>5. AbsentInv'
      BY <1>5 DEF vars, cluster, PodInv, AbsentInv
    <2>6. QED
      BY <2>1, <2>2, <2>3, <2>4, <2>5 DEF PodInv
  <1>6. QED
    BY <1>1, <1>2, <1>3, <1>4, <1>5 DEF Next

LEMMA PodInvariant == Spec => []PodInv
  <1>1. Init => PodInv
    <2> SUFFICES ASSUME Init PROVE PodInv
      OBVIOUS
    <2>1. \A k \in 1..Len(stream) : FALSE
      BY DEF Init
    <2>2. PodsOK
      <3>1. container \in [Containers -> RunState] /\ status = container
        BY PodsAssumption DEF Init, RunState, States
      <3>2. stream \in Seq(Notices)
        BY EmptySeq DEF Init
      <3>3. QED
        BY <2>1, <3>1, <3>2, PodsAssumption DEF Init, PodsOK, TypeOK, StreamInv
    <2>3. FailureInv /\ RevisionInv /\ ShownInv
      BY <2>1 DEF Init, FailureInv, IsRecorded, ReportsAreFailures, RevisionInv,
                  OncePerModification, ShownInv
    <2>4. AbsentInv
      BY DEF Init, AbsentInv
    <2>5. QED
      BY <2>2, <2>3, <2>4 DEF PodInv
  <1>2. QED
    BY <1>1, PodInvStep, PTL DEF Spec

(* The state of the cluster, of the stream and of the watcher keeps its    *)
(* type (watcher_pods.go).                                                 *)
THEOREM PodsTypeCorrect == Spec => []TypeOK
  <1>1. PodInv => TypeOK
    BY DEF PodInv, PodsOK
  <1>2. QED
    BY <1>1, PodInvariant, PTL

(* handlePodWatchEvent reports only runs that failed before the deletion   *)
(* of their Pod was requested, however late it handles a notification.     *)
THEOREM PodReportsAreFailures == Spec => []ReportsAreFailures
  <1>1. PodInv => ReportsAreFailures
    BY DEF PodInv, FailureInv
  <1>2. QED
    BY <1>1, PodInvariant, PTL

(* A failed container is reported once by each modification of its Pod,    *)
(* whatever connections are lost and opened.                               *)
THEOREM PodReportsOncePerModification == Spec => []OncePerModification
  <1>1. PodInv => OncePerModification
    BY DEF PodInv, RevisionInv
  <1>2. QED
    BY <1>1, PodInvariant, PTL

(* While a connection lasts, every failure the server shows on it is       *)
(* reported, or in a notification that was not handled yet, except for     *)
(* those the connection began with and those of Pods being deleted, which  *)
(* handlePodWatchEvent does not look at.                                   *)
THEOREM PodNothingLost == Spec => []NothingLostWhileConnected
  <1>1. PodInv => NothingLostWhileConnected
    BY DEF PodInv, ShownInv, Waiting, NothingLostWhileConnected
  <1>2. QED
    BY <1>1, PodInvariant, PTL
=============================================================================
