--------------------------- MODULE StartUpProofs ---------------------------
(***************************************************************************)
(* What the goroutines of the agent and client-go do to the informers, the *)
(* cached objects and the reports, in any order and for any environment;   *)
(* and what main has done before they begin.                               *)
(***************************************************************************)
EXTENDS StartUp, Induction, SequenceTheorems, FiniteSetTheorems, TLAPS

----------------------------------------------------------------------------
(* The informers and the look-ups.                                         *)

(* Both orders name every kind once. *)
LEMMA KindOrders ==
    /\ Created \in Seq(Kinds) /\ Awaited \in Seq(Kinds)
    /\ Len(Awaited) = KindCount /\ KindCount \in Nat \ {0}
<1>1. \A k : Only(k) \in Seq(Kinds) /\ Len(Only(k)) = IF k \in Kinds THEN 1 ELSE 0
    BY DEF Only
<1>2. PICK j, c, r, d :
        j = Only("Job") /\ c = Only("CronJob") /\ r = Only("ReplicaSet")
        /\ d = Only("Deployment")
    OBVIOUS
<1>3. /\ j \in Seq(Kinds) /\ c \in Seq(Kinds) /\ r \in Seq(Kinds) /\ d \in Seq(Kinds)
      /\ Len(j) \in Nat /\ Len(c) \in Nat /\ Len(r) \in Nat /\ Len(d) \in Nat
      /\ "Job" \in Kinds => Len(j) = 1
      /\ "CronJob" \in Kinds => Len(c) = 1
      /\ "ReplicaSet" \in Kinds => Len(r) = 1
      /\ "Deployment" \in Kinds => Len(d) = 1
    BY <1>1, <1>2, LenProperties
<1>4. /\ j \o c \in Seq(Kinds) /\ Len(j \o c) = Len(j) + Len(c)
      /\ c \o j \in Seq(Kinds) /\ Len(c \o j) = Len(c) + Len(j)
    BY <1>3, ConcatProperties
<1>5. /\ j \o c \o r \in Seq(Kinds) /\ Len(j \o c \o r) = Len(j) + Len(c) + Len(r)
      /\ c \o j \o r \in Seq(Kinds) /\ Len(c \o j \o r) = Len(c) + Len(j) + Len(r)
    BY <1>3, <1>4, ConcatProperties
<1>6. /\ j \o c \o r \o d \in Seq(Kinds)
      /\ Len(j \o c \o r \o d) = Len(j) + Len(c) + Len(r) + Len(d)
      /\ c \o j \o r \o d \in Seq(Kinds)
      /\ Len(c \o j \o r \o d) = Len(c) + Len(j) + Len(r) + Len(d)
    BY <1>3, <1>5, ConcatProperties
<1>7. Len(j) + Len(c) + Len(r) + Len(d) # 0
    <2>1. \/ "Job" \in Kinds \/ "CronJob" \in Kinds
          \/ "ReplicaSet" \in Kinds \/ "Deployment" \in Kinds
        BY InformersAssumption
    <2>2. QED
        BY <1>3, <2>1
<1>8. /\ Created = j \o c \o r \o d
      /\ Awaited = c \o j \o r \o d
    BY <1>2 DEF Created, Awaited
<1>9. QED
    BY <1>3, <1>6, <1>7, <1>8 DEF KindCount

Steps == {<<"none", 0>>, <<"start", 0>>, <<"block", 0>>}
           \cup ({"create", "await"} \X (1..KindCount))

Looks == [pc : {"idle", "get", "request", "found", "notFound"},
          object : Objects \cup {Unset}, informer : Calls \cup {Unset},
          ref : Nat \cup {Unset}, todo : SUBSET Words, missed : BOOLEAN]

(* The types, without those of the bounds. *)
InformersOK ==
    /\ step \in [Calls -> Steps]
    /\ bound \in [Calls -> Calls \cup {Unset}]
    /\ global \in [Kinds -> Calls \cup {Unset}]
    /\ synced \subseteq Calls
    /\ DOMAIN cache = Calls
    /\ \A c \in Calls, o \in Objects :
         IsCached(c, o) => cache[c][o].ref \in 1..Len(managed)
    /\ managed \in Seq(Fields)
    /\ version \in [Objects -> Nat]
    /\ changes \in Nat
    /\ look \in [Watchers -> Looks]

(* What a look-up has got, and what of it the reader has cleared.          *)
Holds(l, m) ==
    /\ l.pc = "found" <=> l.ref # Unset
    /\ l.pc = "found" =>
         /\ l.ref \in 1..Len(m)
         /\ \A x \in Words \ l.todo : m[l.ref][x] = Cleared[x]
    /\ l.pc \in {"get", "request"} => l.todo = Words

(* An object that is not in the cluster has been missed by who looks for   *)
(* it.                                                                     *)
Misses(l, v) ==
    /\ l.pc # "idle" => l.object \in Objects
    /\ l.pc = "get" => l.informer \in Calls
    /\ l.pc \in {"get", "request"} /\ v[l.object] = 0 => l.missed
    /\ l.pc = "notFound" => l.missed

LooksOK == \A w \in Watchers : Holds(look[w], managed) /\ Misses(look[w], version)

InformersInv == InformersOK /\ LooksOK

(* The two words of a slice. *)
LEMMA WordsOfFields ==
    /\ Words = {"ptr", "len"}
    /\ Decoded \in Fields /\ Cleared \in Fields
    /\ \A f \in Fields : (\A x \in Words : f[x] = Cleared[x]) => f = Cleared
    /\ \A f \in Fields, x \in Words : [f EXCEPT ![x] = Cleared[x]] \in Fields
    BY DEF Words, Decoded, Cleared, Fields

LEMMA InformersInit == InitInformers => InformersInv
<1> SUFFICES ASSUME InitInformers
             PROVE  InformersInv
    OBVIOUS
<1>1. NotLooking \in Looks
    BY DEF NotLooking, Looks
<1>2. InformersOK
    <2>1. look \in [Watchers -> Looks]
        BY <1>1, StartUpAssumption DEF InitInformers
    <2>2. \A c \in Calls, o \in Objects : ~ IsCached(c, o)
        BY DEF InitInformers, IsCached
    <2>3. managed \in Seq(Fields)
        BY EmptySeq DEF InitInformers
    <2>4. step \in [Calls -> Steps]
        BY DEF InitInformers, Steps
    <2>5. QED
        BY <2>1, <2>2, <2>3, <2>4 DEF InitInformers, InformersOK
<1>3. LooksOK
    BY StartUpAssumption DEF InitInformers, LooksOK, Holds, Misses, NotLooking
<1>4. QED
    BY <1>2, <1>3 DEF InformersInv

(* The calls of startInformers: the looks do not depend on them. *)
LEMMA CallsStep ==
    ASSUME InformersInv, NEW c \in Calls,
           CallStep(c) \/ \E ns : CallStartInformers(c, ns)
    PROVE  InformersInv'
<1>1. /\ UNCHANGED <<clientGo, managed, cluster, look>>
      /\ step' \in [Calls -> Steps]
      /\ bound' \in [Calls -> Calls \cup {Unset}]
      /\ global' \in [Kinds -> Calls \cup {Unset}]
    <2>1. /\ step \in [Calls -> Steps]
          /\ bound \in [Calls -> Calls \cup {Unset}]
          /\ global \in [Kinds -> Calls \cup {Unset}]
        BY DEF InformersInv, InformersOK
    <2>2. /\ KindCount \in Nat \ {0}
          /\ \A n \in 1..KindCount : Awaited[n] \in Kinds
        BY KindOrders, ElementOfSeq
    <2>3. <<"create", 1>> \in Steps /\ <<"await", 1>> \in Steps
          /\ <<"start", 0>> \in Steps /\ <<"block", 0>> \in Steps
        BY <2>2 DEF Steps
    <2>4. \A n \in 1..KindCount : n # KindCount =>
            <<"create", n + 1>> \in Steps /\ <<"await", n + 1>> \in Steps
        BY <2>2 DEF Steps
    <2>5. CASE \E ns : CallStartInformers(c, ns)
        BY <2>1, <2>3, <2>5 DEF CallStartInformers
    <2>6. CASE FactoryStart(c)
        BY <2>1, <2>3, <2>6 DEF FactoryStart
    <2>7. ASSUME NEW n \in 1..KindCount, CreateInformer(c, n)
          PROVE  <1>1!:
        BY <2>1, <2>3, <2>4, <2>7 DEF CreateInformer
    <2>8. ASSUME NEW n \in 1..KindCount, BindHasSynced(c, n)
          PROVE  <1>1!:
        BY <2>1, <2>2, <2>8 DEF BindHasSynced
    <2>9. ASSUME NEW n \in 1..KindCount, WaitForCacheSync(c, n)
          PROVE  <1>1!:
        BY <2>1, <2>3, <2>4, <2>9 DEF WaitForCacheSync
    <2>10. QED
        BY <2>5, <2>6, <2>7, <2>8, <2>9 DEF CallStep
<1>2. QED
    BY <1>1 DEF InformersInv, InformersOK, LooksOK, IsCached, clientGo, cluster

(* What has been decoded stays, and what has been cleared stays cleared. *)
Keeps(m, n) ==
    /\ Len(m) \in Nat /\ Len(n) \in Nat /\ Len(m) <= Len(n)
    /\ \A k \in 1..Len(m), x \in Words :
          m[k][x] = Cleared[x] => n[k][x] = Cleared[x]

LEMMA HoldsKept ==
    ASSUME NEW l, NEW m, NEW n, Keeps(m, n), Holds(l, m)
    PROVE  Holds(l, n)
    BY DEF Keeps, Holds

LEMMA AppendKeeps ==
    ASSUME NEW m \in Seq(Fields)
    PROVE  /\ Append(m, Decoded) \in Seq(Fields)
           /\ Len(Append(m, Decoded)) = Len(m) + 1
           /\ Keeps(m, Append(m, Decoded))
<1>1. Decoded \in Fields /\ Len(m) \in Nat
    BY WordsOfFields, LenProperties
<1>2. /\ Append(m, Decoded) \in Seq(Fields)
      /\ Len(Append(m, Decoded)) = Len(m) + 1
      /\ \A k \in 1..Len(m) : Append(m, Decoded)[k] = m[k]
    BY <1>1, AppendProperties
<1>3. QED
    BY <1>1, <1>2 DEF Keeps

(* client-go: an object decoded is new, and nobody holds it yet. *)
LEMMA CacheStep ==
    ASSUME InformersInv, NEW c \in Calls, FollowObjects(c)
    PROVE  InformersInv'
<1>1. /\ DOMAIN cache = Calls /\ managed \in Seq(Fields) /\ synced \subseteq Calls
      /\ \A d \in Calls, o \in Objects :
            o \in DOMAIN cache[d] => cache[d][o].ref \in 1..Len(managed)
    BY DEF InformersInv, InformersOK, IsCached
<1>2. Len(managed) \in Nat
    BY <1>1, LenProperties
<1>3. /\ UNCHANGED <<calls, cluster, look>>
      /\ DOMAIN cache' = Calls /\ managed' \in Seq(Fields) /\ synced' \subseteq Calls
      /\ Keeps(managed, managed')
      /\ \A d \in Calls, o \in Objects :
            o \in DOMAIN cache'[d] => cache'[d][o].ref \in 1..Len(managed')
    <2>1. ASSUME NEW o \in Objects, CacheSet(c, o)
          PROVE  <1>3!:
        <3>1. /\ managed' = Append(managed, Decoded)
              /\ UNCHANGED <<calls, synced, cluster, look>>
            BY <2>1 DEF CacheSet
        <3>2. /\ managed' \in Seq(Fields) /\ Len(managed') = Len(managed) + 1
              /\ Keeps(managed, managed')
            BY <1>1, <3>1, AppendKeeps
        <3>3. PICK entry : entry = [version |-> version[o], ref |-> Len(managed) + 1]
            OBVIOUS
        <3>4. cache' = [cache EXCEPT ![c] = [x \in DOMAIN cache[c] \cup {o} |->
                                IF x = o THEN entry ELSE cache[c][x]]]
            BY <2>1, <3>3 DEF CacheSet
        <3>5. entry.ref = Len(managed) + 1
            BY <3>3
        <3>6. DOMAIN cache' = Calls
            BY <1>1, <3>4
        <3>7. ASSUME NEW d \in Calls, NEW p \in Objects, p \in DOMAIN cache'[d]
              PROVE  cache'[d][p].ref \in 1..Len(managed')
            <4>1. CASE d = c /\ p = o
                BY <1>1, <1>2, <3>2, <3>4, <3>5, <4>1
            <4>2. CASE ~ (d = c /\ p = o)
                <5>1. p \in DOMAIN cache[d] /\ cache'[d][p] = cache[d][p]
                    BY <1>1, <3>4, <3>7, <4>2
                <5>2. QED
                    BY <1>1, <1>2, <3>2, <5>1
            <4>3. QED
                BY <4>1, <4>2
        <3>8. QED
            BY <1>1, <3>1, <3>2, <3>6, <3>7
    <2>2. ASSUME NEW o \in Objects, CacheDelete(c, o)
          PROVE  <1>3!:
        <3>1. /\ cache' = [cache EXCEPT ![c] = [x \in DOMAIN cache[c] \ {o} |-> cache[c][x]]]
              /\ UNCHANGED <<calls, synced, managed, cluster, look>>
            BY <2>2 DEF CacheDelete
        <3>2. ASSUME NEW d \in Calls, NEW p \in Objects, p \in DOMAIN cache'[d]
              PROVE  p \in DOMAIN cache[d] /\ cache'[d][p] = cache[d][p]
            BY <1>1, <3>1, <3>2
        <3>3. DOMAIN cache' = Calls /\ Keeps(managed, managed')
            BY <1>1, <1>2, <3>1 DEF Keeps
        <3>4. QED
            BY <1>1, <3>1, <3>2, <3>3
    <2>3. CASE Sync(c)
        <3>1. /\ UNCHANGED <<calls, cache, managed, cluster, look>>
              /\ synced' = synced \cup {c}
            BY <2>3 DEF Sync
        <3>2. Keeps(managed, managed')
            BY <1>2, <3>1 DEF Keeps
        <3>3. QED
            BY <1>1, <3>1, <3>2
    <2>4. QED
        BY <2>1, <2>2, <2>3 DEF FollowObjects
<1>4. InformersOK'
    BY <1>3 DEF InformersInv, InformersOK, IsCached, calls, cluster
<1>5. LooksOK'
    <2>1. \A w \in Watchers : Holds(look[w], managed')
        BY <1>3, HoldsKept DEF InformersInv, LooksOK
    <2>2. QED
        BY <1>3, <2>1 DEF InformersInv, LooksOK, cluster
<1>6. QED
    BY <1>4, <1>5 DEF InformersInv

(* A look moves on; the others keep what they have. *)
LEMMA OneLooks ==
    ASSUME InformersInv, NEW w \in Watchers, NEW l \in Looks,
           look' = [look EXCEPT ![w] = l],
           UNCHANGED <<calls, clientGo, cluster>>,
           managed' \in Seq(Fields), Keeps(managed, managed'),
           Holds(l, managed'), Misses(l, version)
    PROVE  InformersInv'
<1>1. /\ look \in [Watchers -> Looks]
      /\ \A x \in Watchers : Holds(look[x], managed) /\ Misses(look[x], version)
    BY DEF InformersInv, InformersOK, LooksOK
<1>2. /\ look' \in [Watchers -> Looks]
      /\ \A x \in Watchers : look'[x] = IF x = w THEN l ELSE look[x]
    BY <1>1
<1>3. InformersOK'
    <2>1. Len(managed) <= Len(managed') /\ Len(managed) \in Nat /\ Len(managed') \in Nat
        BY DEF Keeps
    <2>2. \A c \in Calls, o \in Objects :
            (o \in DOMAIN cache[c])' => (cache[c][o].ref)' \in 1..Len(managed')
        BY <2>1 DEF InformersInv, InformersOK, IsCached, clientGo
    <2>3. QED
        BY <1>2, <2>2 DEF InformersInv, InformersOK, IsCached, calls, clientGo, cluster
<1>4. LooksOK'
    <2>1. \A x \in Watchers : Holds(look'[x], managed')
        BY <1>1, <1>2, HoldsKept
    <2>2. \A x \in Watchers : Misses(look'[x], version)
        BY <1>1, <1>2
    <2>3. QED
        BY <2>1, <2>2 DEF LooksOK, cluster
<1>5. QED
    BY <1>3, <1>4 DEF InformersInv

(* A step of a look-up leaves the reader looking. *)
Moves(w) ==
    /\ UNCHANGED <<calls, clientGo, cluster>>
    /\ managed' \in Seq(Fields) /\ Keeps(managed, managed')
    /\ \E l \in Looks :
          /\ look' = [look EXCEPT ![w] = l] /\ l.pc # "idle"
          /\ Holds(l, managed') /\ Misses(l, version)

LEMMA MovesKeep ==
    ASSUME InformersInv, NEW w \in Watchers, Moves(w)
    PROVE  InformersInv'
<1>1. PICK l \in Looks : /\ look' = [look EXCEPT ![w] = l]
                         /\ Holds(l, managed') /\ Misses(l, version)
    BY DEF Moves
<1>2. /\ UNCHANGED <<calls, clientGo, cluster>>
      /\ managed' \in Seq(Fields) /\ Keeps(managed, managed')
    BY DEF Moves
<1>3. QED
    BY <1>1, <1>2, OneLooks

(* FindObject reads the variable and remembers whether the object exists. *)
LEMMA FindStep ==
    ASSUME InformersInv, NEW w \in Watchers, NEW o \in Objects, FindObject(w, o)
    PROVE  Moves(w)
<1>1. PICK d \in BOOLEAN : d = (version[o] = 0)
    OBVIOUS
<1>2. PICK f : f = IF global[o.kind] = Unset THEN "request" ELSE "get"
    OBVIOUS
<1>3. PICK i : i = global[o.kind]
    OBVIOUS
<1>4. PICK l : l = [pc |-> f, object |-> o, informer |-> i,
                    ref |-> Unset, todo |-> Words, missed |-> d]
    OBVIOUS
<1>5. /\ f \in {"request", "get"}
      /\ f = "get" => i # Unset
      /\ i \in Calls \cup {Unset}
    <2>1. o.kind \in Kinds
        BY InformersAssumption
    <2>2. i \in Calls \cup {Unset}
        BY <1>3, <2>1 DEF InformersInv, InformersOK
    <2>3. QED
        BY <1>2, <1>3, <2>2
<1>6. /\ look' = [look EXCEPT ![w] = l]
      /\ UNCHANGED <<calls, clientGo, cluster, managed>>
    <2>1. /\ Now(w, [pc |-> f, object |-> o, informer |-> i, ref |-> Unset,
                     todo |-> Words, missed |-> version[o] = 0])
          /\ UNCHANGED managed
        BY <1>2, <1>3 DEF FindObject
    <2>2. Now(w, l) /\ UNCHANGED managed
        BY <1>1, <1>4, <2>1, Zenon
    <2>3. QED
        BY <2>2 DEF Now
<1>7. l \in Looks
    BY <1>4, <1>5 DEF Looks
<1>8. Holds(l, managed) /\ Misses(l, version)
    <2>1. d = TRUE \/ version[o] # 0
        BY <1>1
    <2>2. l.missed = TRUE \/ version[l.object] # 0
        BY <1>4, <2>1
    <2>3. /\ l.pc = f /\ l.object = o /\ l.informer = i /\ l.ref = Unset
          /\ l.todo = Words
        BY <1>4
    <2>4. Holds(l, managed)
        BY <1>5, <2>3 DEF Holds
    <2>5. QED
        BY <1>5, <2>2, <2>3, <2>4 DEF Misses
<1>9. managed \in Seq(Fields) /\ Keeps(managed, managed)
    <2>1. managed \in Seq(Fields)
        BY DEF InformersInv, InformersOK
    <2>2. QED
        BY <2>1, LenProperties DEF Keeps
<1> HIDE DEF FindObject
<1>10. QED
    BY <1>4, <1>5, <1>6, <1>7, <1>8, <1>9 DEF Moves

(* What a reader does with what it found: reading it from a cache, asking  *)
(* for it, and clearing a word of it.                                      *)
LEMMA LookingStep ==
    ASSUME InformersInv, NEW w \in Watchers, LookStep(w)
    PROVE  Moves(w) /\ look[w].pc # "idle"
<1>1. /\ look \in [Watchers -> Looks] /\ look[w] \in Looks
      /\ Holds(look[w], managed) /\ Misses(look[w], version)
      /\ managed \in Seq(Fields) /\ version \in [Objects -> Nat]
      /\ \A c \in Calls, o \in Objects :
            IsCached(c, o) => cache[c][o].ref \in 1..Len(managed)
    BY DEF InformersInv, InformersOK, LooksOK
<1>2. Len(managed) \in Nat /\ Keeps(managed, managed)
    BY <1>1, LenProperties DEF Keeps
<1>3. CASE GetByKey(w)
    <2>1. PICK c, o : c = look[w].informer /\ o = look[w].object
        OBVIOUS
    <2>2. look[w].pc = "get" /\ c \in Calls /\ o \in Objects /\ look[w].todo = Words
        BY <1>1, <1>3, <2>1 DEF GetByKey, Holds, Misses
    <2>3. look[w].ref = Unset
        BY <1>1, <2>2 DEF Holds
    <2>4. UNCHANGED <<calls, clientGo, cluster, managed>>
        BY <1>3 DEF GetByKey, Now
    <2>5. CASE IsCached(c, o)
        <3>1. PICK l : l = [look[w] EXCEPT !.pc = "found", !.ref = cache[c][o].ref]
            OBVIOUS
        <3>2. look' = [look EXCEPT ![w] = l]
            BY <1>3, <2>1, <2>5, <3>1 DEF GetByKey, Now
        <3>3. cache[c][o].ref \in 1..Len(managed)
            BY <1>1, <2>2, <2>5
        <3>4. /\ l \in Looks /\ l.pc = "found" /\ l.ref \in 1..Len(managed)
              /\ l.object = o /\ l.todo = Words
            <4>1. PICK n \in 1..Len(managed) : n = cache[c][o].ref
                BY <3>3
            <4>2. l = [look[w] EXCEPT !.pc = "found", !.ref = n] /\ n \in Nat
                BY <1>2, <3>1, <4>1
            <4>3. look[w] \in Looks
                BY <1>1
            <4>4. QED
                BY <2>1, <2>2, <4>1, <4>2, <4>3 DEF Looks
        <3>5. Holds(l, managed) /\ Misses(l, version)
            BY <2>2, <3>4, InformersAssumption DEF Holds, Misses
        <3>6. QED
            BY <1>1, <1>2, <2>2, <2>4, <3>2, <3>4, <3>5 DEF Moves
    <2>6. CASE ~ IsCached(c, o)
        <3>1. PICK l : l = [look[w] EXCEPT !.pc = "request"]
            OBVIOUS
        <3>2. look' = [look EXCEPT ![w] = l]
            BY <1>3, <2>1, <2>6, <3>1 DEF GetByKey, Now
        <3>3. /\ l \in Looks /\ l.pc = "request" /\ l.ref = Unset
              /\ l.object = look[w].object /\ l.todo = Words
              /\ l.missed = look[w].missed
            BY <1>1, <2>2, <2>3, <3>1 DEF Looks
        <3>4. Holds(l, managed) /\ Misses(l, version)
            BY <1>1, <2>1, <2>2, <3>3 DEF Holds, Misses
        <3>5. QED
            BY <1>1, <1>2, <2>2, <2>4, <3>2, <3>3, <3>4 DEF Moves
    <2>7. QED
        BY <2>5, <2>6
<1>4. CASE Request(w)
    <2>1. PICK l : l = [look[w] EXCEPT !.pc = "found", !.ref = Len(managed) + 1]
        OBVIOUS
    <2>2. /\ look' = [look EXCEPT ![w] = l] /\ UNCHANGED <<calls, clientGo, cluster>>
          /\ managed' = Append(managed, Decoded) /\ look[w].pc = "request"
        BY <1>4, <2>1 DEF Request, Now
    <2>3. /\ managed' \in Seq(Fields) /\ Len(managed') = Len(managed) + 1
          /\ Keeps(managed, managed')
        BY <1>1, <2>2, AppendKeeps
    <2>4. look[w].object \in Objects /\ look[w].todo = Words
        BY <1>1, <2>2 DEF Holds, Misses
    <2>5. /\ l \in Looks /\ l.pc = "found" /\ l.ref = Len(managed) + 1
          /\ l.object = look[w].object /\ l.todo = Words
        <3>1. PICK n \in Nat : n = Len(managed) + 1
            BY <1>2
        <3>2. l = [look[w] EXCEPT !.pc = "found", !.ref = n]
            BY <2>1, <3>1
        <3>3. look[w] \in Looks
            BY <1>1
        <3>4. QED
            BY <2>4, <3>1, <3>2, <3>3 DEF Looks
    <2>6. Holds(l, managed') /\ Misses(l, version)
        BY <1>2, <2>3, <2>4, <2>5, InformersAssumption DEF Holds, Misses
    <2>7. QED
        BY <2>2, <2>3, <2>5, <2>6 DEF Moves
<1>5. CASE RequestFails(w)
    <2>1. PICK d \in BOOLEAN : d = (look[w].missed \/ version[look[w].object] # 0)
        OBVIOUS
    <2>2. PICK l : l = [look[w] EXCEPT !.pc = "notFound", !.missed = d]
        OBVIOUS
    <2>3. look[w].pc = "request"
        BY <1>5 DEF RequestFails
    <2>4. look' = [look EXCEPT ![w] = l] /\ UNCHANGED <<calls, clientGo, cluster, managed>>
        <3>1. Now(w, [look[w] EXCEPT !.pc = "notFound",
                        !.missed = look[w].missed \/ version[look[w].object] # 0])
              /\ UNCHANGED managed
            BY <1>5, Zenon DEF RequestFails
        <3>2. Now(w, l) /\ UNCHANGED managed
            BY <2>1, <2>2, <3>1, Zenon
        <3>3. QED
            BY <3>2 DEF Now
    <2>5. d = TRUE /\ look[w].object \in Objects /\ look[w].ref = Unset
        <3>1. look[w].object \in Objects /\ look[w].ref = Unset
            BY <1>1, <2>3 DEF Holds, Misses
        <3>2. look[w].missed \/ version[look[w].object] # 0
            BY <1>1, <2>3 DEF Misses
        <3>3. QED
            BY <2>1, <3>1, <3>2, Zenon
    <2>6. /\ l \in Looks /\ l.pc = "notFound" /\ l.missed = TRUE
          /\ l.object = look[w].object /\ l.ref = Unset
        BY <1>1, <2>2, <2>5 DEF Looks
    <2>7. Holds(l, managed) /\ Misses(l, version)
        BY <2>5, <2>6 DEF Holds, Misses
    <2>8. QED
        BY <1>1, <1>2, <2>3, <2>4, <2>6, <2>7 DEF Moves
<1>6. ASSUME NEW x \in Words, ClearWord(w, x)
      PROVE  Moves(w) /\ look[w].pc # "idle"
    <2>1. PICK k, l : k = look[w].ref /\ l = [look[w] EXCEPT !.todo = look[w].todo \ {x}]
        OBVIOUS
    <2>2. /\ look' = [look EXCEPT ![w] = l] /\ UNCHANGED <<calls, clientGo, cluster>>
          /\ managed' = [managed EXCEPT ![k][x] = Cleared[x]]
          /\ look[w].pc = "found" /\ x \in look[w].todo
        BY <1>6, <2>1 DEF ClearWord, Now
    <2>3. /\ k \in 1..Len(managed)
          /\ \A y \in Words \ look[w].todo : managed[k][y] = Cleared[y]
          /\ look[w].object \in Objects
        BY <1>1, <2>1, <2>2 DEF Holds, Misses
    <2>4. managed[k] \in Fields
        BY <1>1, <2>3, ElementOfSeq
    <2>5. PICK f : f = [managed[k] EXCEPT ![x] = Cleared[x]]
        OBVIOUS
    <2>6. f \in Fields /\ f[x] = Cleared[x] /\ \A y \in Words \ {x} : f[y] = managed[k][y]
        BY <2>4, <2>5, WordsOfFields DEF Fields
    <2>7. managed' = [managed EXCEPT ![k] = f]
        BY <2>2, <2>5
    <2>8. /\ managed' \in Seq(Fields) /\ Len(managed') = Len(managed)
          /\ \A n \in 1..Len(managed) : managed'[n] = IF n = k THEN f ELSE managed[n]
        BY <1>1, <2>3, <2>6, <2>7, ExceptSeq
    <2>9. Keeps(managed, managed')
        BY <1>2, <2>6, <2>8 DEF Keeps
    <2>10. /\ l \in Looks /\ l.pc = "found" /\ l.ref = k
           /\ l.object = look[w].object /\ l.todo = look[w].todo \ {x}
        BY <1>1, <2>1, <2>2 DEF Looks
    <2>11. \A y \in Words \ l.todo : managed'[k][y] = Cleared[y]
        BY <2>3, <2>6, <2>8, <2>10
    <2>12. Holds(l, managed') /\ Misses(l, version)
        BY <2>3, <2>8, <2>10, <2>11, InformersAssumption DEF Holds, Misses
    <2>13. QED
        BY <2>2, <2>8, <2>9, <2>10, <2>12 DEF Moves
<1>7. QED
    BY <1>3, <1>4, <1>5, <1>6 DEF LookStep

(* An object that goes is missed by all who look for it at the moment. *)
LEMMA ChangeStep ==
    ASSUME InformersInv, NEW o \in Objects, NEW v \in {0, changes + 2},
           ChangeObject(o, v)
    PROVE  InformersInv'
<1>1. /\ look \in [Watchers -> Looks] /\ changes \in Nat
      /\ version \in [Objects -> Nat]
      /\ \A w \in Watchers : Holds(look[w], managed) /\ Misses(look[w], version)
    BY DEF InformersInv, InformersOK, LooksOK
<1>2. /\ changes' = changes + 1 /\ version' = [version EXCEPT ![o] = v]
      /\ look' = [r \in Watchers |-> IF look[r].object = o /\ v = 0
                                     THEN [look[r] EXCEPT !.missed = TRUE]
                                     ELSE look[r]]
      /\ UNCHANGED <<calls, clientGo, managed>>
    BY StartUpAssumption DEF ChangeObject
<1>3. ASSUME NEW w \in Watchers
      PROVE  /\ look'[w] \in Looks
             /\ Holds(look'[w], managed) /\ Misses(look'[w], version')
    <2>1. look[w] \in Looks /\ Holds(look[w], managed) /\ Misses(look[w], version)
        BY <1>1
    <2>2. CASE look[w].object = o /\ v = 0
        <3>1. PICK l : l = [look[w] EXCEPT !.missed = TRUE]
            OBVIOUS
        <3>2. look'[w] = l
            BY <1>2, <2>2, <3>1
        <3>3. /\ l \in Looks /\ l.pc = look[w].pc /\ l.ref = look[w].ref
              /\ l.todo = look[w].todo /\ l.object = look[w].object
              /\ l.informer = look[w].informer /\ l.missed = TRUE
            BY <2>1, <3>1 DEF Looks
        <3>4. Holds(l, managed)
            BY <2>1, <3>3 DEF Holds
        <3>5. Misses(l, version')
            BY <2>1, <3>3 DEF Misses
        <3>6. QED
            BY <3>2, <3>3, <3>4, <3>5
    <2>3. CASE ~ (look[w].object = o /\ v = 0)
        <3>1. look'[w] = look[w]
            BY <1>2, <2>3
        <3>2. Misses(look[w], version')
            <4>1. look[w].object \in Objects /\ version'[look[w].object] = 0
                    => version[look[w].object] = 0
                BY <1>1, <1>2, <2>3
            <4>2. QED
                BY <2>1, <4>1 DEF Misses
        <3>3. QED
            BY <2>1, <3>1, <3>2
    <2>4. QED
        BY <2>2, <2>3
<1>4. InformersOK'
    <2>1. look' \in [Watchers -> Looks]
        BY <1>2, <1>3
    <2>2. version' \in [Objects -> Nat] /\ changes' \in Nat
        BY <1>1, <1>2
    <2>3. QED
        BY <1>2, <2>1, <2>2
           DEF InformersInv, InformersOK, IsCached, calls, clientGo
<1>5. LooksOK'
    BY <1>2, <1>3 DEF LooksOK
<1>6. QED
    BY <1>4, <1>5 DEF InformersInv

(* The report is made: the reader looks for nothing. *)
LEMMA LookEnds ==
    ASSUME InformersInv, NEW w \in Watchers,
           look' = [look EXCEPT ![w] = NotLooking],
           UNCHANGED <<calls, clientGo, managed, cluster>>
    PROVE  InformersInv'
<1>1. NotLooking \in Looks
    BY DEF NotLooking, Looks
<1>2. Holds(NotLooking, managed) /\ Misses(NotLooking, version)
    BY DEF NotLooking, Holds, Misses
<1>3. managed \in Seq(Fields) /\ Keeps(managed, managed)
    <2>1. managed \in Seq(Fields)
        BY DEF InformersInv, InformersOK
    <2>2. QED
        BY <2>1, LenProperties DEF Keeps
<1>4. QED
    BY <1>1, <1>2, <1>3, OneLooks

LEMMA NothingHappens ==
    ASSUME InformersInv, UNCHANGED infVars
    PROVE  InformersInv'
    BY DEF InformersInv, InformersOK, LooksOK, IsCached, infVars, calls, clientGo,
           cluster

----------------------------------------------------------------------------
(* Lists and tags: the loops of main.                                      *)

(* One turn of a loop that leaves something out, and a function that       *)
(* records n of them.                                                      *)
Pass(res, e, out) == IF e \notin out THEN Append(res, e) ELSE res

Passes(s, out, n, f) ==
    f = [k \in 0..n |-> IF k = 0 THEN << >> ELSE Pass(f[k - 1], s[k], out)]

LEMMA PassesExist ==
    ASSUME NEW s, NEW out, NEW n \in Nat
    PROVE  \E f : Passes(s, out, n, f)
<1> DEFINE P == {k \in 0..n : \E f : Passes(s, out, k, f)}
<1>1. 0 \in P
    <2> DEFINE f == [k \in 0..0 |-> << >>]
    <2>1. Passes(s, out, 0, f)
        BY DEF Passes
    <2>2. QED
        BY <2>1
<1>2. ASSUME NEW k \in 0..(n - 1), k \in P
      PROVE  k + 1 \in P
    <2>1. PICK f : Passes(s, out, k, f)
        BY <1>2
    <2> DEFINE g == [m \in 0..(k + 1) |-> IF m = k + 1 THEN Pass(f[k], s[k + 1], out)
                                         ELSE f[m]]
    <2>2. k \in Nat /\ k + 1 \in 0..n
        OBVIOUS
    <2>3. ASSUME NEW m \in 0..(k + 1)
          PROVE  g[m] = IF m = 0 THEN << >> ELSE Pass(g[m - 1], s[m], out)
        <3>1. CASE m = k + 1
            <4>1. m # 0 /\ m - 1 = k /\ k # k + 1 /\ k \in 0..(k + 1)
                BY <2>2, <3>1
            <4>2. g[m - 1] = f[k] /\ g[m] = Pass(f[k], s[k + 1], out)
                BY <3>1, <4>1
            <4>3. QED
                BY <3>1, <4>1, <4>2
        <3>2. CASE m # k + 1
            <4>1. m \in 0..k /\ g[m] = f[m]
                BY <2>2, <3>2
            <4>2. f[m] = IF m = 0 THEN << >> ELSE Pass(f[m - 1], s[m], out)
                BY <2>1, <4>1 DEF Passes
            <4>3. m # 0 => m - 1 \in 0..(k + 1) /\ m - 1 # k + 1
                BY <2>2, <4>1
            <4>4. m # 0 => g[m - 1] = f[m - 1]
                BY <4>3
            <4>5. QED
                BY <4>1, <4>2, <4>4
        <3>3. QED
            BY <3>1, <3>2
    <2>4. g = [m \in 0..(k + 1) |-> g[m]]
        OBVIOUS
    <2> HIDE DEF g
    <2>5. Passes(s, out, k + 1, g)
        BY <2>3, <2>4 DEF Passes
    <2>6. QED
        BY <2>2, <2>5
<1> HIDE DEF P
<1>3. 0..n \subseteq P
    BY <1>1, <1>2, CountUp
<1>4. QED
    BY <1>3 DEF P

(* What is left out is gone, and all else is there. *)
LEMMA WithoutElements ==
    ASSUME NEW S, NEW s \in Seq(S), NEW out
    PROVE  /\ Without(s, out) \in Seq(S)
           /\ ToSet(Without(s, out)) = ToSet(s) \ out
<1> PICK N : N = Len(s)
    OBVIOUS
<1>1. N \in Nat /\ DOMAIN s = 1..N /\ \A k \in 1..N : s[k] \in S
    BY LenProperties, ElementOfSeq
<1> PICK first : first = [n \in 0..N |-> {s[k] : k \in 1..n}]
    OBVIOUS
<1>2. PICK f : Passes(s, out, N, f) /\ Without(s, out) = f[N]
    <2> DEFINE res[n \in 0..Len(s)] ==
            IF n = 0 THEN << >>
            ELSE IF s[n] \notin out THEN Append(res[n - 1], s[n])
                 ELSE res[n - 1]
    <2> DEFINE g == CHOOSE f : Passes(s, out, Len(s), f)
    <2>1. Passes(s, out, Len(s), g)
        BY <1>1, PassesExist
    <2>2. res = g
        BY Zenon DEF Passes, Pass
    <2>3. Without(s, out) = res[Len(s)]
        BY DEF Without
    <2>4. QED
        BY <2>1, <2>2, <2>3, Zenon
<1> DEFINE P == {k \in 0..N : f[k] \in Seq(S) /\ ToSet(f[k]) = first[k] \ out}
<1>3. 0 \in P
    <2>1. f[0] = << >>
        BY <1>1, <1>2 DEF Passes
    <2>2. << >> \in Seq(S) /\ ToSet(<< >>) = {}
        BY EmptySeq DEF ToSet
    <2>3. first[0] = {}
        BY <1>1
    <2>4. QED
        BY <1>1, <2>1, <2>2, <2>3
<1>4. ASSUME NEW k \in 0..(N - 1), k \in P
      PROVE  k + 1 \in P
    <2>1. k \in Nat /\ k + 1 \in 1..N /\ k + 1 - 1 = k /\ k + 1 # 0
        BY <1>1
    <2>2. f[k + 1] = Pass(f[k], s[k + 1], out)
        BY <1>1, <1>2, <2>1 DEF Passes
    <2>3. f[k] \in Seq(S) /\ ToSet(f[k]) = first[k] \ out /\ s[k + 1] \in S
        BY <1>1, <1>4, <2>1
    <2>4. first[k + 1] = first[k] \cup {s[k + 1]}
        <3>1. 1..(k + 1) = 1..k \cup {k + 1} /\ k \in 0..N /\ k + 1 \in 0..N
            BY <1>1, <2>1
        <3>2. QED
            BY <3>1
    <2>5. Append(f[k], s[k + 1]) \in Seq(S)
          /\ ToSet(Append(f[k], s[k + 1])) = ToSet(f[k]) \cup {s[k + 1]}
        <3>1. PICK t \in Seq(S) : t = f[k]
            BY <2>3
        <3>2. PICK e \in S : e = s[k + 1]
            BY <2>3
        <3>3. /\ Append(t, e) \in Seq(S) /\ Len(Append(t, e)) = Len(t) + 1
              /\ \A i \in 1..Len(t) : Append(t, e)[i] = t[i]
              /\ Append(t, e)[Len(t) + 1] = e
            BY AppendProperties
        <3>4. /\ Len(t) \in Nat /\ DOMAIN t = 1..Len(t)
              /\ DOMAIN Append(t, e) = 1..(Len(t) + 1)
            BY <3>3, LenProperties
        <3>5. PICK u : u = Append(t, e)
            OBVIOUS
        <3>6. /\ \A i \in 1..Len(t) : u[i] = t[i] /\ i \in 1..(Len(t) + 1)
              /\ u[Len(t) + 1] = e /\ Len(t) + 1 \in 1..(Len(t) + 1)
              /\ \A i \in 1..(Len(t) + 1) : i \in 1..Len(t) \/ i = Len(t) + 1
            BY <3>3, <3>4, <3>5
        <3>7. ToSet(u) = {u[i] : i \in 1..(Len(t) + 1)}
              /\ ToSet(t) = {t[i] : i \in 1..Len(t)}
            BY <3>4, <3>5 DEF ToSet
        <3>8. ToSet(u) = ToSet(t) \cup {e}
            BY <3>6, <3>7, Zenon
        <3>9. QED
            BY <3>1, <3>2, <3>3, <3>5, <3>8
    <2>6. CASE s[k + 1] \in out
        <3>1. f[k + 1] = f[k] /\ first[k + 1] \ out = first[k] \ out
            BY <2>2, <2>4, <2>6 DEF Pass
        <3>2. /\ f[k + 1] \in Seq(S)
              /\ ToSet(f[k + 1]) = first[k + 1] \ out
            BY <2>3, <3>1, Zenon
        <3>3. k + 1 \in 0..N
            BY <1>1, <2>1
        <3>4. QED
            BY <3>2, <3>3
    <2>7. CASE s[k + 1] \notin out
        <3>1. /\ f[k + 1] = Append(f[k], s[k + 1])
              /\ first[k + 1] \ out = (first[k] \ out) \cup {s[k + 1]}
            BY <2>2, <2>4, <2>7 DEF Pass
        <3>2. /\ f[k + 1] \in Seq(S)
              /\ ToSet(f[k + 1]) = first[k + 1] \ out
            BY <2>3, <2>5, <3>1
        <3>3. k + 1 \in 0..N
            BY <1>1, <2>1
        <3>4. QED
            BY <3>2, <3>3
    <2>8. QED
        BY <2>6, <2>7
<1>5. 0..N \subseteq P
    <2> HIDE DEF P
    <2>1. QED
        BY <1>1, <1>3, <1>4, CountUp
<1>6. f[N] \in Seq(S) /\ ToSet(f[N]) = first[N] \ out
    <2>1. N \in 0..N
        BY <1>1
    <2>2. N \in P
        BY <1>5, <2>1, Zenon
    <2>3. QED
        BY <2>2, Zenon
<1>7. ToSet(s) = first[N]
    BY <1>1 DEF ToSet
<1>8. QED
    BY <1>2, <1>6, <1>7

(* Tags that are set have a name and a value. *)
TagsOK(t) ==
    /\ t = [k \in DOMAIN t |-> t[k]]
    /\ "" \notin DOMAIN t
    /\ \A k \in DOMAIN t : t[k] \in Values \ {Blank}

ValueIn(t, k) == IF k \in DOMAIN t THEN t[k] ELSE Blank

LEMMA NoTags == TagsOK(<< >>) /\ \A k : ValueIn(<< >>, k) = Blank
<1>1. DOMAIN << >> = {}
    OBVIOUS
<1>2. << >> = [k \in DOMAIN << >> |-> << >>[k]]
    BY <1>1
<1>3. QED
    BY <1>1, <1>2 DEF TagsOK, ValueIn

LEMMA TagsAreEqual ==
    ASSUME NEW t, NEW u, TagsOK(t), TagsOK(u), \A k : ValueIn(t, k) = ValueIn(u, k)
    PROVE  t = u
<1>1. \A k : k \in DOMAIN t <=> k \in DOMAIN u
    BY DEF TagsOK, ValueIn
<1>2. DOMAIN t = DOMAIN u /\ \A k \in DOMAIN t : t[k] = u[k]
    BY <1>1 DEF ValueIn
<1>3. QED
    BY <1>2 DEF TagsOK

LEMMA WithTagGives ==
    ASSUME NEW t, TagsOK(t), NEW key, NEW v \in Values
    PROVE  /\ TagsOK(WithTag(t, key, v))
           /\ \A k : ValueIn(WithTag(t, key, v), k) =
                IF k = key /\ key # "" /\ v # Blank THEN v ELSE ValueIn(t, k)
<1>1. CASE key # "" /\ v # Blank
    <2>1. PICK u : u = SetTag(t, key, v)
        OBVIOUS
    <2>2. /\ DOMAIN u = DOMAIN t \cup {key}
          /\ \A k \in DOMAIN u : u[k] = IF k = key THEN v ELSE t[k]
          /\ u = [k \in DOMAIN u |-> u[k]]
        BY <2>1 DEF SetTag
    <2>3. TagsOK(u)
        BY <1>1, <2>2 DEF TagsOK
    <2>4. \A k : ValueIn(u, k) = IF k = key THEN v ELSE ValueIn(t, k)
        BY <2>2 DEF ValueIn
    <2>5. QED
        BY <1>1, <2>1, <2>3, <2>4 DEF WithTag
<1>2. CASE ~ (key # "" /\ v # Blank)
    BY <1>2 DEF WithTag
<1>3. QED
    BY <1>1, <1>2

(* The empty name sets no tag, and no name does so with a blank value. *)
IsName(k) == k # ""

ElseValue(k, key, v, else) == IF k = key /\ v # Blank THEN v ELSE else

LEMMA ThreeTags ==
    ASSUME NEW t, TagsOK(t), NEW a, NEW b, NEW c, IsName(a), IsName(b), IsName(c),
           NEW n \in Values, NEW l \in Values, NEW p \in Values
    PROVE  /\ TagsOK(WithTag(WithTag(WithTag(t, a, n), b, l), c, p))
           /\ \A k : ValueIn(WithTag(WithTag(WithTag(t, a, n), b, l), c, p), k) =
                ElseValue(k, c, p, ElseValue(k, b, l, ElseValue(k, a, n, ValueIn(t, k))))
<1>1. /\ TagsOK(WithTag(t, a, n))
      /\ \A k : ValueIn(WithTag(t, a, n), k) =
           IF k = a /\ a # "" /\ n # Blank THEN n ELSE ValueIn(t, k)
    BY WithTagGives
<1>2. PICK u : u = WithTag(t, a, n)
    OBVIOUS
<1>3. /\ TagsOK(WithTag(u, b, l))
      /\ \A k : ValueIn(WithTag(u, b, l), k) =
           IF k = b /\ b # "" /\ l # Blank THEN l ELSE ValueIn(u, k)
    <2>1. TagsOK(u)
        BY <1>1, <1>2
    <2>2. QED
        BY <2>1, WithTagGives
<1>4. PICK v : v = WithTag(u, b, l)
    OBVIOUS
<1>5. /\ TagsOK(WithTag(v, c, p))
      /\ \A k : ValueIn(WithTag(v, c, p), k) =
           IF k = c /\ c # "" /\ p # Blank THEN p ELSE ValueIn(v, k)
    <2>1. TagsOK(v)
        BY <1>3, <1>4
    <2>2. QED
        BY <2>1, WithTagGives
<1>6. QED
    BY <1>1, <1>2, <1>3, <1>4, <1>5 DEF IsName, ElseValue

LEMMA TrimmedValue ==
    ASSUME NEW v \in Values
    PROVE  /\ TrimSpace(v) \in Values /\ TrimSpace(v).word = v.word
           /\ TrimSpace(v) = Blank <=> v.word = ""
           /\ ~ TrimSpace(v).spaces
           /\ v.word # "" => TrimSpace(v) = [v EXCEPT !.spaces = FALSE]
    BY DEF TrimSpace, Blank, Plain, Values

LEMMA LoweredValue ==
    ASSUME NEW W, NEW v \in [word : W, upper : BOOLEAN, spaces : BOOLEAN]
    PROVE  ToLower(TrimSpace(v)) = Plain(v.word)
<1>1. CASE v.word = ""
    BY <1>1 DEF ToLower, TrimSpace, Blank, Plain
<1>2. CASE v.word # ""
    <2>1. PICK t : t = [v EXCEPT !.spaces = FALSE]
        OBVIOUS
    <2>2. t.word = v.word /\ t.spaces = FALSE
        BY <2>1
    <2>3. ToLower(t) = [word |-> v.word, upper |-> FALSE, spaces |-> FALSE]
        BY <2>2 DEF ToLower
    <2>4. TrimSpace(v) = t
        BY <1>2, <2>1 DEF TrimSpace
    <2>5. QED
        BY <2>3, <2>4 DEF Plain
<1>3. QED
    BY <1>1, <1>2

(* What a list says, whatever the spaces. *)
LEMMA TrimmedList ==
    ASSUME NEW list \in Seq(Values)
    PROVE  /\ Trimmed(list) \in Seq(Values)
           /\ ToSet(Trimmed(list)) = {TrimSpace(list[n]) : n \in 1..Len(list)} \ {Blank}
<1>1. PICK t : t = [n \in 1..Len(list) |-> TrimSpace(list[n])]
    OBVIOUS
<1>2. Len(list) \in Nat /\ \A n \in 1..Len(list) : TrimSpace(list[n]) \in Values
    BY LenProperties, ElementOfSeq, TrimmedValue
<1>3. t \in Seq(Values) /\ Len(t) = Len(list)
    BY <1>1, <1>2, IsASeq
<1>4. ToSet(t) = {TrimSpace(list[n]) : n \in 1..Len(list)}
    BY <1>1, <1>2, <1>3 DEF ToSet
<1>5. Without(t, {Blank}) \in Seq(Values) /\ ToSet(Without(t, {Blank})) = ToSet(t) \ {Blank}
    BY <1>3, WithoutElements
<1>6. Trimmed(list) = Without(t, {Blank})
    BY <1>1 DEF Trimmed
<1>7. QED
    BY <1>4, <1>5, <1>6

(* A set of filters has the words of its list, in lower case. *)
Lists(list, default, word) ==
    /\ word # ""
    /\ IF HasNothing(list) THEN word \in default
       ELSE word \in {v.word : v \in ToSet(list)}

LEMMA NothingListed ==
    ASSUME NEW list \in Seq(Values), HasNothing(list)
    PROVE  \A v \in ToSet(list) : v.word = ""
<1>1. Len(list) = 1
    BY DEF HasNothing
<1>2. \A n \in DOMAIN list : n = 1
    <2>1. DOMAIN list = 1..Len(list)
        BY LenProperties
    <2>2. QED
        BY <1>1, <2>1
<1>3. list[1].word = ""
    BY DEF HasNothing
<1>4. QED
    BY <1>2, <1>3 DEF ToSet

LEMMA FilterWords ==
    ASSUME NEW list \in Seq(Values), NEW default, NEW W,
           NEW r \in [word : W, upper : BOOLEAN, spaces : BOOLEAN]
    PROVE  IsFiltered(FilterSet(list, default), r) <=> Lists(list, default, r.word)
<1>1. \A x, y : Plain(x) = Plain(y) <=> x = y
    BY DEF Plain
<1>2. IsFiltered(FilterSet(list, default), r) <=>
        r.word # "" /\ Plain(r.word) \in FilterSet(list, default)
    <2>1. ToLower(TrimSpace(r)) = Plain(r.word)
        BY LoweredValue
    <2>2. QED
        BY <2>1, Zenon DEF IsFiltered
<1>3. CASE HasNothing(list)
    <2>1. FilterSet(list, default) = {Plain(w) : w \in default}
        BY <1>3 DEF FilterSet
    <2>2. Plain(r.word) \in {Plain(w) : w \in default} <=> r.word \in default
        BY <1>1
    <2>3. QED
        BY <1>2, <1>3, <2>1, <2>2 DEF Lists
<1>4. CASE ~ HasNothing(list)
    <2>1. ToSet(list) = {list[n] : n \in 1..Len(list)}
        <3>1. DOMAIN list = 1..Len(list)
            BY LenProperties
        <3>2. QED
            BY <3>1 DEF ToSet
    <2>2. \A n \in 1..Len(list) : list[n] \in Values
        BY ElementOfSeq
    <2>3. FilterSet(list, default) =
            {ToLower(v) : v \in {TrimSpace(list[n]) : n \in 1..Len(list)} \ {Blank}}
        BY <1>4, TrimmedList DEF FilterSet
    <2>4. \A n \in 1..Len(list) :
            /\ TrimSpace(list[n]) = Blank <=> list[n].word = ""
            /\ ToLower(TrimSpace(list[n])) = Plain(list[n].word)
        BY <2>2, TrimmedValue, LoweredValue DEF Values
    <2>5. ASSUME r.word # "", Plain(r.word) \in FilterSet(list, default)
          PROVE  r.word \in {v.word : v \in ToSet(list)}
        <3>1. PICK n \in 1..Len(list) : Plain(r.word) = ToLower(TrimSpace(list[n]))
            BY <2>3, <2>5
        <3>2. r.word = list[n].word
            BY <1>1, <2>4, <3>1
        <3>3. QED
            BY <2>1, <3>2
    <2>6. ASSUME r.word # "", r.word \in {v.word : v \in ToSet(list)}
          PROVE  Plain(r.word) \in FilterSet(list, default)
        <3>1. PICK n \in 1..Len(list) : r.word = list[n].word
            BY <2>1, <2>6
        <3>2. TrimSpace(list[n]) # Blank /\ ToLower(TrimSpace(list[n])) = Plain(r.word)
            BY <2>4, <2>6, <3>1
        <3>3. QED
            BY <2>3, <3>2
    <2>7. QED
        BY <1>2, <1>4, <2>5, <2>6 DEF Lists
<1>5. QED
    BY <1>3, <1>4

(* The namespaces to watch, if there are any, are the ones asked for. *)
NamesOK(e) ==
    /\ \/ Named(e) # {} /\ Named(e) \subseteq ValidLabels
       \/ Named(e) = {"__all__"} \/ Named(e) = {}
    /\ Len(e.namespaces) > 1 => Named(e) \notin {{}, {"__all__"}}

LEMMA NamespacesAreNamed ==
    ASSUME NEW e \in Environments, NamespacesToWatch(e.namespaces) # << >>
    PROVE  /\ NamesOK(e)
           /\ ToSet(NamespacesToWatch(e.namespaces)) = NamespacesOf(e)
<1>1. PICK list \in Seq(Values) : list = e.namespaces /\ list # << >>
    BY EnvironmentsAssumption
<1>2. PICK N \in Nat : N = Len(list) /\ N # 0 /\ DOMAIN list = 1..N
    BY <1>1, LenProperties, EmptySeq
<1>3. \A n \in 1..N : list[n] \in Values
    BY <1>1, <1>2, ElementOfSeq
<1>4. Named(e) = {list[n].word : n \in 1..N} \ {""}
    BY <1>1, <1>2 DEF Named, Word
<1>5. PICK watch : watch = NamespacesToWatch(list) /\ watch # << >>
    BY <1>1
<1>6. CASE HasNothing(list)
    <2>1. N = 1
        BY <1>2, <1>6 DEF HasNothing
    <2>2. Named(e) = {}
        <3>1. \A n \in 1..N : n = 1
            BY <2>1
        <3>2. list[1].word = ""
            BY <1>6 DEF HasNothing
        <3>3. QED
            BY <1>4, <3>1, <3>2
    <2>3. watch = <<Plain("default")>>
        BY <1>5, <1>6 DEF NamespacesToWatch
    <2>4. ToSet(watch) = {Plain("default")}
        BY <2>3 DEF ToSet
    <2>5. NamesOK(e)
        <3>1. ~ (Len(e.namespaces) > 1)
            BY <1>1, <1>2, <2>1
        <3>2. QED
            BY <2>2, <3>1, Zenon DEF NamesOK
    <2>6. NamespacesOf(e) = {Plain("default")}
        BY <2>2, Zenon DEF NamespacesOf
    <2>7. QED
        BY <1>1, <1>5, <2>4, <2>5, <2>6
<1>7. CASE ~ HasNothing(list) /\ Len(list) = 1 /\ TrimSpace(list[1]) = Plain("__all__")
    <2>1. N = 1
        BY <1>2, <1>7
    <2>2. Named(e) = {"__all__"}
        <3>1. \A n \in 1..N : n = 1
            BY <2>1
        <3>2. list[1] \in Values /\ 1 \in 1..N
            BY <1>3, <2>1
        <3>3. TrimSpace(list[1]).word = list[1].word
            BY <3>2, TrimmedValue
        <3>4. TrimSpace(list[1]) = Plain("__all__")
            BY <1>7
        <3>5. list[1].word = "__all__"
            BY <3>3, <3>4 DEF Plain
        <3>6. QED
            BY <1>4, <3>1, <3>2, <3>5
    <2>3. watch = <<AllNamespaces>>
        BY <1>5, <1>7 DEF NamespacesToWatch
    <2>4. ToSet(watch) = {AllNamespaces}
        BY <2>3 DEF ToSet
    <2>5. NamesOK(e)
        <3>1. ~ (Len(e.namespaces) > 1)
            BY <1>1, <1>2, <2>1
        <3>2. QED
            BY <2>2, <3>1, Zenon DEF NamesOK
    <2>6. Named(e) # {}
        BY <2>2
    <2>7. NamespacesOf(e) = {AllNamespaces}
        BY <2>2, <2>6, Zenon DEF NamespacesOf
    <2>8. QED
        BY <1>1, <1>5, <2>4, <2>5, <2>7
<1>8. CASE /\ ~ HasNothing(list)
           /\ ~ (Len(list) = 1 /\ TrimSpace(list[1]) = Plain("__all__"))
    <2>1. PICK t \in Seq(Values) : t = Trimmed(list)
        BY TrimmedList
    <2>2. /\ watch = RemoveDuplicates(t)
          /\ \A v \in ToSet(t) : v.word \in ValidLabels
        <3>1. NamespacesToWatch(list) =
                IF \E v \in ToSet(Trimmed(list)) : v.word \notin ValidLabels THEN << >>
                ELSE RemoveDuplicates(Trimmed(list))
            BY <1>8, Zenon DEF NamespacesToWatch
        <3>2. watch = IF \E v \in ToSet(t) : v.word \notin ValidLabels THEN << >>
                      ELSE RemoveDuplicates(t)
            BY <1>5, <2>1, <3>1
        <3>3. watch # << >>
            BY <1>5
        <3>4. QED
            BY <3>2, <3>3, Zenon
    <2>3. ToSet(t) = {TrimSpace(list[n]) : n \in 1..N} \ {Blank}
        BY <1>2, <2>1, TrimmedList
    <2>4. watch \in Seq(Values) /\ ToSet(watch) = ToSet(t)
        <3>1. Without(t, {}) \in Seq(Values) /\ ToSet(Without(t, {})) = ToSet(t) \ {}
            BY <2>1, WithoutElements
        <3>2. QED
            BY <2>2, <3>1 DEF RemoveDuplicates
    <2>5. \A n \in 1..N :
            /\ TrimSpace(list[n]) = Blank <=> list[n].word = ""
            /\ TrimSpace(list[n]).word = list[n].word /\ ~ TrimSpace(list[n]).spaces
        BY <1>3, TrimmedValue
    <2>6. \A v \in ToSet(t) : v.word \in Named(e) /\ ~ v.spaces
        BY <1>4, <2>3, <2>5
    <2>7. Named(e) \subseteq ValidLabels
        <3>1. ASSUME NEW n \in 1..N, list[n].word # ""
              PROVE  list[n].word \in ValidLabels
            BY <2>2, <2>3, <2>5, <3>1
        <3>2. QED
            BY <1>4, <3>1
    <2>8. Named(e) # {}
        <3>1. ToSet(watch) # {}
            <4>1. PICK w \in Seq(Values) : w = watch /\ w # << >>
                BY <1>5, <2>4
            <4>2. Len(w) \in Nat \ {0} /\ DOMAIN w = 1..Len(w)
                BY <4>1, EmptySeq, LenProperties
            <4>3. 1 \in DOMAIN w
                BY <4>2
            <4>4. QED
                BY <4>1, <4>3, Zenon DEF ToSet
        <3>2. PICK v \in ToSet(t) : TRUE
            BY <2>4, <3>1, Zenon
        <3>3. QED
            BY <2>6, <3>2, Zenon
    <2>9. Named(e) # {"__all__"}
        BY <2>7, StartUpAssumption
    <2>10. NamesOK(e)
        BY <2>7, <2>8, <2>9 DEF NamesOK
    <2> DEFINE Unspaced(v) == [v EXCEPT !.spaces = FALSE]
    <2>11. NamespacesOf(e) = {Unspaced(v) : v \in {x \in ToSet(list) : x.word # ""}}
        BY <1>1, <2>8, <2>9, Zenon DEF NamespacesOf, Word
    <2>12. ToSet(watch) = NamespacesOf(e)
        <3>1. \A n \in 1..N : list[n].word # "" => TrimSpace(list[n]) = Unspaced(list[n])
            BY Zenon DEF TrimSpace
        <3> HIDE DEF Unspaced
        <3>2. \A x : x \in ToSet(list) <=> \E n \in 1..N : x = list[n]
            BY <1>2, Zenon DEF ToSet
        <3>3. \A x : x \in NamespacesOf(e) <=>
                       \E n \in 1..N : list[n].word # "" /\ x = Unspaced(list[n])
            <4>1. \A x : x \in NamespacesOf(e) <=>
                           \E v \in ToSet(list) : v.word # "" /\ x = Unspaced(v)
                BY <2>11, Zenon
            <4>2. ASSUME NEW x, x \in NamespacesOf(e)
                  PROVE  \E n \in 1..N : list[n].word # "" /\ x = Unspaced(list[n])
                <5>1. PICK v \in ToSet(list) : v.word # "" /\ x = Unspaced(v)
                    BY <4>1, <4>2, Zenon
                <5>2. PICK n \in 1..N : v = list[n]
                    BY <3>2, <5>1, Zenon
                <5>3. QED
                    BY <5>1, <5>2, Zenon
            <4>3. ASSUME NEW n \in 1..N, list[n].word # ""
                  PROVE  Unspaced(list[n]) \in NamespacesOf(e)
                <5>1. list[n] \in ToSet(list)
                    BY <3>2, Zenon
                <5>2. QED
                    BY <4>1, <4>3, <5>1, Zenon
            <4>4. QED
                BY <4>2, <4>3, Zenon
        <3>4. \A x : x \in ToSet(watch) <=>
                       \E n \in 1..N : x = TrimSpace(list[n]) /\ x # Blank
            BY <2>3, <2>4, Zenon
        <3>5. \A x : x \in ToSet(watch) <=> x \in NamespacesOf(e)
            <4>1. \A n \in 1..N : TrimSpace(list[n]) = Blank <=> list[n].word = ""
                BY <2>5, Zenon
            <4>2. ASSUME NEW x, x \in ToSet(watch)
                  PROVE  x \in NamespacesOf(e)
                <5>1. PICK n \in 1..N : x = TrimSpace(list[n]) /\ x # Blank
                    BY <3>4, <4>2, Zenon
                <5>2. list[n].word # "" /\ x = Unspaced(list[n])
                    BY <3>1, <4>1, <5>1, Zenon
                <5>3. QED
                    BY <3>3, <5>2, Zenon
            <4>3. ASSUME NEW x, x \in NamespacesOf(e)
                  PROVE  x \in ToSet(watch)
                <5>1. PICK n \in 1..N : list[n].word # "" /\ x = Unspaced(list[n])
                    BY <3>3, <4>3, Zenon
                <5>2. x = TrimSpace(list[n]) /\ x # Blank
                    BY <3>1, <4>1, <5>1, Zenon
                <5>3. QED
                    BY <3>4, <5>2, Zenon
            <4>4. QED
                BY <4>2, <4>3, Zenon
        <3>6. QED
            BY <3>5, Zenon
    <2>13. QED
        BY <1>1, <1>5, <2>10, <2>12
<1>9. QED
    BY <1>6, <1>7, <1>8

(* The variables that set a tag, and the last of the first n of them. *)
SetBy(e, k) == {n \in DOMAIN e.tags : e.tags[n].key = k /\ Word(e.tags[n].value) # ""}

LastSetBy(e, k, n, m) ==
    m \in 1..n /\ m \in SetBy(e, k) /\ \A l \in (m + 1)..n : l \notin SetBy(e, k)

NotSetBy(e, k, n) == \A l \in 1..n : l \notin SetBy(e, k)

HostTag(e, k) == IF k = "agent_hostname" THEN e.hostname ELSE Blank

(* The loop over the environment, after n variables. *)
TagTurns(t, e, n, f) ==
    f = [k \in 0..n |-> IF k = 0 THEN WithTag(t, "agent_hostname", e.hostname)
                        ELSE WithTag(f[k - 1], e.tags[k].key,
                                     TrimSpace(e.tags[k].value))]

LEMMA TagTurnsExist ==
    ASSUME NEW t, NEW e, NEW n \in Nat
    PROVE  \E f : TagTurns(t, e, n, f)
<1> DEFINE P == {k \in 0..n : \E f : TagTurns(t, e, k, f)}
           First == WithTag(t, "agent_hostname", e.hostname)
           Step(u, k) == WithTag(u, e.tags[k].key, TrimSpace(e.tags[k].value))
<1>1. 0 \in P
    <2> DEFINE f == [k \in 0..0 |-> First]
    <2>1. TagTurns(t, e, 0, f)
        BY DEF TagTurns
    <2>2. QED
        BY <2>1
<1> HIDE DEF First
<1>2. ASSUME NEW k \in 0..(n - 1), k \in P
      PROVE  k + 1 \in P
    <2>1. PICK f : TagTurns(t, e, k, f)
        BY <1>2
    <2> DEFINE g == [m \in 0..(k + 1) |-> IF m = k + 1 THEN Step(f[k], k + 1)
                                         ELSE f[m]]
    <2>2. k \in Nat /\ k + 1 \in 0..n
        OBVIOUS
    <2>3. ASSUME NEW m \in 0..(k + 1)
          PROVE  g[m] = IF m = 0 THEN First ELSE Step(g[m - 1], m)
        <3>1. CASE m = k + 1
            <4>1. m # 0 /\ m - 1 = k /\ k # k + 1 /\ k \in 0..(k + 1)
                BY <2>2, <3>1
            <4>2. g[m - 1] = f[k] /\ g[m] = Step(f[k], k + 1)
                BY <3>1, <4>1
            <4>3. QED
                BY <3>1, <4>1, <4>2
        <3>2. CASE m # k + 1
            <4>1. m \in 0..k /\ g[m] = f[m]
                BY <2>2, <3>2
            <4>2. f[m] = IF m = 0 THEN First ELSE Step(f[m - 1], m)
                BY <2>1, <4>1 DEF TagTurns, First
            <4>3. m # 0 => m - 1 \in 0..(k + 1) /\ m - 1 # k + 1
                BY <2>2, <4>1
            <4>4. m # 0 => g[m - 1] = f[m - 1]
                BY <4>3
            <4>5. QED
                BY <4>1, <4>2, <4>4
        <3>3. QED
            BY <3>1, <3>2
    <2>4. g = [m \in 0..(k + 1) |-> g[m]]
        OBVIOUS
    <2> HIDE DEF g
    <2>5. TagTurns(t, e, k + 1, g)
        BY <2>3, <2>4 DEF TagTurns, First
    <2>6. QED
        BY <2>2, <2>5
<1> HIDE DEF P
<1>3. 0..n \subseteq P
    BY <1>1, <1>2, CountUp
<1>4. QED
    BY <1>3 DEF P

(* After all of them a tag has the last value set, or the host name. *)
LEMMA GlobalTags ==
    ASSUME NEW e \in Environments
    PROVE  /\ TagsOK(WithGlobalTags(<< >>, e))
           /\ \A k : k # "" =>
                /\ \A m : LastSetBy(e, k, Len(e.tags), m) =>
                     ValueIn(WithGlobalTags(<< >>, e), k) = TrimSpace(e.tags[m].value)
                /\ NotSetBy(e, k, Len(e.tags)) =>
                     ValueIn(WithGlobalTags(<< >>, e), k) = HostTag(e, k)
<1> PICK N : N = Len(e.tags)
    OBVIOUS
<1>1. /\ N \in Nat /\ DOMAIN e.tags = 1..N /\ e.hostname \in Values
      /\ \A n \in 1..N : e.tags[n].value \in Values
    <2>1. e.tags \in Seq([key : STRING, value : Values]) /\ e.hostname \in Values
        BY EnvironmentsAssumption
    <2>2. \A n \in 1..N : e.tags[n] \in [key : STRING, value : Values]
        BY <2>1, ElementOfSeq
    <2>3. QED
        BY <2>1, <2>2, LenProperties
<1>2. PICK f : TagTurns(<< >>, e, N, f) /\ WithGlobalTags(<< >>, e) = f[N]
    <2> DEFINE after[n \in 0..Len(e.tags)] ==
            IF n = 0 THEN WithTag(<< >>, "agent_hostname", e.hostname)
            ELSE WithTag(after[n - 1], e.tags[n].key, TrimSpace(e.tags[n].value))
    <2> DEFINE g == CHOOSE f : TagTurns(<< >>, e, Len(e.tags), f)
    <2>1. TagTurns(<< >>, e, Len(e.tags), g)
        BY <1>1, TagTurnsExist
    <2>2. after = g
        BY Zenon DEF TagTurns
    <2>3. WithGlobalTags(<< >>, e) = after[Len(e.tags)]
        BY DEF WithGlobalTags
    <2>4. QED
        BY <2>1, <2>2, <2>3, Zenon
<1> DEFINE Good(n) ==
        /\ TagsOK(f[n])
        /\ \A k : k # "" =>
             /\ \A m : LastSetBy(e, k, n, m) =>
                  ValueIn(f[n], k) = TrimSpace(e.tags[m].value)
             /\ NotSetBy(e, k, n) => ValueIn(f[n], k) = HostTag(e, k)
           P == {n \in 0..N : Good(n)}
<1>3. 0 \in P
    <2>1. f[0] = WithTag(<< >>, "agent_hostname", e.hostname)
        BY <1>1, <1>2 DEF TagTurns
    <2>2. TagsOK(f[0]) /\ \A k : k # "" => ValueIn(f[0], k) = HostTag(e, k)
        <3>1. PICK none : none = << >>
            OBVIOUS
        <3>2. TagsOK(none) /\ \A k : ValueIn(none, k) = Blank
            BY <3>1, NoTags
        <3>3. PICK name, h : name = "agent_hostname" /\ h = e.hostname
            OBVIOUS
        <3>4. h \in Values /\ name # "" /\ f[0] = WithTag(none, name, h)
            BY <1>1, <2>1, <3>1, <3>3
        <3>5. /\ TagsOK(WithTag(none, name, h))
              /\ \A k : ValueIn(WithTag(none, name, h), k) =
                    IF k = name /\ name # "" /\ h # Blank THEN h ELSE ValueIn(none, k)
            <4>1. TagsOK(none)
                BY <3>2
            <4>2. h \in Values
                BY <3>4
            <4>3. QED
                BY <4>1, <4>2, WithTagGives
        <3>6. \A k : ValueIn(f[0], k) = IF k = name /\ h # Blank THEN h ELSE Blank
            BY <3>2, <3>4, <3>5
        <3>7. QED
            BY <3>3, <3>4, <3>5, <3>6 DEF HostTag
    <2>3. \A k, m : ~ LastSetBy(e, k, 0, m)
        BY DEF LastSetBy
    <2>4. Good(0)
        BY <2>2, <2>3
    <2> HIDE DEF Good
    <2>5. QED
        BY <1>1, <2>4
<1>4. ASSUME NEW n \in 0..(N - 1), n \in P
      PROVE  n + 1 \in P
    <2>1. /\ n \in Nat /\ n + 1 \in 1..N /\ n + 1 \in 0..N
          /\ n + 1 - 1 = n /\ n + 1 # 0
        BY <1>1
    <2>2. PICK key, v : key = e.tags[n + 1].key /\ v = e.tags[n + 1].value
        OBVIOUS
    <2>3. v \in Values /\ f[n + 1] = WithTag(f[n], key, TrimSpace(v))
        BY <1>1, <1>2, <2>1, <2>2 DEF TagTurns
    <2>4. TagsOK(f[n]) /\ Good(n)
        BY <1>4
    <2>5. /\ TagsOK(f[n + 1])
          /\ \A k : ValueIn(f[n + 1], k) =
                IF k = key /\ key # "" /\ v.word # "" THEN TrimSpace(v)
                ELSE ValueIn(f[n], k)
        <3>1. PICK x \in Values : x = TrimSpace(v)
            BY <2>3, TrimmedValue
        <3>2. x # Blank <=> v.word # ""
            BY <2>3, <3>1, TrimmedValue
        <3>3. /\ TagsOK(WithTag(f[n], key, x))
              /\ \A k : ValueIn(WithTag(f[n], key, x), k) =
                    IF k = key /\ key # "" /\ x # Blank THEN x ELSE ValueIn(f[n], k)
            BY <2>4, WithTagGives
        <3>4. QED
            BY <2>3, <3>1, <3>2, <3>3
    <2>6. ASSUME NEW k, k # ""
          PROVE  n + 1 \in SetBy(e, k) <=> k = key /\ v.word # ""
        BY <1>1, <2>1, <2>2 DEF SetBy, Word
    <2>7. ASSUME NEW k, k # "", NEW m, LastSetBy(e, k, n + 1, m)
          PROVE  ValueIn(f[n + 1], k) = TrimSpace(e.tags[m].value)
        <3>1. m \in 1..(n + 1) /\ m \in SetBy(e, k)
            BY <2>7 DEF LastSetBy
        <3>2. CASE m = n + 1
            <4>1. k = key /\ v.word # ""
                BY <2>6, <2>7, <3>1, <3>2
            <4>2. QED
                BY <2>2, <2>5, <2>7, <3>2, <4>1
        <3>3. CASE m # n + 1
            <4>1. m \in 1..n /\ n + 1 \in (m + 1)..(n + 1)
                BY <2>1, <3>1, <3>3
            <4>2. n + 1 \notin SetBy(e, k)
                BY <2>7, <4>1 DEF LastSetBy
            <4>3. \A l \in (m + 1)..n : l \in (m + 1)..(n + 1)
                BY <2>1, <4>1
            <4>4. LastSetBy(e, k, n, m)
                BY <2>7, <3>1, <4>1, <4>3 DEF LastSetBy
            <4>5. ValueIn(f[n], k) = TrimSpace(e.tags[m].value)
                BY <2>4, <2>7, <4>4
            <4>6. ~ (k = key /\ v.word # "")
                BY <2>6, <2>7, <4>2
            <4>7. QED
                BY <2>5, <4>5, <4>6
        <3>4. QED
            BY <3>2, <3>3
    <2>8. ASSUME NEW k, k # "", NotSetBy(e, k, n + 1)
          PROVE  ValueIn(f[n + 1], k) = HostTag(e, k)
        <3>1. /\ \A l \in 1..n : l \in 1..(n + 1)
              /\ n + 1 \in 1..(n + 1)
            BY <2>1
        <3>2. NotSetBy(e, k, n) /\ n + 1 \notin SetBy(e, k)
            BY <2>8, <3>1 DEF NotSetBy
        <3>3. ~ (k = key /\ v.word # "")
            BY <2>6, <2>8, <3>2
        <3>4. ValueIn(f[n], k) = HostTag(e, k)
            BY <2>4, <2>8, <3>2
        <3>5. QED
            BY <2>5, <3>3, <3>4
    <2>9. Good(n + 1)
        BY <2>5, <2>7, <2>8
    <2> HIDE DEF Good
    <2>10. QED
        BY <2>1, <2>9
<1>5. 0..N \subseteq P
    <2> HIDE DEF P
    <2>1. QED
        BY <1>1, <1>3, <1>4, CountUp
<1>6. Good(N)
    <2> HIDE DEF Good
    <2>1. QED
        BY <1>1, <1>5
<1>7. QED
    BY <1>2, <1>6

(* The tags of the main hub, once main has set all of them. *)
ClusterName(e)     == Field(e.instance, "cluster-name", "clusterName")
ClusterLocation(e) == Field(e.instance, "cluster-location", "clusterLocation")
ProjectName(e)     == Field(e.project, "project-id", "projectId")

MetadataRead(e) == e.instance.status = "ok" /\ e.project.status = "ok"

FullTags(e) ==
    LET t == WithGlobalTags(<< >>, e)
    IN  IF ~UsesGKE(e) THEN t
        ELSE WithTag(WithTag(WithTag(t, "gke_cluster_name", ClusterName(e)),
                             "gke_cluster_location", ClusterLocation(e)),
                     "gke_project_name", ProjectName(e))

LEMMA InstanceValues ==
    ASSUME NEW e \in Environments, e.instance.status = "ok"
    PROVE  ClusterName(e) \in Values /\ ClusterLocation(e) \in Values
<1>1. \A x \in {"cluster-name", "clusterName", "cluster-location", "clusterLocation"} :
        e.instance[x] \in Values
    BY EnvironmentsAssumption
<1>2. QED
    BY <1>1 DEF ClusterName, ClusterLocation, Field

LEMMA ProjectValues ==
    ASSUME NEW e \in Environments, e.project.status = "ok"
    PROVE  ProjectName(e) \in Values
<1>1. \A x \in {"project-id", "projectId"} : e.project[x] \in Values
    BY EnvironmentsAssumption
<1>2. QED
    BY <1>1 DEF ProjectName, Field

LEMMA MetadataTags ==
    ASSUME NEW e
    PROVE  /\ ~UsesGKE(e) => DOMAIN GKETags(e) = {}
           /\ UsesGKE(e) =>
                /\ DOMAIN GKETags(e) =
                     {"gke_cluster_name", "gke_cluster_location", "gke_project_name"}
                /\ GKETags(e)["gke_cluster_name"] = ClusterName(e)
                /\ GKETags(e)["gke_cluster_location"] = ClusterLocation(e)
                /\ GKETags(e)["gke_project_name"] = ProjectName(e)
    BY DEF GKETags, ClusterName, ClusterLocation, ProjectName, Field

(* What the metadata does not set is as the environment has it. *)
EnvironmentTag(e, k) ==
    IF SetBy(e, k) # {}
    THEN [e.tags[Max(SetBy(e, k))].value EXCEPT !.spaces = FALSE]
    ELSE HostTag(e, k)

LEMMA GlobalTagValues ==
    ASSUME NEW e \in Environments, NEW k, IsName(k)
    PROVE  ValueIn(WithGlobalTags(<< >>, e), k) = EnvironmentTag(e, k)
<1>1. PICK N \in Nat :
        /\ N = Len(e.tags) /\ DOMAIN e.tags = 1..N
        /\ \A n \in 1..N : e.tags[n].value \in Values
    <2>1. e.tags \in Seq([key : STRING, value : Values])
        BY EnvironmentsAssumption
    <2>2. \A n \in 1..Len(e.tags) : e.tags[n] \in [key : STRING, value : Values]
        BY <2>1, ElementOfSeq
    <2>3. QED
        BY <2>1, <2>2, LenProperties
<1>2. SetBy(e, k) \in SUBSET (1..N)
    BY <1>1 DEF SetBy
<1>3. CASE SetBy(e, k) # {}
    <2>1. PICK m \in 1..N : m = Max(SetBy(e, k)) /\ m \in SetBy(e, k)
        BY <1>1, <1>2, <1>3, LargestIndex
    <2>2. \A l \in 1..N : l \in SetBy(e, k) => l <= m
        <3>1. \A l \in SetBy(e, k) : l <= Max(SetBy(e, k))
            BY <1>1, <1>2, <1>3, LargestIndex
        <3>2. QED
            BY <2>1, <3>1
    <2>3. ASSUME NEW l \in (m + 1)..N
          PROVE  l \notin SetBy(e, k)
        <3>1. N \in Nat /\ m \in 1..N
            BY <1>1, <2>1
        <3>2. l \in 1..N /\ ~ (l <= m)
            BY <2>3, <3>1
        <3>3. QED
            BY <2>2, <3>2
    <2>4. LastSetBy(e, k, N, m)
        BY <2>1, <2>3 DEF LastSetBy
    <2>5. ValueIn(WithGlobalTags(<< >>, e), k) = TrimSpace(e.tags[m].value)
        BY <1>1, <2>4, GlobalTags DEF IsName
    <2>6. e.tags[m].value \in Values /\ e.tags[m].value.word # ""
        BY <1>1, <2>1 DEF SetBy, Word
    <2>7. TrimSpace(e.tags[m].value) = [e.tags[m].value EXCEPT !.spaces = FALSE]
        BY <2>6, TrimmedValue
    <2>8. QED
        BY <1>3, <2>1, <2>5, <2>7 DEF EnvironmentTag
<1>4. CASE SetBy(e, k) = {}
    <2>1. NotSetBy(e, k, N)
        BY <1>4 DEF NotSetBy
    <2>2. QED
        BY <1>1, <1>4, <2>1, GlobalTags DEF EnvironmentTag, IsName
<1>5. QED
    BY <1>3, <1>4

LEMMA FullTagValues ==
    ASSUME NEW e \in Environments, UsesGKE(e) => MetadataRead(e)
    PROVE  /\ TagsOK(FullTags(e))
           /\ \A k : k # "" => ValueIn(FullTags(e), k) = TagOf(e, k)
<1>1. PICK t : t = WithGlobalTags(<< >>, e)
    OBVIOUS
<1>2. TagsOK(t) /\ \A k : k # "" => ValueIn(t, k) = EnvironmentTag(e, k)
    BY <1>1, GlobalTags, GlobalTagValues DEF IsName
<1>3. ASSUME NEW k
      PROVE  TagOf(e, k) = IF k \in DOMAIN GKETags(e) /\ GKETags(e)[k] # Blank
                           THEN GKETags(e)[k] ELSE EnvironmentTag(e, k)
    BY DEF TagOf, EnvironmentTag, HostTag, SetBy
<1>4. CASE ~UsesGKE(e)
    <2>1. FullTags(e) = t
        BY <1>1, <1>4 DEF FullTags
    <2>2. DOMAIN GKETags(e) = {}
        BY <1>4, MetadataTags
    <2>3. \A k : TagOf(e, k) = EnvironmentTag(e, k)
        BY <1>3, <2>2
    <2>4. QED
        BY <1>2, <2>1, <2>3
<1>5. CASE UsesGKE(e)
    <2>1. PICK n \in Values, l \in Values, p \in Values :
            n = ClusterName(e) /\ l = ClusterLocation(e) /\ p = ProjectName(e)
        BY <1>5, InstanceValues, ProjectValues DEF MetadataRead
    <2>2. PICK a, b, c : a = "gke_cluster_name" /\ b = "gke_cluster_location"
                         /\ c = "gke_project_name"
        OBVIOUS
    <2>3. a # "" /\ b # "" /\ c # "" /\ a # b /\ a # c /\ b # c
        BY <2>2
    <2>4. PICK w : w = WithTag(WithTag(WithTag(t, a, n), b, l), c, p)
        OBVIOUS
    <2>5. /\ TagsOK(w)
          /\ \A k : ValueIn(w, k) =
               ElseValue(k, c, p, ElseValue(k, b, l, ElseValue(k, a, n, ValueIn(t, k))))
        <3>1. TagsOK(t)
            BY <1>2
        <3>2. IsName(a) /\ IsName(b) /\ IsName(c)
            BY <2>3 DEF IsName
        <3>3. /\ TagsOK(WithTag(WithTag(WithTag(t, a, n), b, l), c, p))
              /\ \A k : ValueIn(WithTag(WithTag(WithTag(t, a, n), b, l), c, p), k) =
                   ElseValue(k, c, p, ElseValue(k, b, l, ElseValue(k, a, n, ValueIn(t, k))))
            <4>1. n \in Values /\ l \in Values /\ p \in Values
                BY <2>1
            <4>2. QED
                BY <3>1, <3>2, <4>1, ThreeTags
        <3>4. QED
            BY <2>4, <3>3, Zenon
    <2>6. /\ DOMAIN GKETags(e) = {a, b, c}
          /\ GKETags(e)[a] = n /\ GKETags(e)[b] = l /\ GKETags(e)[c] = p
        BY <1>5, <2>1, <2>2, MetadataTags
    <2>7. ASSUME NEW k, k # ""
          PROVE  ValueIn(w, k) = TagOf(e, k)
        <3>1. PICK x, y : x = EnvironmentTag(e, k) /\ y = GKETags(e)[k]
            OBVIOUS
        <3>2. ValueIn(w, k) = IF k = c /\ p # Blank THEN p
                              ELSE IF k = b /\ l # Blank THEN l
                              ELSE IF k = a /\ n # Blank THEN n
                              ELSE x
            BY <1>2, <2>5, <2>7, <3>1 DEF ElseValue
        <3>3. TagOf(e, k) = IF k \in {a, b, c} /\ y # Blank THEN y ELSE x
            BY <1>3, <2>6, <3>1
        <3>4. (k = a => y = n) /\ (k = b => y = l) /\ (k = c => y = p)
            BY <2>6, <3>1
        <3>5. CASE k \in {a, b, c}
            <4>1. ValueIn(w, k) = IF y # Blank THEN y ELSE x
                BY <2>3, <3>2, <3>4, <3>5
            <4>2. QED
                BY <3>3, <3>5, <4>1
        <3>6. CASE k \notin {a, b, c}
            BY <3>2, <3>3, <3>6
        <3>7. QED
            BY <3>5, <3>6
    <2>8. FullTags(e) = w
        BY <1>1, <1>5, <2>1, <2>2, <2>4 DEF FullTags
    <2>9. QED
        BY <2>5, <2>7, <2>8
<1>6. QED
    BY <1>4, <1>5

(* The value of each tag, as a function. *)
TagKeys(e) == {e.tags[n].key : n \in DOMAIN e.tags}
                \cup {"agent_hostname"} \cup DOMAIN GKETags(e)

LEMMA FullTagsAreComplete ==
    ASSUME NEW e \in Environments, UsesGKE(e) => MetadataRead(e)
    PROVE  FullTags(e) = [k \in {k \in TagKeys(e) \ {""} : TagOf(e, k) # Blank}
                            |-> TagOf(e, k)]
<1>1. PICK t : t = FullTags(e)
    OBVIOUS
<1>2. TagsOK(t) /\ \A k : k # "" => ValueIn(t, k) = TagOf(e, k)
    BY <1>1, FullTagValues
<1>3. ASSUME NEW k, TagOf(e, k) # Blank
      PROVE  k \in TagKeys(e)
    BY <1>3 DEF TagOf, TagKeys
<1>4. \A k : k \in DOMAIN t <=> k \in TagKeys(e) \ {""} /\ TagOf(e, k) # Blank
    <2>1. ASSUME NEW k
          PROVE  k \in DOMAIN t <=> k # "" /\ TagOf(e, k) # Blank
        BY <1>2 DEF TagsOK, ValueIn
    <2>2. QED
        BY <1>3, <2>1
<1>5. \A k \in DOMAIN t : t[k] = TagOf(e, k)
    BY <1>2, <1>4 DEF ValueIn
<1>6. DOMAIN t = {k \in TagKeys(e) \ {""} : TagOf(e, k) # Blank}
    BY <1>4
<1>7. t = [k \in DOMAIN t |-> t[k]]
    BY <1>2 DEF TagsOK
<1>8. QED
    BY <1>1, <1>5, <1>6, <1>7
----------------------------------------------------------------------------
(* What main has set up by each of its steps.                              *)
AtSDK          == {"sdk", "filters", "config", "context", "tags"}
AtIntegrations == {"integrations", "instance", "project", "setScope"}
AtGoroutines   == {"events", "pods", "running"}
Begun          == {"pods", "running", "exited"}

Metadata == [name : Values, location : Values, project : Values, initialized : BOOLEAN]

(* The types of main's variables; the link is never set on the main hub.   *)
MainOK ==
    /\ env \in Environments
    /\ pc \in AtSDK \cup AtIntegrations \cup {"namespaces"} \cup AtGoroutines
               \cup {"exited"}
    /\ config \in {"none", "in", "out", "error"}
    /\ scope.kubernetes \in {"none", "endpoint", "version"}
    /\ TagsOK(scope.tags)
    /\ scope = [kubernetes |-> scope.kubernetes, tags |-> scope.tags,
                gke |-> scope.gke, link |-> Unset]
    /\ gke \in Metadata /\ scope.gke \in Metadata
    /\ DOMAIN namespaces \subseteq Calls

(* What each setting must have been for main to come this far. *)
SettingsOK ==
    /\ pc \notin {"sdk", "exited"} => env.dsn # "invalid"
    /\ pc \notin {"sdk", "filters", "config", "exited"} => HasClusterConfig(env)
    /\ pc \in {"instance", "project", "setScope"} => UsesGKE(env)
    /\ pc \in {"project", "setScope"} => env.instance.status = "ok"
    /\ pc = "setScope" => env.project.status = "ok"
    /\ pc \in {"namespaces"} \cup AtGoroutines =>
         (UsesGKE(env) => MetadataRead(env))

(* What is set on the main hub, and what of it is still to be set. *)
ScopeOK ==
    /\ pc \notin {"sdk", "filters", "config", "context", "exited"} =>
         scope.kubernetes # "none"
    /\ pc \in AtSDK => scope.tags = << >>
    /\ pc \in AtIntegrations => scope.tags = WithGlobalTags(<< >>, env)
    /\ pc \in {"namespaces"} \cup AtGoroutines =>
         scope.tags = FullTags(env) /\ scope.gke.initialized = UsesGKE(env)
    /\ pc \in AtSDK \cup AtIntegrations => ~ scope.gke.initialized
    /\ pc \in {"project", "setScope"} =>
         gke.name = ClusterName(env) /\ gke.location = ClusterLocation(env)
    /\ pc = "setScope" => gke.project = ProjectName(env) /\ gke.initialized

FiltersOK ==
    pc = "config" => filters = [reasons |-> FilterSet(env.reasons, DefaultFilterReasons),
                                sources |-> FilterSet(env.sources, {})]

NamespacesOK ==
    pc \in AtGoroutines =>
        namespaces = NamespacesToWatch(env.namespaces) /\ namespaces # << >>

MainInv == MainOK /\ SettingsOK /\ ScopeOK /\ FiltersOK /\ NamespacesOK

(* An agent with all that it was asked for. *)
Ready ==
    /\ env.dsn # "invalid" /\ HasClusterConfig(env)
    /\ UsesGKE(env) => MetadataRead(env)
    /\ scope.kubernetes # "none"
    /\ scope.tags = FullTags(env) /\ scope.gke.initialized = UsesGKE(env)
    /\ namespaces = NamespacesToWatch(env.namespaces) /\ namespaces # << >>

(* Every hub is a copy of that of main when main was done with it. *)
HubsOK ==
    \A w \in Watchers :
        /\ hub[w] # Unset =>
             hub[w] = scope /\ Ready /\ pc \in Begun /\ w[2] \in DOMAIN namespaces
        /\ pod[w] # Unset => hub[w] # Unset
        /\ look[w].pc = "idle" <=> pod[w] = Unset

(* What every report was sent with. *)
IsSent(r) ==
    /\ r.pod \in Pods /\ r.managed = Cleared
    /\ r.found \/ r.missed
    /\ r.link \in {r.pod, Unset}
    /\ r.link # Unset => r.found /\ Blank \notin {gke.name, gke.location, gke.project}

ReportsOK ==
    /\ \A r \in reports : IsSent(r)
    /\ reports # {} => pc \in Begun

BoundsOK ==
    /\ begun \in Nat /\ begun + changes <= MaxWork
    /\ version \in [Objects -> 0..(changes + 1)]

WatchersOK ==
    /\ hub = [w \in Watchers |-> hub[w]]
    /\ pod \in [Watchers -> Pods \cup {Unset}]

WatchInv == WatchersOK /\ HubsOK /\ ReportsOK /\ BoundsOK

StartUpInv == MainInv /\ InformersInv /\ WatchInv

(* A setting is read as the README says it is. *)
LEMMA SettingsAreRead ==
    ASSUME NEW e \in Environments
    PROVE  /\ ClusterConfig(e) # "error" => HasClusterConfig(e)
           /\ ClusterConfig(e) \in {"in", "out", "error"}
           /\ IsTruthy(e.gke) <=> UsesGKE(e)
<1>1. e.configType \in Values /\ e.gke \in Values
    BY EnvironmentsAssumption
<1>2. /\ ToLower(TrimSpace(e.configType)) = Plain(e.configType.word)
      /\ ToLower(TrimSpace(e.gke)) = Plain(e.gke.word)
    BY <1>1, LoweredValue DEF Values
<1>3. PICK type : type = e.configType.word
    OBVIOUS
<1>4. ToLower(TrimSpace(e.configType)).word = type
    BY <1>2, <1>3 DEF Plain
<1>5. ClusterConfig(e) =
        CASE type \in {"", "auto"} -> IF e.inCluster THEN "in" ELSE OutOfCluster(e)
          [] type = "in-cluster"   -> IF e.inCluster THEN "in" ELSE "error"
          [] type = "out-cluster"  -> OutOfCluster(e)
          [] OTHER                 -> "error"
    BY <1>4, Zenon DEF ClusterConfig
<1>6. OutOfCluster(e) \in {"out", "error"}
      /\ (OutOfCluster(e) = "out" =>
            e.kubeconfigValid /\ (e.kubeconfigPath \/ e.home))
    BY DEF OutOfCluster
<1>7. /\ ClusterConfig(e) # "error" => HasClusterConfig(e)
      /\ ClusterConfig(e) \in {"in", "out", "error"}
    BY <1>3, <1>5, <1>6 DEF HasClusterConfig, Word
<1>8. IsTruthy(e.gke) <=> UsesGKE(e)
    <2>1. \A x, y : Plain(x) = Plain(y) <=> x = y
        BY DEF Plain
    <2>2. QED
        BY <1>2, <2>1, Zenon DEF IsTruthy, UsesGKE, Word
<1>9. QED
    BY <1>7, <1>8

LEMMA MainInit == Init => MainInv
<1> SUFFICES ASSUME Init
             PROVE  MainInv
    OBVIOUS
<1>1. gke \in Metadata /\ scope.gke = gke /\ ~ gke.initialized
    <2>1. PICK b \in Values : b = Blank
        BY BlankAssumption
    <2>2. NotInitialized \in Metadata /\ ~ NotInitialized.initialized
        BY <2>1 DEF NotInitialized, Metadata
    <2>3. gke = NotInitialized /\ scope.gke = NotInitialized
        BY DEF Init, NoScope
    <2>4. QED
        BY <2>2, <2>3
<1>2. MainOK
    <2>1. TagsOK(scope.tags)
        BY NoTags DEF Init, NoScope
    <2>2. DOMAIN namespaces = {}
        BY DEF Init
    <2>3. QED
        BY <1>1, <2>1, <2>2 DEF Init, NoScope, MainOK, AtSDK
<1>3. SettingsOK /\ FiltersOK /\ NamespacesOK
    BY DEF Init, SettingsOK, FiltersOK, NamespacesOK, AtGoroutines
<1>4. ScopeOK
    BY <1>1 DEF Init, NoScope, ScopeOK, AtSDK, AtIntegrations, AtGoroutines
<1>5. QED
    BY <1>2, <1>3, <1>4 DEF MainInv

(* A step of a watcher, of an informer or of the cluster changes nothing   *)
(* of main, or ends the agent.                                             *)
LEMMA MainKept ==
    ASSUME MainInv, UNCHANGED <<env, mainVars>>, pc' = pc \/ pc' = "exited"
    PROVE  MainInv'
<1>1. MainOK'
    BY DEF MainInv, MainOK, mainVars
<1>2. CASE pc' = pc
    BY <1>1, <1>2 DEF MainInv, SettingsOK, ScopeOK, FiltersOK, NamespacesOK, mainVars
<1>3. CASE pc' = "exited"
    <2>1. pc' \notin AtSDK \cup AtIntegrations \cup {"namespaces"} \cup AtGoroutines
        BY <1>3 DEF AtSDK, AtIntegrations, AtGoroutines
    <2>2. SettingsOK' /\ FiltersOK' /\ NamespacesOK'
        BY <1>3, <2>1 DEF SettingsOK, FiltersOK, NamespacesOK
    <2>3. ScopeOK'
        BY <1>3, <2>1 DEF ScopeOK
    <2>4. QED
        BY <1>1, <2>2, <2>3 DEF MainInv
<1>4. QED
    BY <1>2, <1>3

LEMMA MainSteps ==
    ASSUME MainInv, MainStep
    PROVE  MainInv'
<1>1. env' = env /\ env \in Environments
    BY DEF MainStep, InitSentrySDK, PrepareEventFilters, GetClusterConfig,
           SetKubernetesSentryContext, SetGlobalSentryTags, RunIntegrations,
           ReadInstanceMetadata, ReadProjectMetadata, ReadMetadata,
           SetIntegrationScope, GetNamespacesToWatch, StartWatchers, Main,
           MainInv, MainOK
<1>2. CASE InitSentrySDK
    <2>1. /\ pc = "sdk" /\ pc' = IF env.dsn = "invalid" THEN "exited" ELSE "filters"
          /\ UNCHANGED <<config, filters, scope, gke, namespaces>>
        BY <1>2 DEF InitSentrySDK, Main
    <2>2. MainOK'
        BY <1>1, <2>1 DEF MainInv, MainOK, AtSDK
    <2>3. SettingsOK'
        BY <1>1, <2>1 DEF SettingsOK, AtGoroutines
    <2>4. ScopeOK'
        BY <1>1, <2>1 DEF MainInv, ScopeOK, AtSDK, AtIntegrations, AtGoroutines
    <2>5. FiltersOK' /\ NamespacesOK'
        BY <2>1 DEF FiltersOK, NamespacesOK, AtGoroutines
    <2>6. QED
        BY <2>2, <2>3, <2>4, <2>5 DEF MainInv
<1>3. CASE PrepareEventFilters
    <2>1. /\ pc = "filters" /\ pc' = "config"
          /\ UNCHANGED <<config, scope, gke, namespaces>>
        BY <1>3 DEF PrepareEventFilters, Main
    <2>2. MainOK'
        BY <1>1, <2>1 DEF MainInv, MainOK, AtSDK
    <2>3. SettingsOK'
        BY <1>1, <2>1 DEF MainInv, SettingsOK, AtGoroutines
    <2>4. ScopeOK'
        BY <1>1, <2>1 DEF MainInv, ScopeOK, AtSDK, AtIntegrations, AtGoroutines
    <2>5. FiltersOK'
        BY <1>1, <1>3 DEF PrepareEventFilters, FiltersOK
    <2>6. NamespacesOK'
        BY <2>1 DEF NamespacesOK, AtGoroutines
    <2>7. QED
        BY <2>2, <2>3, <2>4, <2>5, <2>6 DEF MainInv
<1>4. CASE GetClusterConfig
    <2>1. /\ pc = "config"
          /\ pc' = IF ClusterConfig(env) = "error" THEN "exited" ELSE "context"
          /\ config' = ClusterConfig(env)
          /\ UNCHANGED <<filters, scope, gke, namespaces>>
        BY <1>4 DEF GetClusterConfig, Main
    <2>2. /\ ClusterConfig(env) # "error" => HasClusterConfig(env)
          /\ ClusterConfig(env) \in {"in", "out", "error"}
        BY <1>1, SettingsAreRead
    <2>3. MainOK'
        BY <1>1, <2>1, <2>2 DEF MainInv, MainOK, AtSDK
    <2>4. SettingsOK'
        BY <1>1, <2>1, <2>2 DEF MainInv, SettingsOK, AtGoroutines
    <2>5. ScopeOK'
        BY <1>1, <2>1 DEF MainInv, ScopeOK, AtSDK, AtIntegrations, AtGoroutines
    <2>6. FiltersOK' /\ NamespacesOK'
        BY <2>1 DEF FiltersOK, NamespacesOK, AtGoroutines
    <2>7. QED
        BY <2>3, <2>4, <2>5, <2>6 DEF MainInv
<1>5. CASE SetKubernetesSentryContext
    <2>1. /\ pc = "context" /\ pc' = "tags"
          /\ UNCHANGED <<config, filters, gke, namespaces>>
        BY <1>5 DEF SetKubernetesSentryContext, Main
    <2>2. PICK k \in {"version", "endpoint"} :
            scope' = [kubernetes |-> k, tags |-> scope.tags, gke |-> scope.gke,
                      link |-> Unset]
        BY <1>5 DEF SetKubernetesSentryContext, MainInv, MainOK
    <2>3. MainOK'
        BY <1>1, <2>1, <2>2 DEF MainInv, MainOK, AtSDK
    <2>4. SettingsOK'
        BY <1>1, <2>1 DEF MainInv, SettingsOK, AtGoroutines
    <2>5. ScopeOK'
        BY <1>1, <2>1, <2>2 DEF MainInv, ScopeOK, AtSDK, AtIntegrations, AtGoroutines
    <2>6. FiltersOK' /\ NamespacesOK'
        BY <2>1 DEF FiltersOK, NamespacesOK, AtGoroutines
    <2>7. QED
        BY <2>3, <2>4, <2>5, <2>6 DEF MainInv
<1>6. CASE SetGlobalSentryTags
    <2>1. /\ pc = "tags" /\ pc' = "integrations"
          /\ UNCHANGED <<config, filters, gke, namespaces>>
        BY <1>6 DEF SetGlobalSentryTags, Main
    <2>2. PICK t : t = WithGlobalTags(<< >>, env)
        OBVIOUS
    <2>3. scope' = [kubernetes |-> scope.kubernetes, tags |-> t, gke |-> scope.gke,
                    link |-> Unset]
        BY <1>6, <2>1, <2>2
           DEF SetGlobalSentryTags, MainInv, MainOK, ScopeOK, AtSDK
    <2>4. TagsOK(t)
        BY <1>1, <2>2, GlobalTags
    <2>5. MainOK'
        BY <1>1, <2>1, <2>3, <2>4 DEF MainInv, MainOK, AtIntegrations
    <2>6. SettingsOK'
        BY <1>1, <2>1 DEF MainInv, SettingsOK, AtGoroutines
    <2>7. ScopeOK'
        BY <1>1, <2>1, <2>2, <2>3
           DEF MainInv, ScopeOK, AtSDK, AtIntegrations, AtGoroutines
    <2>8. FiltersOK' /\ NamespacesOK'
        BY <2>1 DEF FiltersOK, NamespacesOK, AtGoroutines
    <2>9. QED
        BY <2>5, <2>6, <2>7, <2>8 DEF MainInv
<1>7. CASE RunIntegrations
    <2>1. /\ pc = "integrations"
          /\ pc' = IF IsTruthy(env.gke) THEN "instance" ELSE "namespaces"
          /\ UNCHANGED <<config, filters, scope, gke, namespaces>>
        BY <1>7 DEF RunIntegrations, Main
    <2>2. IsTruthy(env.gke) <=> UsesGKE(env)
        BY <1>1, SettingsAreRead
    <2>3. UsesGKE(env) \in BOOLEAN
        BY DEF UsesGKE
    <2>4. ~ UsesGKE(env) => FullTags(env) = WithGlobalTags(<< >>, env)
        BY DEF FullTags
    <2>5. MainOK'
        BY <1>1, <2>1 DEF MainInv, MainOK, AtIntegrations
    <2>6. SettingsOK'
        BY <1>1, <2>1, <2>2 DEF MainInv, SettingsOK, AtGoroutines
    <2>7. ScopeOK'
        BY <1>1, <2>1, <2>2, <2>3, <2>4
           DEF MainInv, MainOK, Metadata, ScopeOK, AtSDK, AtIntegrations, AtGoroutines
    <2>8. FiltersOK' /\ NamespacesOK'
        BY <2>1 DEF FiltersOK, NamespacesOK, AtGoroutines
    <2>9. QED
        BY <2>5, <2>6, <2>7, <2>8 DEF MainInv
<1>8. CASE ReadInstanceMetadata
    <2>1. /\ pc = "instance"
          /\ pc' = IF env.instance.status = "ok" THEN "project" ELSE "exited"
          /\ UNCHANGED <<config, filters, scope, namespaces>>
        BY <1>8 DEF ReadInstanceMetadata, ReadMetadata, Main
    <2>2. ASSUME env.instance.status = "ok"
          PROVE  MainOK' /\ ScopeOK'
        <3>1. PICK n \in Values, l \in Values :
                n = ClusterName(env) /\ l = ClusterLocation(env)
            BY <1>1, <2>2, InstanceValues
        <3>2. PICK p \in Values, i \in BOOLEAN : p = gke.project /\ i = gke.initialized
            BY DEF MainInv, MainOK, Metadata
        <3>3. gke' = [name |-> n, location |-> l, project |-> p, initialized |-> i]
            BY <1>8, <2>2, <3>1, <3>2
               DEF ReadInstanceMetadata, ClusterName, ClusterLocation, MainInv, MainOK,
                   Metadata
        <3>4. MainOK'
            BY <1>1, <2>1, <2>2, <3>3 DEF MainInv, MainOK, AtIntegrations, Metadata
        <3>5. ScopeOK'
            BY <1>1, <2>1, <2>2, <3>1, <3>3
               DEF MainInv, ScopeOK, AtSDK, AtIntegrations, AtGoroutines
        <3>6. QED
            BY <3>4, <3>5
    <2>3. ASSUME env.instance.status # "ok"
          PROVE  MainOK' /\ ScopeOK'
        <3>1. gke' = gke /\ pc' = "exited"
            BY <1>8, <2>1, <2>3 DEF ReadInstanceMetadata
        <3>2. QED
            BY <1>1, <2>1, <3>1
               DEF MainInv, MainOK, ScopeOK, AtSDK, AtIntegrations, AtGoroutines
    <2>4. SettingsOK'
        BY <1>1, <2>1 DEF MainInv, SettingsOK, AtGoroutines
    <2>5. FiltersOK' /\ NamespacesOK'
        BY <2>1 DEF FiltersOK, NamespacesOK, AtGoroutines
    <2>6. QED
        BY <2>2, <2>3, <2>4, <2>5 DEF MainInv
<1>9. CASE ReadProjectMetadata
    <2>1. /\ pc = "project"
          /\ pc' = IF env.project.status = "ok" THEN "setScope" ELSE "exited"
          /\ UNCHANGED <<config, filters, scope, namespaces>>
        BY <1>9 DEF ReadProjectMetadata, ReadMetadata, Main
    <2>2. ASSUME env.project.status = "ok"
          PROVE  MainOK' /\ ScopeOK'
        <3>1. PICK p \in Values : p = ProjectName(env)
            BY <1>1, <2>2, ProjectValues
        <3>2. PICK n \in Values, l \in Values :
                /\ n = gke.name /\ l = gke.location
                /\ n = ClusterName(env) /\ l = ClusterLocation(env)
            BY <2>1 DEF MainInv, MainOK, Metadata, ScopeOK
        <3>3. gke' = [name |-> n, location |-> l, project |-> p, initialized |-> TRUE]
            BY <1>9, <2>2, <3>1, <3>2
               DEF ReadProjectMetadata, ProjectName, MainInv, MainOK, Metadata
        <3>4. MainOK'
            BY <1>1, <2>1, <2>2, <3>3 DEF MainInv, MainOK, AtIntegrations, Metadata
        <3>5. ScopeOK'
            BY <1>1, <2>1, <2>2, <3>1, <3>2, <3>3
               DEF MainInv, ScopeOK, AtSDK, AtIntegrations, AtGoroutines
        <3>6. QED
            BY <3>4, <3>5
    <2>3. ASSUME env.project.status # "ok"
          PROVE  MainOK' /\ ScopeOK'
        <3>1. gke' = gke /\ pc' = "exited"
            BY <1>9, <2>1, <2>3 DEF ReadProjectMetadata
        <3>2. QED
            BY <1>1, <2>1, <3>1
               DEF MainInv, MainOK, ScopeOK, AtSDK, AtIntegrations, AtGoroutines
    <2>4. SettingsOK'
        BY <1>1, <2>1 DEF MainInv, SettingsOK, AtGoroutines
    <2>5. FiltersOK' /\ NamespacesOK'
        BY <2>1 DEF FiltersOK, NamespacesOK, AtGoroutines
    <2>6. QED
        BY <2>2, <2>3, <2>4, <2>5 DEF MainInv
<1>10. CASE SetIntegrationScope
    <2>1. /\ pc = "setScope" /\ pc' = "namespaces"
          /\ UNCHANGED <<config, filters, gke, namespaces>>
        BY <1>10 DEF SetIntegrationScope, Main
    <2>2. PICK t : t = FullTags(env)
        OBVIOUS
    <2>3. UsesGKE(env) /\ MetadataRead(env)
        BY <2>1 DEF MainInv, SettingsOK, MetadataRead
    <2>4. t = WithTag(WithTag(WithTag(scope.tags, "gke_cluster_name", gke.name),
                              "gke_cluster_location", gke.location),
                      "gke_project_name", gke.project)
        BY <2>1, <2>2, <2>3 DEF MainInv, ScopeOK, AtIntegrations, FullTags
    <2>5. scope' = [kubernetes |-> scope.kubernetes, tags |-> t, gke |-> gke,
                    link |-> Unset]
        <3>1. scope' = [scope EXCEPT !.gke = gke, !.tags = t]
            BY <1>10, <2>4 DEF SetIntegrationScope
        <3>2. PICK k, u, g : scope = [kubernetes |-> k, tags |-> u, gke |-> g,
                                      link |-> Unset]
            BY DEF MainInv, MainOK
        <3>3. QED
            BY <3>1, <3>2
    <2>6. TagsOK(t)
        BY <1>1, <2>2, <2>3, FullTagValues
    <2>7. MainOK'
        BY <1>1, <2>1, <2>5, <2>6 DEF MainInv, MainOK
    <2>8. SettingsOK'
        BY <1>1, <2>1, <2>3 DEF MainInv, SettingsOK, AtGoroutines
    <2>9. gke.initialized = UsesGKE(env)
        <3>1. gke.initialized /\ gke.initialized \in BOOLEAN
            BY <2>1 DEF MainInv, MainOK, ScopeOK, Metadata
        <3>2. UsesGKE(env) \in BOOLEAN
            BY DEF UsesGKE
        <3>3. QED
            BY <2>3, <3>1, <3>2
    <2>10. ScopeOK'
        BY <1>1, <2>1, <2>2, <2>5, <2>9
           DEF MainInv, ScopeOK, AtSDK, AtIntegrations, AtGoroutines
    <2>11. FiltersOK' /\ NamespacesOK'
        BY <2>1 DEF FiltersOK, NamespacesOK, AtGoroutines
    <2>12. QED
        BY <2>7, <2>8, <2>10, <2>11 DEF MainInv
<1>11. CASE GetNamespacesToWatch
    <2>1. PICK n : n = NamespacesToWatch(env.namespaces)
        OBVIOUS
    <2>2. /\ pc = "namespaces" /\ pc' = IF n = << >> THEN "exited" ELSE "events"
          /\ namespaces' = n /\ UNCHANGED <<config, filters, scope, gke>>
        BY <1>11, <2>1 DEF GetNamespacesToWatch, Main
    <2>3. DOMAIN n \subseteq Calls
        BY <1>1, <2>1, EnvironmentsAssumption
    <2>4. MainOK'
        BY <1>1, <2>2, <2>3 DEF MainInv, MainOK, AtGoroutines
    <2>5. SettingsOK'
        BY <1>1, <2>2 DEF MainInv, SettingsOK, AtGoroutines
    <2>6. ScopeOK'
        BY <1>1, <2>2 DEF MainInv, ScopeOK, AtSDK, AtIntegrations, AtGoroutines
    <2>7. FiltersOK' /\ NamespacesOK'
        BY <1>1, <2>1, <2>2 DEF FiltersOK, NamespacesOK, AtGoroutines
    <2>8. QED
        BY <2>4, <2>5, <2>6, <2>7 DEF MainInv
<1>12. CASE StartWatchers
    <2>1. /\ \/ pc = "events" /\ pc' = "pods"
             \/ pc = "pods" /\ pc' = "running"
          /\ UNCHANGED <<config, filters, scope, gke, namespaces>>
        BY <1>12 DEF StartWatchers, Main, mainVars
    <2>2. MainOK'
        BY <1>1, <2>1 DEF MainInv, MainOK, AtGoroutines
    <2>3. SettingsOK'
        BY <1>1, <2>1 DEF MainInv, SettingsOK, AtGoroutines
    <2>4. ScopeOK'
        BY <1>1, <2>1 DEF MainInv, ScopeOK, AtSDK, AtIntegrations, AtGoroutines
    <2>5. FiltersOK' /\ NamespacesOK'
        BY <1>1, <2>1 DEF MainInv, FiltersOK, NamespacesOK, AtGoroutines
    <2>6. QED
        BY <2>2, <2>3, <2>4, <2>5 DEF MainInv
<1>13. QED
    BY <1>2, <1>3, <1>4, <1>5, <1>6, <1>7, <1>8, <1>9, <1>10, <1>11, <1>12 DEF MainStep

(* Nothing that a watcher looks at is changed, or the agent ends. *)
LEMMA WatchKept ==
    ASSUME WatchInv, UNCHANGED <<env, mainVars, hub, pod, reports>>,
           pc' = pc \/ pc' = "exited", BoundsOK',
           \A w \in Watchers : look'[w].pc = "idle" <=> look[w].pc = "idle"
    PROVE  WatchInv'
<1>1. WatchersOK'
    BY DEF WatchInv, WatchersOK
<1>2. pc \in Begun => pc' \in Begun
    BY DEF Begun
<1>3. Ready => Ready'
    BY DEF Ready, mainVars
<1>4. HubsOK'
    BY <1>2, <1>3 DEF WatchInv, HubsOK, mainVars
<1>5. ReportsOK'
    BY <1>2 DEF WatchInv, ReportsOK, IsSent, mainVars
<1>6. QED
    BY <1>1, <1>4, <1>5 DEF WatchInv

(* Main has nothing left to set once the first hub can be cloned. *)
LEMMA WatchMain ==
    ASSUME WatchInv, MainStep
    PROVE  WatchInv'
<1>1. UNCHANGED <<env, watchVars, infVars>>
    BY DEF MainStep, InitSentrySDK, PrepareEventFilters, GetClusterConfig,
           SetKubernetesSentryContext, SetGlobalSentryTags, RunIntegrations,
           ReadInstanceMetadata, ReadProjectMetadata, ReadMetadata,
           SetIntegrationScope, GetNamespacesToWatch, StartWatchers, Main
<1>2. pc \in Begun => StartWatchers
    BY DEF MainStep, InitSentrySDK, PrepareEventFilters, GetClusterConfig,
           SetKubernetesSentryContext, SetGlobalSentryTags, RunIntegrations,
           ReadInstanceMetadata, ReadProjectMetadata, ReadMetadata,
           SetIntegrationScope, GetNamespacesToWatch, Main, Begun
<1>3. pc \in Begun => pc' \in Begun /\ UNCHANGED mainVars
    BY <1>2 DEF StartWatchers, Main, Begun
<1>4. WatchersOK' /\ BoundsOK'
    BY <1>1 DEF WatchInv, WatchersOK, BoundsOK, watchVars, infVars, cluster
<1>5. pc \in Begun /\ Ready => Ready'
    BY <1>1, <1>3 DEF Ready, mainVars
<1>6. HubsOK'
    BY <1>1, <1>3, <1>5 DEF WatchInv, HubsOK, watchVars, infVars, mainVars
<1>7. ReportsOK'
    BY <1>1, <1>3 DEF WatchInv, ReportsOK, IsSent, watchVars, mainVars
<1>8. QED
    BY <1>4, <1>6, <1>7 DEF WatchInv

(* A watcher's goroutine is started with all of main done. *)
LEMMA HubCloned ==
    ASSUME MainInv, WatchInv, NEW w \in Watchers, CloneHub(w), UNCHANGED <<cluster, look>>
    PROVE  WatchInv'
<1>1. /\ pc \in {"pods", "running"} /\ w[2] \in DOMAIN namespaces
      /\ hub' = [hub EXCEPT ![w] = scope]
      /\ UNCHANGED <<env, pc, mainVars, pod, reports, begun>>
    BY DEF CloneHub, Launched
<1>2. Ready /\ Ready' /\ pc' \in Begun
    <2>1. Ready
        BY <1>1 DEF MainInv, SettingsOK, ScopeOK, NamespacesOK, Ready, AtGoroutines
    <2>2. QED
        BY <1>1, <2>1 DEF Ready, Begun, mainVars
<1>3. WatchersOK' /\ BoundsOK'
    BY <1>1 DEF WatchInv, WatchersOK, BoundsOK, cluster
<1>4. HubsOK'
    <2>1. \A v \in Watchers : hub'[v] = IF v = w THEN scope ELSE hub[v]
        BY <1>1 DEF WatchInv, WatchersOK
    <2>2. ASSUME NEW v \in Watchers
          PROVE  /\ hub'[v] # Unset => hub'[v] = scope /\ v[2] \in DOMAIN namespaces
                 /\ hub[v] # Unset => hub'[v] # Unset
        <3>1. CASE v = w
            <4>1. hub[w] = Unset
                BY DEF CloneHub
            <4>2. QED
                BY <1>1, <2>1, <3>1, <4>1
        <3>2. CASE v # w
            BY <2>1, <3>2 DEF WatchInv, HubsOK
        <3>3. QED
            BY <3>1, <3>2
    <2>3. \A v \in Watchers : pod[v] # Unset => hub'[v] # Unset
        BY <2>2 DEF WatchInv, HubsOK
    <2>4. QED
        BY <1>1, <1>2, <2>2, <2>3 DEF WatchInv, HubsOK, mainVars
<1>5. ReportsOK'
    BY <1>1 DEF WatchInv, ReportsOK, IsSent, mainVars
<1>6. QED
    BY <1>3, <1>4, <1>5 DEF WatchInv

LEMMA ReportBegun ==
    ASSUME MainInv, WatchInv, InformersInv, NEW w \in Watchers, NEW p \in Pods,
           BeginReport(w, p)
    PROVE  WatchInv'
<1>1. /\ hub[w] # Unset
      /\ pod' = [pod EXCEPT ![w] = p] /\ begun' = begun + 1
      /\ UNCHANGED <<env, pc, mainVars, hub, reports, cluster>>
    BY DEF BeginReport, Watching, FindObject, Now
<1>2. /\ \A v \in Watchers : v # w => look'[v] = look[v]
      /\ look'[w].pc # "idle"
    <2>1. look \in [Watchers -> Looks]
        BY DEF InformersInv, InformersOK
    <2>2. FindObject(w, OwnerOf[p]) /\ OwnerOf[p] \in Objects
        BY StartUpAssumption DEF BeginReport
    <2>3. Moves(w)
        BY <2>2, FindStep
    <2>4. PICK l : look' = [look EXCEPT ![w] = l] /\ l.pc # "idle"
        BY <2>3 DEF Moves
    <2>5. QED
        BY <2>1, <2>4
<1>3. BoundsOK'
    <2>1. PICK n \in Nat : n = Len(env.namespaces)
        <3>1. env.namespaces \in Seq(Values)
            BY EnvironmentsAssumption DEF MainInv, MainOK
        <3>2. QED
            BY <3>1, LenProperties
    <2>2. begun \in Nat /\ changes \in Nat /\ begun + changes + n < MaxWork
        BY <2>1 DEF BeginReport, WorkLeft, WatchInv, BoundsOK, InformersInv, InformersOK
    <2>3. begun + 1 \in Nat /\ begun + 1 + changes <= MaxWork
        <3>1. MaxWork \in Nat /\ n \in Nat
            BY <2>1, StartUpAssumption
        <3>2. QED
            BY <2>2, <3>1
    <2>4. QED
        BY <1>1, <2>3 DEF WatchInv, BoundsOK, cluster
<1>4. /\ \A v \in Watchers : pod'[v] = IF v = w THEN p ELSE pod[v]
      /\ pod' \in [Watchers -> Pods \cup {Unset}]
    BY <1>1 DEF WatchInv, WatchersOK
<1>5. WatchersOK'
    BY <1>1, <1>4 DEF WatchInv, WatchersOK
<1>6. HubsOK'
    <2>1. p # Unset
        BY StartUpAssumption
    <2>2. Ready => Ready'
        BY <1>1 DEF Ready, mainVars
    <2>3. QED
        BY <1>1, <1>2, <1>4, <2>1, <2>2 DEF WatchInv, HubsOK, mainVars
<1>7. ReportsOK'
    BY <1>1 DEF WatchInv, ReportsOK, IsSent, mainVars
<1>8. QED
    BY <1>3, <1>5, <1>6, <1>7 DEF WatchInv

(* What a watcher sends has been found and cleared, or has been missed;    *)
(* the link is of its own Pod.                                             *)
LEMMA SentReport ==
    ASSUME MainInv, WatchInv, InformersInv, NEW w \in Watchers, Report(w)
    PROVE  \E r : IsSent(r) /\ reports' = reports \cup {r} /\ pc \in Begun
<1>1. /\ Holds(look[w], managed) /\ Misses(look[w], version)
      /\ managed \in Seq(Fields)
    BY DEF InformersInv, InformersOK, LooksOK
<1>2. PICK p, h : p = pod[w] /\ h = hub[w]
    OBVIOUS
<1>3. p \in Pods /\ p # Unset /\ h # Unset /\ h = scope /\ pc \in Begun
    <2>1. pod[w] # Unset
        BY DEF Report, LookedUp, WatchInv, HubsOK
    <2>2. QED
        BY <1>2, <2>1 DEF WatchInv, WatchersOK, HubsOK
<1>4. PICK k, t, g : h = [kubernetes |-> k, tags |-> t, gke |-> g, link |-> Unset]
    BY <1>3 DEF MainInv, MainOK
<1>5. CASE look[w].pc = "found"
    <2>1. PICK m, l : /\ m = managed[look[w].ref]
                      /\ l = WithPodLogLink(h, p).link
        OBVIOUS
    <2>2. m = Cleared
        <3>1. look[w].todo = {}
            BY <1>5 DEF Report, LookedUp
        <3>2. /\ look[w].ref \in 1..Len(managed)
              /\ \A x \in Words : m[x] = Cleared[x]
            BY <1>1, <1>5, <2>1, <3>1 DEF Holds
        <3>3. m \in Fields
            BY <1>1, <2>1, <3>2, ElementOfSeq
        <3>4. QED
            BY <3>2, <3>3, WordsOfFields
    <2>3. /\ l \in {p, Unset}
          /\ l # Unset => Blank \notin {gke.name, gke.location, gke.project}
        <3>1. [h EXCEPT !.link = p].link = p /\ h.link = Unset
            BY <1>4
        <3>2. QED
            BY <2>1, <3>1 DEF WithPodLogLink
    <2>4. PICK d : d = look[w].missed
        OBVIOUS
    <2>5. PICK r : r = [pod |-> p, found |-> TRUE, missed |-> d, link |-> l, managed |-> m]
        OBVIOUS
    <2>6. reports' = reports \cup {r}
        BY <1>2, <1>5, <2>1, <2>4, <2>5 DEF Report
    <2>7. IsSent(r)
        BY <1>3, <2>2, <2>3, <2>5 DEF IsSent
    <2>8. QED
        BY <1>3, <2>6, <2>7
<1>6. CASE look[w].pc # "found"
    <2>1. look[w].pc = "notFound" /\ look[w].missed
        BY <1>1, <1>6 DEF Report, LookedUp, Misses
    <2>2. PICK d : d = look[w].missed
        OBVIOUS
    <2>3. PICK r : r = [pod |-> p, found |-> FALSE, missed |-> d, link |-> h.link,
                        managed |-> Cleared]
        OBVIOUS
    <2>4. reports' = reports \cup {r}
        BY <1>2, <1>6, <2>2, <2>3 DEF Report
    <2>5. h.link = Unset
        BY <1>4
    <2>6. IsSent(r)
        BY <1>3, <2>1, <2>2, <2>3, <2>5 DEF IsSent
    <2>7. QED
        BY <1>3, <2>4, <2>6
<1>7. QED
    BY <1>5, <1>6

LEMMA ReportSent ==
    ASSUME MainInv, WatchInv, InformersInv, NEW w \in Watchers, Report(w)
    PROVE  WatchInv'
<1>1. /\ look' = [look EXCEPT ![w] = NotLooking] /\ pod' = [pod EXCEPT ![w] = Unset]
      /\ UNCHANGED <<env, pc, mainVars, hub, begun, cluster>>
    BY DEF Report
<1>2. PICK r : IsSent(r) /\ reports' = reports \cup {r} /\ pc \in Begun
    BY SentReport
<1>3. /\ \A v \in Watchers : v # w => look'[v] = look[v]
      /\ look'[w].pc = "idle"
    <2>1. look \in [Watchers -> Looks]
        BY DEF InformersInv, InformersOK
    <2>2. NotLooking.pc = "idle"
        BY DEF NotLooking
    <2>3. look'[w] = NotLooking /\ \A v \in Watchers : v # w => look'[v] = look[v]
        BY <1>1, <2>1
    <2>4. QED
        BY <2>2, <2>3
<1>4. /\ \A v \in Watchers : pod'[v] = IF v = w THEN Unset ELSE pod[v]
      /\ pod' \in [Watchers -> Pods \cup {Unset}]
    BY <1>1 DEF WatchInv, WatchersOK
<1>5. WatchersOK' /\ BoundsOK'
    <2>1. WatchersOK'
        BY <1>1, <1>4 DEF WatchInv, WatchersOK
    <2>2. BoundsOK'
        BY <1>1 DEF WatchInv, BoundsOK, cluster
    <2>3. QED
        BY <2>1, <2>2
<1>6. HubsOK'
    <2>1. Ready => Ready'
        BY <1>1 DEF Ready, mainVars
    <2>2. QED
        BY <1>1, <1>3, <1>4, <2>1 DEF WatchInv, HubsOK, mainVars
<1>7. ReportsOK'
    <2>1. ASSUME NEW x, IsSent(x)
          PROVE  IsSent(x)'
        BY <1>1, <2>1 DEF IsSent, mainVars
    <2>2. QED
        BY <1>1, <1>2, <2>1 DEF WatchInv, ReportsOK
<1>8. QED
    BY <1>5, <1>6, <1>7 DEF WatchInv

(* A watcher's step keeps all three parts of the invariant. *)
LEMMA WatcherSteps ==
    ASSUME StartUpInv, NEW w \in Watchers, WatcherStep(w)
    PROVE  StartUpInv'
<1>1. MainInv /\ InformersInv /\ WatchInv /\ w[2] \in Calls
    BY DEF StartUpInv, Watchers
<1>2. CASE StartEventWatcher(w) \/ StartPodWatcher(w)
    <2>1. CloneHub(w) /\ UNCHANGED <<cluster, look>>
        BY <1>2 DEF StartEventWatcher, StartPodWatcher, CallStartInformers, infVars
    <2>2. UNCHANGED <<env, pc, mainVars>>
        BY <2>1 DEF CloneHub
    <2>3. UNCHANGED infVars \/ \E ns : CallStartInformers(w[2], ns)
        BY <1>2 DEF StartEventWatcher, StartPodWatcher
    <2>4. InformersInv'
        BY <1>1, <2>3, CallsStep, NothingHappens
    <2>5. MainInv'
        BY <1>1, <2>2, MainKept
    <2>6. WatchInv'
        BY <1>1, <2>1, HubCloned
    <2>7. QED
        BY <2>4, <2>5, <2>6 DEF StartUpInv
<1>3. CASE Look(w)
    <2>1. /\ LookStep(w) /\ UNCHANGED <<env, pc, mainVars, watchVars>>
        BY <1>3 DEF Look
    <2>2. Moves(w) /\ look[w].pc # "idle"
        BY <1>1, <2>1, LookingStep
    <2>3. InformersInv'
        BY <1>1, <2>2, MovesKeep
    <2>4. MainInv'
        BY <1>1, <2>1, MainKept
    <2>5. \A v \in Watchers : look'[v].pc = "idle" <=> look[v].pc = "idle"
        <3>1. PICK l : look' = [look EXCEPT ![w] = l] /\ l.pc # "idle"
            BY <2>2 DEF Moves
        <3>2. look \in [Watchers -> Looks]
            BY <1>1 DEF InformersInv, InformersOK
        <3>3. QED
            BY <2>2, <3>1, <3>2
    <2>6. BoundsOK'
        BY <1>1, <2>1, <2>2 DEF Moves, WatchInv, BoundsOK, cluster, watchVars
    <2>7. WatchInv'
        BY <1>1, <2>1, <2>5, <2>6, WatchKept DEF watchVars
    <2>8. QED
        BY <2>3, <2>4, <2>7 DEF StartUpInv
<1>4. CASE Report(w)
    <2>1. UNCHANGED <<env, pc, mainVars>>
        BY <1>4 DEF Report
    <2>2. /\ look' = [look EXCEPT ![w] = NotLooking]
          /\ UNCHANGED <<calls, clientGo, managed, cluster>>
        BY <1>4 DEF Report
    <2>3. InformersInv'
        BY <1>1, <2>2, LookEnds
    <2>4. MainInv'
        BY <1>1, <2>1, MainKept
    <2>5. WatchInv'
        BY <1>1, <1>4, ReportSent
    <2>6. QED
        BY <2>3, <2>4, <2>5 DEF StartUpInv
<1>5. ASSUME NEW p \in Pods, BeginReport(w, p)
      PROVE  StartUpInv'
    <2>1. UNCHANGED <<env, pc, mainVars>>
        BY <1>5 DEF BeginReport
    <2>2. OwnerOf[p] \in Objects /\ FindObject(w, OwnerOf[p])
        BY <1>5, StartUpAssumption DEF BeginReport
    <2>3. Moves(w)
        BY <1>1, <2>2, FindStep
    <2>4. InformersInv'
        BY <1>1, <2>3, MovesKeep
    <2>5. MainInv'
        BY <1>1, <2>1, MainKept
    <2>6. WatchInv'
        BY <1>1, <1>5, ReportBegun
    <2>7. QED
        BY <2>4, <2>5, <2>6 DEF StartUpInv
<1>6. ASSUME NEW p \in Pods, NilInformer(w, p)
      PROVE  StartUpInv'
    <2>1. /\ pc' = "exited" /\ UNCHANGED <<env, mainVars, watchVars, infVars>>
        BY <1>6 DEF NilInformer
    <2>2. InformersInv'
        BY <1>1, <2>1, NothingHappens
    <2>3. MainInv'
        BY <1>1, <2>1, MainKept
    <2>4. BoundsOK'
        BY <1>1, <2>1 DEF WatchInv, BoundsOK, watchVars, infVars, cluster
    <2>5. WatchInv'
        BY <1>1, <2>1, <2>4, WatchKept DEF watchVars, infVars
    <2>6. QED
        BY <2>2, <2>3, <2>5 DEF StartUpInv
<1>7. QED
    BY <1>2, <1>3, <1>4, <1>5, <1>6 DEF WatcherStep

LEMMA StartUpInit == Init => StartUpInv
<1> SUFFICES ASSUME Init
             PROVE  StartUpInv
    OBVIOUS
<1>1. MainInv
    BY MainInit
<1>2. InformersInv
    BY InformersInit DEF Init
<1>3. WatchersOK /\ ReportsOK
    BY DEF Init, WatchersOK, ReportsOK
<1>4. HubsOK
    BY StartUpAssumption DEF Init, InitInformers, NotLooking, HubsOK
<1>5. BoundsOK
    BY StartUpAssumption DEF Init, InitInformers, BoundsOK
<1>6. QED
    BY <1>1, <1>2, <1>3, <1>4, <1>5 DEF StartUpInv, WatchInv

LEMMA StartUpStep ==
    ASSUME StartUpInv, [Next]_vars
    PROVE  StartUpInv'
<1>1. MainInv /\ InformersInv /\ WatchInv
    BY DEF StartUpInv
<1>2. CASE MainStep
    <2>1. UNCHANGED infVars
        BY <1>2
           DEF MainStep, InitSentrySDK, PrepareEventFilters, GetClusterConfig,
               SetKubernetesSentryContext, SetGlobalSentryTags, RunIntegrations,
               ReadInstanceMetadata, ReadProjectMetadata, ReadMetadata,
               SetIntegrationScope, GetNamespacesToWatch, StartWatchers, Main
    <2>2. MainInv'
        BY <1>1, <1>2, MainSteps
    <2>3. InformersInv'
        BY <1>1, <2>1, NothingHappens
    <2>4. WatchInv'
        BY <1>1, <1>2, WatchMain
    <2>5. QED
        BY <2>2, <2>3, <2>4 DEF StartUpInv
<1>3. ASSUME NEW w \in Watchers, WatcherStep(w)
      PROVE  StartUpInv'
    BY <1>3, WatcherSteps
<1>4. ASSUME NEW c \in Calls, InformerStep(c)
      PROVE  StartUpInv'
    <2>1. /\ CallStep(c) \/ FollowObjects(c)
          /\ UNCHANGED <<env, pc, mainVars, watchVars>>
        BY <1>4 DEF InformerStep
    <2>2. InformersInv'
        BY <1>1, <2>1, CallsStep, CacheStep
    <2>3. UNCHANGED <<cluster, look>>
        BY <2>1 DEF CallStep, CreateInformer, FactoryStart, BindHasSynced,
                    WaitForCacheSync, FollowObjects, CacheSet, CacheDelete, Sync
    <2>4. MainInv'
        BY <1>1, <2>1, MainKept
    <2>5. BoundsOK'
        BY <1>1, <2>1, <2>3 DEF WatchInv, BoundsOK, watchVars, cluster
    <2>6. WatchInv'
        BY <1>1, <2>1, <2>3, <2>5, WatchKept DEF watchVars
    <2>7. QED
        BY <2>2, <2>4, <2>6 DEF StartUpInv
<1>5. CASE Cluster
    <2>1. PICK o \in Objects, v \in {0, changes + 2} : ChangeObject(o, v)
        BY <1>5 DEF Cluster
    <2>2. UNCHANGED <<env, pc, mainVars, watchVars>>
        BY <1>5 DEF Cluster
    <2>3. InformersInv'
        BY <1>1, <2>1, ChangeStep
    <2>4. MainInv'
        BY <1>1, <2>2, MainKept
    <2>5. \A w \in Watchers : look'[w].pc = "idle" <=> look[w].pc = "idle"
        <3>1. look \in [Watchers -> Looks]
            BY <1>1 DEF InformersInv, InformersOK
        <3>2. ASSUME NEW w \in Watchers
              PROVE  look'[w].pc = look[w].pc
            <4>1. look'[w] = look[w] \/ look'[w] = [look[w] EXCEPT !.missed = TRUE]
                BY <2>1, StartUpAssumption DEF ChangeObject
            <4>2. look[w] \in Looks
                BY <3>1
            <4>3. QED
                BY <4>1, <4>2 DEF Looks
        <3>3. QED
            BY <3>2
    <2>6. BoundsOK'
        <3>1. begun \in Nat /\ changes \in Nat /\ begun + changes < MaxWork
            <4>1. PICK n \in Nat : n = Len(env.namespaces)
                <5>1. env.namespaces \in Seq(Values)
                    BY <1>1, EnvironmentsAssumption DEF MainInv, MainOK
                <5>2. QED
                    BY <5>1, LenProperties
            <4>2. begun \in Nat /\ changes \in Nat /\ begun + changes + n < MaxWork
                BY <1>1, <1>5, <4>1
                   DEF Cluster, WorkLeft, WatchInv, BoundsOK, InformersInv, InformersOK
            <4>3. MaxWork \in Nat /\ n \in Nat
                BY <4>1, StartUpAssumption
            <4>4. QED
                BY <4>2, <4>3
        <3>2. changes' = changes + 1 /\ begun' = begun
            BY <2>1, <2>2 DEF ChangeObject, watchVars
        <3>3. MaxWork \in Nat
            BY StartUpAssumption
        <3>4. begun' \in Nat /\ begun' + changes' <= MaxWork
            BY <3>1, <3>2, <3>3
        <3>5. v \in 0..(changes' + 1)
            BY <2>1, <3>1, <3>2
        <3>6. version' = [version EXCEPT ![o] = v]
            BY <2>1 DEF ChangeObject
        <3>7. version \in [Objects -> 0..(changes + 1)]
            BY <1>1 DEF WatchInv, BoundsOK
        <3>8. \A n \in 0..(changes + 1) : n \in 0..(changes' + 1)
            BY <3>1, <3>2
        <3>9. version' \in [Objects -> 0..(changes' + 1)]
            BY <3>5, <3>6, <3>7, <3>8
        <3>10. QED
            BY <3>4, <3>9 DEF BoundsOK
    <2>7. WatchInv'
        BY <1>1, <2>2, <2>5, <2>6, WatchKept DEF watchVars
    <2>8. QED
        BY <2>3, <2>4, <2>7 DEF StartUpInv
<1>6. CASE UNCHANGED vars
    <2>1. UNCHANGED <<env, pc, mainVars, watchVars, infVars>>
        BY <1>6 DEF vars
    <2>2. InformersInv'
        BY <1>1, <2>1, NothingHappens
    <2>3. MainInv'
        BY <1>1, <2>1, MainKept
    <2>4. BoundsOK'
        BY <1>1, <2>1 DEF WatchInv, BoundsOK, watchVars, infVars, cluster
    <2>5. WatchInv'
        BY <1>1, <2>1, <2>4, WatchKept DEF watchVars, infVars
    <2>6. QED
        BY <2>2, <2>3, <2>5 DEF StartUpInv
<1>7. QED
    BY <1>2, <1>3, <1>4, <1>5, <1>6 DEF Next

LEMMA StartUpInvariant == Spec => []StartUpInv
    BY StartUpInit, StartUpStep, PTL DEF Spec

----------------------------------------------------------------------------
(* The properties. *)

(* MetadataIsClean: whichever goroutines clear the words of which cached   *)
(* objects, a report is sent with both words of its own owner cleared, and *)
(* nothing writes them again.                                              *)
THEOREM ReportsAreClean == Spec => []MetadataIsClean
<1>1. StartUpInv => MetadataIsClean
    BY DEF StartUpInv, WatchInv, ReportsOK, IsSent, MetadataIsClean
<1>2. QED
    BY <1>1, StartUpInvariant, PTL

(* ExistingIsFound: an owner is given up only if it was not there at some  *)
(* moment of the search, or a request for it was refused.                  *)
THEOREM OwnersAreFound == Spec => []ExistingIsFound
<1>1. StartUpInv => ExistingIsFound
    BY DEF StartUpInv, WatchInv, ReportsOK, IsSent, ExistingIsFound
<1>2. QED
    BY <1>1, StartUpInvariant, PTL

(* LinkIsOfItsPod: the layer of a report keeps its link from the hub that  *)
(* the watcher's other reports are made on.                                *)
THEOREM LinksAreOfTheirPods == Spec => []LinkIsOfItsPod
<1>1. StartUpInv => LinkIsOfItsPod
    BY DEF StartUpInv, WatchInv, ReportsOK, IsSent, LinkIsOfItsPod
<1>2. QED
    BY <1>1, StartUpInvariant, PTL

(* HubsAreComplete: a hub, whenever it is cloned, has the tags of the GKE  *)
(* metadata, of the environment and of the host, each overriding the next. *)
THEOREM HubsHaveAllTags == Spec => []HubsAreComplete
<1>1. ASSUME StartUpInv
      PROVE  HubsAreComplete
    <2>1. env \in Environments
        BY <1>1 DEF StartUpInv, MainInv, MainOK
    <2>2. ASSUME NEW w \in Watchers, hub[w] # Unset
          PROVE  /\ hub[w].kubernetes # "none"
                 /\ hub[w].tags = FullTags(env)
                 /\ hub[w].gke.initialized = UsesGKE(env)
                 /\ UsesGKE(env) => MetadataRead(env)
        BY <1>1, <2>2 DEF StartUpInv, WatchInv, HubsOK, Ready
    <2>3. ASSUME NEW w \in Watchers, hub[w] # Unset
          PROVE  hub[w].tags = [k \in {k \in TagKeys(env) \ {""} : TagOf(env, k) # Blank}
                                  |-> TagOf(env, k)]
        BY <2>1, <2>2, <2>3, FullTagsAreComplete
    <2>4. QED
        BY <2>2, <2>3, Zenon DEF HubsAreComplete, TagKeys
<1>2. QED
    BY <1>1, StartUpInvariant, PTL

(* TypeOK: types, bounds, and that a watcher that builds a report is the   *)
(* one that looks for an owner.                                            *)
THEOREM StartUpTypeCorrect == Spec => []TypeOK
<1>1. ASSUME StartUpInv
      PROVE  TypeOK
    <2>1. InformersOK /\ LooksOK /\ MainOK /\ WatchersOK /\ HubsOK /\ ReportsOK /\ BoundsOK
        BY <1>1 DEF StartUpInv, InformersInv, MainInv, WatchInv
    <2>2. IsScope(scope)
        <3>1. PICK k, t, g : scope = [kubernetes |-> k, tags |-> t, gke |-> g,
                                      link |-> Unset]
            BY <2>1 DEF MainOK
        <3>2. DOMAIN scope = {"kubernetes", "tags", "gke", "link"}
              /\ scope.link = Unset
            BY <3>1
        <3>3. DOMAIN NoScope = {"kubernetes", "tags", "gke", "link"}
            BY DEF NoScope
        <3>4. /\ scope.kubernetes \in {"none", "endpoint", "version"}
              /\ \A x \in DOMAIN scope.tags : scope.tags[x] \in Values \ {Blank}
            BY <2>1 DEF MainOK, TagsOK
        <3>5. QED
            BY <3>2, <3>3, <3>4 DEF IsScope
    <2>3. \A w \in Watchers : hub[w] = Unset \/ IsScope(hub[w])
        BY <2>1, <2>2 DEF HubsOK
    <2>4. /\ env \in Environments
          /\ pc \in {"sdk", "filters", "config", "context", "tags", "integrations",
                     "instance", "project", "setScope", "namespaces", "events",
                     "pods", "running", "exited"}
          /\ config \in {"none", "in", "out", "error"}
          /\ {gke.name, gke.location, gke.project} \subseteq Values
          /\ DOMAIN namespaces \subseteq Calls
        BY <2>1 DEF MainOK, Metadata, AtSDK, AtIntegrations, AtGoroutines
    <2>5. /\ pod \in [Watchers -> Pods \cup {Unset}]
          /\ \A r \in reports : r.pod \in Pods /\ r.managed \in Fields
        BY <2>1, WordsOfFields DEF WatchersOK, ReportsOK, IsSent
    <2>6. /\ \A c \in Calls : step[c] \in
               {<<"none", 0>>, <<"start", 0>>, <<"block", 0>>}
                 \cup ({"create", "await"} \X (1..KindCount))
          /\ bound \in [Calls -> Calls \cup {Unset}]
          /\ global \in [Kinds -> Calls \cup {Unset}]
          /\ synced \subseteq Calls
          /\ \A c \in Calls, o \in Objects :
               IsCached(c, o) => cache[c][o].ref \in 1..Len(managed)
        <3>1. \A c \in Calls : step[c] \in Steps
            BY <2>1 DEF InformersOK
        <3>2. QED
            BY <2>1, <3>1 DEF InformersOK, Steps
    <2>7. \A n \in 1..Len(managed) : managed[n] \in Fields
        BY <2>1, ElementOfSeq DEF InformersOK
    <2>8. begun \in 0..MaxWork /\ version \in [Objects -> 0..(MaxWork + 1)]
        <3>1. changes \in Nat /\ MaxWork \in Nat
            BY <2>1, StartUpAssumption DEF InformersOK
        <3>2. begun \in Nat /\ begun + changes <= MaxWork
              /\ version \in [Objects -> 0..(changes + 1)]
            BY <2>1 DEF BoundsOK
        <3>3. begun \in 0..MaxWork /\ \A n \in 0..(changes + 1) : n \in 0..(MaxWork + 1)
            BY <3>1, <3>2
        <3>4. QED
            BY <3>2, <3>3
    <2>9. \A w \in Watchers :
            /\ look[w].pc \in {"idle", "get", "request", "found", "notFound"}
            /\ look[w].pc = "idle" <=> pod[w] = Unset
            /\ look[w].pc = "found" <=> look[w].ref # Unset
            /\ look[w].todo \subseteq Words
        BY <2>1 DEF InformersOK, LooksOK, HubsOK, Holds, Looks
    <2>10. QED
        BY <2>2, <2>3, <2>4, <2>5, <2>6, <2>7, <2>8, <2>9 DEF TypeOK
<1>2. QED
    BY <1>1, StartUpInvariant, PTL

(* WatchesAsConfigured: no goroutine runs unless every setting was one     *)
(* that can be met, and the namespaces watched are the ones asked for.     *)
THEOREM WatchersAreConfigured == Spec => []WatchesAsConfigured
<1>1. ASSUME StartUpInv
      PROVE  WatchesAsConfigured
    <2>1. env \in Environments
        BY <1>1 DEF StartUpInv, MainInv, MainOK
    <2>2. ASSUME NEW w \in Watchers, hub[w] # Unset
          PROVE  /\ CanRun(env)
                 /\ w[2] \in DOMAIN namespaces
                 /\ ToSet(namespaces) = NamespacesOf(env)
        <3>1. Ready /\ w[2] \in DOMAIN namespaces
            BY <1>1, <2>2 DEF StartUpInv, WatchInv, HubsOK
        <3>2. NamesOK(env) /\ ToSet(namespaces) = NamespacesOf(env)
            BY <2>1, <3>1, NamespacesAreNamed DEF Ready
        <3>3. QED
            BY <3>1, <3>2 DEF CanRun, NamesOK, Ready, MetadataRead
    <2>3. QED
        BY <2>2, Zenon DEF WatchesAsConfigured
<1>2. QED
    BY <1>1, StartUpInvariant, PTL

(* FiltersIgnoreCase: what main puts into the sets is what the filters of  *)
(* the watchers look up in them.                                           *)
THEOREM FiltersAreAsListed == Spec => []FiltersIgnoreCase
<1>1. ASSUME StartUpInv
      PROVE  FiltersIgnoreCase
    <2>1. env.reasons \in Seq(Values) /\ env.sources \in Seq(Values)
        BY <1>1, EnvironmentsAssumption DEF StartUpInv, MainInv, MainOK
    <2>2. ASSUME pc = "config"
          PROVE  /\ filters.reasons = FilterSet(env.reasons, DefaultFilterReasons)
                 /\ filters.sources = FilterSet(env.sources, {})
        BY <1>1, <2>2 DEF StartUpInv, MainInv, FiltersOK
    <2>3. ASSUME NEW r \in [word : {"", "a", "b", "dockerstart"},
                            upper : BOOLEAN, spaces : BOOLEAN], pc = "config"
          PROVE  /\ IsFiltered(filters.reasons, r) <=>
                      /\ Word(r) # ""
                      /\ IF HasNothing(env.reasons) THEN Word(r) \in DefaultFilterReasons
                         ELSE Word(r) \in {Word(v) : v \in ToSet(env.reasons)}
                 /\ IsFiltered(filters.sources, r) <=>
                      Word(r) \in {Word(v) : v \in ToSet(env.sources)} \ {""}
        <3>1. HasNothing(env.sources) => \A v \in ToSet(env.sources) : v.word = ""
            BY <2>1, NothingListed
        <3>2. /\ IsFiltered(FilterSet(env.reasons, DefaultFilterReasons), r) <=>
                   Lists(env.reasons, DefaultFilterReasons, r.word)
              /\ IsFiltered(FilterSet(env.sources, {}), r) <=>
                   Lists(env.sources, {}, r.word)
            BY <2>1, <2>3, FilterWords
        <3>3. /\ IsFiltered(filters.reasons, r) <=>
                   Lists(env.reasons, DefaultFilterReasons, r.word)
              /\ IsFiltered(filters.sources, r) <=> Lists(env.sources, {}, r.word)
            BY <2>2, <2>3, <3>2
        <3>4. QED
            BY <3>1, <3>3 DEF Lists, Word
    <2>4. QED
        BY <2>3 DEF FiltersIgnoreCase
<1>2. QED
    BY <1>1, StartUpInvariant, PTL
=============================================================================
