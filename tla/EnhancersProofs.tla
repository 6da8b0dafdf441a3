-------------------------- MODULE EnhancersProofs --------------------------
(***************************************************************************)
(* The search for root owners is complete, and reports are grouped by the  *)
(* root they come to, or by their message alone if the search fails, for   *)
(* any graph of owners.                                                    *)
(***************************************************************************)
EXTENDS Enhancers, Induction, SequenceTheorems, TLAPS

(* The owners of an object are objects. *)
LEMMA OwnersAreObjects ==
    ASSUME NEW o \in Objects
    PROVE  Owners[o] \in Seq(Objects) /\ InSeq(Owners[o]) \subseteq Objects
<1>1. Owners[o] \in Seq(Objects)
    BY EnhancersAssumption
<1>2. QED
    BY <1>1 DEF InSeq

(* What is reached from an object contains it, is closed under owners, and *)
(* is the least such set.                                                  *)
LEMMA ReachedIsClosed ==
    ASSUME NEW o \in Objects
    PROVE  /\ o \in Reached[o]
           /\ Reached[o] \subseteq Objects
           /\ ClosedUnderOwners(Reached[o])
<1>1. /\ o \in Reached[o]
      /\ Reached[o] \subseteq Objects
    BY DEF Reached
<1>2. ASSUME NEW a \in Reached[o], NEW b \in InSeq(Owners[a])
      PROVE  b \in Reached[o]
    <2>1. a \in Objects /\ b \in Objects
        BY <1>1, <1>2, OwnersAreObjects
    <2>2. ASSUME NEW S \in SUBSET Objects, o \in S, ClosedUnderOwners(S)
          PROVE  b \in S
        <3>1. a \in S
            BY <1>2, <2>2 DEF Reached
        <3>2. QED
            BY <1>2, <2>2, <3>1 DEF ClosedUnderOwners
    <2>3. QED
        BY <2>1, <2>2 DEF Reached
<1>3. QED
    BY <1>1, <1>2 DEF ClosedUnderOwners

LEMMA ReachedIsLeast ==
    ASSUME NEW o \in Objects, NEW S \in SUBSET Objects,
           o \in S, ClosedUnderOwners(S)
    PROVE  Reached[o] \subseteq S
    BY DEF Reached

(* An object without owners is its only root. *)
LEMMA RootIsItself ==
    ASSUME NEW o \in Objects, Owners[o] = << >>
    PROVE  RootsOf(o) = {o}
<1>1. ClosedUnderOwners({o})
    BY DEF ClosedUnderOwners, InSeq
<1>2. Reached[o] \subseteq {o}
    BY <1>1, ReachedIsLeast
<1>3. QED
    BY <1>2, ReachedIsClosed DEF RootsOf

(* The roots of an object with owners are those of its owners. *)
LEMMA RootsComeFromOwners ==
    ASSUME NEW o \in Objects, Owners[o] # << >>
    PROVE  RootsOf(o) = UNION {RootsOf(p) : p \in InSeq(Owners[o])}
<1> DEFINE Above == UNION {Reached[p] : p \in InSeq(Owners[o])}
<1>1. InSeq(Owners[o]) \subseteq Objects
    BY OwnersAreObjects
<1>2. Above \subseteq Reached[o]
    <2>1. ASSUME NEW p \in InSeq(Owners[o])
          PROVE  Reached[p] \subseteq Reached[o]
        <3>1. p \in Objects /\ p \in Reached[o]
            BY <1>1, ReachedIsClosed DEF ClosedUnderOwners
        <3>2. QED
            BY <3>1, ReachedIsClosed, ReachedIsLeast
    <2>2. QED
        BY <2>1
<1>3. Reached[o] \subseteq {o} \cup Above
    <2>1. {o} \cup Above \subseteq Objects
        BY <1>1, ReachedIsClosed
    <2>2. ASSUME NEW a \in {o} \cup Above
          PROVE  InSeq(Owners[a]) \subseteq {o} \cup Above
        <3>1. CASE a = o
            BY <1>1, <3>1, ReachedIsClosed
        <3>2. CASE a \in Above
            <4>1. PICK p \in InSeq(Owners[o]) : a \in Reached[p]
                BY <3>2
            <4>2. InSeq(Owners[a]) \subseteq Reached[p]
                BY <1>1, <4>1, ReachedIsClosed DEF ClosedUnderOwners
            <4>3. QED
                BY <4>2
        <3>3. QED
            BY <2>2, <3>1, <3>2
    <2>3. ClosedUnderOwners({o} \cup Above)
        BY <2>2 DEF ClosedUnderOwners
    <2>4. QED
        BY <2>1, <2>3, ReachedIsLeast
<1>4. ASSUME NEW a
      PROVE  a \in RootsOf(o) <=> a \in Above /\ Owners[a] = << >>
    BY <1>2, <1>3 DEF RootsOf
<1>5. ASSUME NEW a
      PROVE  a \in UNION {RootsOf(p) : p \in InSeq(Owners[o])}
                <=> a \in Above /\ Owners[a] = << >>
    BY DEF RootsOf
<1>6. QED
    BY <1>4, <1>5

(* What a sequence contains: its head and its tail, or both its parts. *)
LEMMA InHeadTail ==
    ASSUME NEW s \in Seq(Objects), s # << >>
    PROVE  InSeq(s) = {Head(s)} \cup InSeq(Tail(s))
<1>1. Len(s) \in Nat \ {0} /\ DOMAIN s = 1..Len(s)
    BY EmptySeq, LenProperties
<1>2. /\ Tail(s) \in Seq(Objects) /\ DOMAIN Tail(s) = 1..(Len(s) - 1)
      /\ \A k \in 1..(Len(s) - 1) : Tail(s)[k] = s[k + 1]
    BY <1>1, HeadTailProperties, LenProperties
<1>3. Head(s) = s[1]
    BY HeadTailProperties
<1>4. ASSUME NEW k \in 1..Len(s)
      PROVE  s[k] \in {Head(s)} \cup InSeq(Tail(s))
    <2>1. CASE k = 1
        BY <1>3, <2>1
    <2>2. CASE k # 1
        <3>1. k - 1 \in 1..(Len(s) - 1) /\ Tail(s)[k - 1] = s[k]
            BY <1>1, <1>2, <1>4, <2>2
        <3>2. QED
            BY <1>2, <3>1 DEF InSeq
    <2>3. QED
        BY <2>1, <2>2
<1>5. Head(s) \in InSeq(s)
    BY <1>1, <1>3 DEF InSeq
<1>6. InSeq(Tail(s)) \subseteq InSeq(s)
    BY <1>1, <1>2 DEF InSeq
<1>7. QED
    BY <1>1, <1>4, <1>5, <1>6 DEF InSeq

LEMMA InConcat ==
    ASSUME NEW s \in Seq(Objects), NEW t \in Seq(Objects)
    PROVE  InSeq(s \o t) = InSeq(s) \cup InSeq(t)
<1>1. /\ DOMAIN s = 1..Len(s) /\ DOMAIN t = 1..Len(t)
      /\ Len(s) \in Nat /\ Len(t) \in Nat
    BY LenProperties
<1>2. /\ DOMAIN (s \o t) = 1..(Len(s) + Len(t))
      /\ \A k \in 1..(Len(s) + Len(t)) :
            (s \o t)[k] = IF k <= Len(s) THEN s[k] ELSE t[k - Len(s)]
    BY ConcatProperties, LenProperties
<1>3. InSeq(s \o t) \subseteq InSeq(s) \cup InSeq(t)
    BY <1>1, <1>2 DEF InSeq
<1>4. InSeq(s) \subseteq InSeq(s \o t)
    BY <1>1, <1>2 DEF InSeq
<1>5. ASSUME NEW k \in 1..Len(t)
      PROVE  t[k] \in InSeq(s \o t)
    <2>1. /\ k + Len(s) \in 1..(Len(s) + Len(t))
          /\ (s \o t)[k + Len(s)] = t[k]
        BY <1>1, <1>2
    <2>2. QED
        BY <1>2, <2>1 DEF InSeq
<1>6. QED
    BY <1>1, <1>3, <1>4, <1>5 DEF InSeq

LEMMA InAppend ==
    ASSUME NEW s \in Seq(Objects), NEW o \in Objects
    PROVE  InSeq(Append(s, o)) = InSeq(s) \cup {o}
<1>1. DOMAIN s = 1..Len(s) /\ Len(s) \in Nat
    BY LenProperties
<1>2. /\ DOMAIN Append(s, o) = 1..(Len(s) + 1)
      /\ \A k \in 1..Len(s) : Append(s, o)[k] = s[k]
      /\ Append(s, o)[Len(s) + 1] = o
    BY AppendProperties, LenProperties
<1>3. QED
    BY <1>1, <1>2 DEF InSeq

----------------------------------------------------------------------------
(* The part of the type invariant that the search depends on. *)
SearchOK ==
    /\ pc \in {"object", "search"} => object \in Objects
    /\ todo \in Seq(Objects) /\ roots \in Seq(Objects)

SearchInv == SearchOK /\ SearchIsComplete

LEMMA SearchInit == Init => SearchInv
    BY DEF Init, SearchInv, SearchOK, SearchIsComplete

LEMMA SearchStarts ==
    ASSUME SearchInv, ObjectEnhancer
    PROVE  SearchInv'
<1> USE DEF ObjectEnhancer, SearchInv, SearchOK
<1>1. object \in Objects /\ object' = object /\ Owners[object] \in Seq(Objects)
    BY OwnersAreObjects DEF report
<1>2. SearchOK'
    BY <1>1
<1>3. CASE Owners[object] = << >>
    <2>1. InSeq(roots') = {object} /\ InSeq(todo') = {}
        BY <1>3 DEF InSeq
    <2>2. RootsOf(object) = InSeq(roots') \cup UNION {RootsOf(o) : o \in InSeq(todo')}
        BY <1>1, <1>3, <2>1, RootIsItself
    <2>3. QED
        BY <1>1, <1>2, <2>2 DEF SearchIsComplete, RootsOf
<1>4. CASE Owners[object] # << >>
    <2>1. InSeq(roots') = {} /\ todo' = Owners[object]
        BY <1>4 DEF InSeq
    <2>2. RootsOf(object) = InSeq(roots') \cup UNION {RootsOf(o) : o \in InSeq(todo')}
        BY <1>1, <1>4, <2>1, RootsComeFromOwners
    <2>3. QED
        BY <1>1, <1>2, <2>2 DEF SearchIsComplete, RootsOf
<1>5. QED
    BY <1>3, <1>4

LEMMA SearchGoesOn ==
    ASSUME SearchInv, OwnerFound
    PROVE  SearchInv'
<1> DEFINE o == Head(todo)
           Above(s) == UNION {RootsOf(p) : p \in InSeq(s)}
<1> USE DEF OwnerFound, SearchInv, SearchOK
<1>1. /\ o \in Objects /\ Tail(todo) \in Seq(Objects)
      /\ InSeq(todo) = {o} \cup InSeq(Tail(todo))
    BY InHeadTail, HeadTailProperties
<1>2. /\ object \in Objects /\ object' = object /\ pc = "search" /\ pc' = pc
      /\ Owners[o] \in Seq(Objects)
    BY <1>1, OwnersAreObjects DEF report
<1>3. SearchOK'
    BY <1>1, <1>2, AppendProperties, ConcatProperties
<1>4. InSeq(todo') = InSeq(Owners[o]) \cup InSeq(Tail(todo))
    BY <1>1, <1>2, InConcat
<1>5. RootsOf(object) = InSeq(roots) \cup RootsOf(o) \cup Above(Tail(todo))
    BY <1>1, <1>2 DEF SearchIsComplete
<1>6. CASE Owners[o] = << >>
    <2>1. InSeq(roots') = InSeq(roots) \cup {o}
        BY <1>1, <1>6, InAppend
    <2>2. InSeq(todo') = InSeq(Tail(todo))
        BY <1>4, <1>6 DEF InSeq
    <2>3. RootsOf(object) = InSeq(roots') \cup Above(todo')
        BY <1>1, <1>5, <1>6, <2>1, <2>2, RootIsItself
    <2>4. QED
        BY <1>2, <1>3, <2>3 DEF SearchIsComplete, RootsOf
<1>7. CASE Owners[o] # << >>
    <2>1. roots' = roots
        BY <1>7
    <2>2. RootsOf(o) = Above(Owners[o])
        BY <1>1, <1>7, RootsComeFromOwners
    <2>3. RootsOf(object) = InSeq(roots') \cup Above(todo')
        BY <1>4, <1>5, <2>1, <2>2
    <2>4. QED
        BY <1>2, <1>3, <2>3 DEF SearchIsComplete, RootsOf
<1>8. QED
    BY <1>6, <1>7

LEMMA SearchStep == SearchInv /\ [Next]_vars => SearchInv'
<1> SUFFICES ASSUME SearchInv, [Next]_vars
             PROVE  SearchInv'
    OBVIOUS
<1>1. CASE ObjectEnhancer
    BY <1>1, SearchStarts
<1>2. CASE OwnerFound
    BY <1>2, SearchGoesOn
<1>3. CASE OwnerNotFound
    <2>1. pc' = "capture" /\ todo' = << >> /\ roots' = << >>
        BY <1>3 DEF OwnerNotFound
    <2>2. << >> \in Seq(Objects)
        BY EmptySeq
    <2>3. QED
        BY <2>1, <2>2 DEF SearchInv, SearchOK, SearchIsComplete
<1>4. CASE KindEnhancers
    BY <1>4 DEF KindEnhancers, SearchInv, SearchOK, SearchIsComplete
<1>5. CASE Capture
    BY <1>5 DEF Capture, search, SearchInv, SearchOK, SearchIsComplete
<1>6. ASSUME NEW o \in Objects, NEW m \in Messages, BuildSentryEvent(o, m)
      PROVE  SearchInv'
    BY <1>6 DEF BuildSentryEvent, search, SearchInv, SearchOK, SearchIsComplete
<1>7. CASE UNCHANGED vars
    BY <1>7 DEF vars, report, search, SearchInv, SearchOK, SearchIsComplete,
                RootsOf
<1>8. QED
    BY <1>1, <1>2, <1>3, <1>4, <1>5, <1>6, <1>7 DEF Next, Step

(* ownerRefDFS finds the leaves of the owner references graph: at every    *)
(* moment of the search the roots found and those above the owners still   *)
(* to be looked up are all roots of the object, for any graph of owners,   *)
(* with cycles or without, and whatever requests fail.                     *)
THEOREM SearchCorrect == Spec => []SearchIsComplete
<1>1. SearchInv => SearchIsComplete
    BY DEF SearchInv
<1>2. QED
    BY <1>1, SearchInit, SearchStep, PTL DEF Spec

----------------------------------------------------------------------------
(* Types.                                                                  *)

LEMMA LabelsAreParts ==
    ASSUME NEW s \in Seq(Objects)
    PROVE  Labels(s) \in Seq(Parts)
    BY DEF Labels, Parts

(* What the type invariant needs besides itself: a report that is being    *)
(* built has an object.                                                    *)
EnhancersOK == TypeOK /\ (pc # "idle" => object \in Objects)

LEMMA KindEnhancersTypes ==
    ASSUME EnhancersOK, KindEnhancers
    PROVE  EnhancersOK'
<1>1. object \in Objects /\ RootOwners \in Seq(Objects)
    <2>1. object \in Objects /\ roots \in Seq(Objects) /\ << >> \in Seq(Objects)
        BY EmptySeq DEF KindEnhancers, EnhancersOK, TypeOK
    <2>2. QED
        BY <2>1 DEF RootOwners
<1>2. OwnLabels \in Seq(Parts)
    <2>1. Label[object] \in Parts
        BY <1>1 DEF Parts
    <2>2. <<Label[object]>> \in Seq(Parts) /\ Labels(RootOwners) \in Seq(Parts)
        BY <1>1, <2>1, LabelsAreParts
    <2>3. QED
        BY <2>2 DEF OwnLabels
<1>3. Slug \in {Label[c] : c \in CronJobs} \cup {NoSlug}
    <2> DEFINE subjects == <<object>> \o RootOwners
               crons == {k \in DOMAIN subjects : subjects[k] \in CronJobs}
    <2>1. subjects \in Seq(Objects)
        <3>1. <<object>> \in Seq(Objects)
            BY <1>1
        <3>2. QED
            BY <1>1, <3>1, ConcatProperties
    <2>2. Len(subjects) \in Nat /\ DOMAIN subjects = 1..Len(subjects)
        BY <2>1, LenProperties
    <2> HIDE DEF subjects
    <2>3. CASE crons = {}
        BY <2>3 DEF Slug, subjects
    <2>4. CASE crons # {}
        <3>1. Max(crons) \in crons
            BY <2>2, <2>4, LargestIndex
        <3>2. Slug = Label[subjects[Max(crons)]]
            BY <2>4 DEF Slug, subjects
        <3>3. QED
            BY <3>1, <3>2
    <2>5. QED
        BY <2>3, <2>4
<1>4. fingerprint' \in Seq(Parts)
    BY <1>2, ConcatProperties DEF KindEnhancers, EnhancersOK, TypeOK
<1>5. << >> \in Seq(Objects)
    BY EmptySeq
<1>6. QED
    BY <1>1, <1>3, <1>4, <1>5 DEF KindEnhancers, report, EnhancersOK, TypeOK

LEMMA CommonFingerprintType ==
    ASSUME NEW m \in Messages
    PROVE  CommonFingerprint(m) \in Seq(Parts)
<1>1. Pattern[m] \in Parts
    BY DEF Parts
<1>2. CASE Pattern[m] = NoPattern
    BY <1>2 DEF CommonFingerprint
<1>3. CASE Pattern[m] # NoPattern
    <2>1. CommonFingerprint(m) = <<Pattern[m]>>
        BY <1>3 DEF CommonFingerprint
    <2>2. QED
        BY <1>1, <2>1
<1>4. QED
    BY <1>2, <1>3

LEMMA CaptureTypes ==
    ASSUME EnhancersOK, Capture
    PROVE  EnhancersOK'
<1>1. /\ pc = "capture" /\ pc' = "idle" /\ object' = NoObject
      /\ fingerprint' = << >> /\ slug' = NoSlug /\ lookup' = "done"
      /\ message' = message /\ todo' = todo /\ roots' = roots
      /\ handled' = handled
    BY DEF Capture, search
<1>2. object \in Objects /\ fingerprint \in Seq(Parts)
    BY <1>1 DEF EnhancersOK, TypeOK
<1>3. ASSUME NEW r \in reports'
      PROVE  r.object \in Objects /\ r.fingerprint \in Seq(Parts)
    <2>1. CASE r \in reports
        BY <2>1 DEF EnhancersOK, TypeOK
    <2>2. CASE r \notin reports
        <3>1. r.object = object /\ r.fingerprint = fingerprint
            BY <2>2 DEF Capture
        <3>2. QED
            BY <1>2, <3>1
    <2>3. QED
        BY <2>1, <2>2
<1>4. fingerprint' \in Seq(Parts)
    BY <1>1, EmptySeq
<1>5. QED
    BY <1>1, <1>3, <1>4 DEF EnhancersOK, TypeOK

LEMMA BuildTypes ==
    ASSUME EnhancersOK, NEW o \in Objects, NEW m \in Messages,
           BuildSentryEvent(o, m)
    PROVE  EnhancersOK'
<1>1. /\ pc' \in {"object", "capture"} /\ object' = o /\ message' = m
      /\ fingerprint' = CommonFingerprint(m) /\ handled' = handled + 1
      /\ lookup' \in {lookup, "no object"}
      /\ todo' = todo /\ roots' = roots /\ slug' = slug /\ reports' = reports
    BY DEF BuildSentryEvent, search
<1>2. fingerprint' \in Seq(Parts)
    BY <1>1, CommonFingerprintType
<1>3. handled' \in Nat
    <2>1. handled \in Nat
        BY DEF EnhancersOK, TypeOK
    <2>2. handled' = handled + 1
        BY <1>1
    <2>3. QED
        BY <2>1, <2>2
<1>4. QED
    BY <1>1, <1>2, <1>3 DEF EnhancersOK, TypeOK

LEMMA ObjectTypes ==
    ASSUME EnhancersOK, ObjectEnhancer
    PROVE  EnhancersOK'
<1>1. /\ object \in Objects /\ Owners[object] \in Seq(Objects)
      /\ message \in Messages /\ fingerprint \in Seq(Parts)
    BY OwnersAreObjects DEF ObjectEnhancer, EnhancersOK, TypeOK
<1>2. message \in Parts
    BY <1>1 DEF Parts
<1>3. fingerprint' \in Seq(Parts)
    BY <1>1, <1>2 DEF ObjectEnhancer
<1>4. roots' \in Seq(Objects) /\ todo' \in Seq(Objects)
    BY <1>1 DEF ObjectEnhancer
<1>5. QED
    BY <1>1, <1>3, <1>4 DEF ObjectEnhancer, report, EnhancersOK, TypeOK

LEMMA OwnerFoundTypes ==
    ASSUME EnhancersOK, OwnerFound
    PROVE  EnhancersOK'
<1>1. todo \in Seq(Objects) /\ todo # << >> /\ roots \in Seq(Objects)
    BY DEF OwnerFound, EnhancersOK, TypeOK
<1>2. /\ Head(todo) \in Objects /\ Tail(todo) \in Seq(Objects)
      /\ Owners[Head(todo)] \in Seq(Objects)
    BY <1>1, HeadTailProperties, OwnersAreObjects
<1>3. todo' \in Seq(Objects) /\ roots' \in Seq(Objects)
    BY <1>1, <1>2, ConcatProperties, AppendProperties DEF OwnerFound
<1>4. QED
    BY <1>3 DEF OwnerFound, report, EnhancersOK, TypeOK

LEMMA EnhancersOKStep == EnhancersOK /\ [Next]_vars => EnhancersOK'
<1>1. EnhancersOK /\ OwnerNotFound => EnhancersOK'
    <2>1. << >> \in Seq(Objects)
        BY EmptySeq
    <2>2. QED
        BY <2>1 DEF OwnerNotFound, report, EnhancersOK, TypeOK
<1>2. EnhancersOK /\ UNCHANGED vars => EnhancersOK'
    BY DEF vars, report, search, EnhancersOK, TypeOK
<1>3. QED
    BY <1>1, <1>2, ObjectTypes, OwnerFoundTypes, KindEnhancersTypes, CaptureTypes,
       BuildTypes DEF Next, Step

LEMMA EnhancersOKInvariant == Spec => []EnhancersOK
<1>1. Init => EnhancersOK
    BY EnhancersAssumption, EmptySeq DEF Init, EnhancersOK, TypeOK
<1>2. QED
    BY <1>1, EnhancersOKStep, PTL DEF Spec

(* Every state is well-typed: a fingerprint is made of messages, patterns  *)
(* and labels, the search list of objects, a slug is that of a CronJob.    *)
THEOREM EnhancersTypeCorrect == Spec => []TypeOK
<1>1. EnhancersOK => TypeOK
    BY DEF EnhancersOK
<1>2. QED
    BY <1>1, EnhancersOKInvariant, PTL

----------------------------------------------------------------------------
(* Groups.                                                                 *)

(* The part of a fingerprint that the message decides, GroupKey(r)[1]. *)
MessageKey(m) == IF Pattern[m] = NoPattern THEN m ELSE Pattern[m]

(* The fingerprint a report is captured with.  If the search failed it has *)
(* only the part of the message; if it is complete, and no object on the   *)
(* way has several owners, there is one root and its label comes next.     *)
FingerprintFits(o, m, how, f) ==
    /\ how \in {"no owner", "unknown kind"} => f = <<MessageKey(m)>>
    /\ how = "done" /\ SingleLine(o) =>
          \E root \in Objects :
             RootsOf(o) = {root} /\ f = <<MessageKey(m), Label[root]>>

(* On a single line of owners, one object is in hand at any moment: the    *)
(* next owner to be looked up, or the root.                                *)
LineInv ==
    pc = "search" /\ SingleLine(object) =>
        /\ InSeq(todo) \subseteq Reached[object]
        /\ Len(roots) + Len(todo) = 1

MessageInv ==
    /\ pc \in {"idle", "object", "search"} => lookup = "done"
    /\ pc = "object" => fingerprint = CommonFingerprint(message)
    /\ pc = "search" => fingerprint = <<MessageKey(message)>>
    /\ pc = "capture" => FingerprintFits(object, message, lookup, fingerprint)

ReportInv ==
    \A r \in reports : FingerprintFits(r.object, r.message, r.lookup, r.fingerprint)

GroupInv == LineInv /\ MessageInv /\ ReportInv

LEMMA SumIsOne ==
    ASSUME NEW m \in Nat, NEW n \in Nat, m + n = 1, n # 0
    PROVE  n = 1 /\ m = 0
    OBVIOUS

LEMMA AtMostOne ==
    ASSUME NEW n \in Nat, n <= 1
    PROVE  n = 0 \/ n = 1
    OBVIOUS

LEMMA PairIsConcat ==
    ASSUME NEW a, NEW b
    PROVE  <<a>> \o <<b>> = <<a, b>>
<1> DEFINE s == <<a>>
           t == <<b>>
           u == <<a, b>>
<1>1. /\ s \in Seq({a, b}) /\ t \in Seq({a, b}) /\ u \in Seq({a, b})
      /\ Len(s) = 1 /\ Len(t) = 1 /\ Len(u) = 2
      /\ s[1] = a /\ t[1] = b /\ u[1] = a /\ u[2] = b
    OBVIOUS
<1> HIDE DEF s, t, u
<1>2. /\ s \o t \in Seq({a, b}) /\ Len(s \o t) = Len(s) + Len(t)
      /\ \A k \in 1..(Len(s) + Len(t)) :
            (s \o t)[k] = IF k <= Len(s) THEN s[k] ELSE t[k - Len(s)]
    BY <1>1, ConcatProperties
<1>3. Len(s \o t) = 2 /\ (s \o t)[1] = a /\ (s \o t)[2] = b
    BY <1>1, <1>2
<1>4. \A k \in 1..2 : k = 1 \/ k = 2
    OBVIOUS
<1>5. \A k \in 1..Len(s \o t) : (s \o t)[k] = u[k]
    BY <1>1, <1>3, <1>4
<1>6. s \o t = u
    BY <1>1, <1>2, <1>3, <1>5, SeqEqual
<1>7. QED
    BY <1>6 DEF s, t, u

LEMMA InOne ==
    ASSUME NEW s \in Seq(Objects), Len(s) = 1
    PROVE  s[1] \in Objects /\ InSeq(s) = {s[1]} /\ DOMAIN s = {1}
<1>1. DOMAIN s = {1}
    BY LenProperties
<1>2. s[1] \in Objects
    <2>1. 1 \in 1..Len(s)
        OBVIOUS
    <2>2. QED
        BY <2>1, ElementOfSeq
<1>3. QED
    BY <1>1, <1>2 DEF InSeq

LEMMA InNone ==
    ASSUME NEW s \in Seq(Objects)
    PROVE  /\ Len(s) \in Nat
           /\ Len(s) = 0 <=> s = << >>
           /\ s = << >> => InSeq(s) = {}
<1>1. Len(s) \in Nat /\ (Len(s) = 0 <=> s = << >>)
    BY EmptySeq, LenProperties
<1>2. InSeq(<< >>) = {}
    BY DEF InSeq
<1>3. QED
    BY <1>1, <1>2

LEMMA LineStarts ==
    ASSUME EnhancersOK, GroupInv, ObjectEnhancer
    PROVE  LineInv'
<1> SUFFICES ASSUME SingleLine(object)
             PROVE  /\ InSeq(todo') \subseteq Reached[object]
                    /\ Len(roots') + Len(todo') = 1
    BY DEF ObjectEnhancer, report, LineInv, SingleLine
<1>1. object \in Objects
    BY DEF ObjectEnhancer, EnhancersOK
<1>2. /\ todo' = Owners[object] /\ todo' \in Seq(Objects)
      /\ roots' = IF Owners[object] = << >> THEN <<object>> ELSE << >>
    BY <1>1, OwnersAreObjects DEF ObjectEnhancer
<1>3. InSeq(todo') \subseteq Reached[object]
    BY <1>1, <1>2, ReachedIsClosed DEF ClosedUnderOwners
<1>4. Len(todo') <= 1 /\ Len(todo') \in Nat /\ (Len(todo') = 0 <=> todo' = << >>)
    BY <1>1, <1>2, ReachedIsClosed, InNone DEF SingleLine
<1>5. Len(roots') = IF todo' = << >> THEN 1 ELSE 0
    BY <1>2
<1>6. Len(roots') + Len(todo') = 1
    <2>1. CASE Len(todo') = 0
        BY <1>4, <1>5, <2>1
    <2>2. CASE Len(todo') # 0
        <3>1. Len(todo') = 1
            BY <1>4, <2>2, AtMostOne
        <3>2. QED
            BY <1>4, <1>5, <2>2, <3>1
    <2>3. QED
        BY <2>1, <2>2
<1>7. QED
    BY <1>3, <1>6

LEMMA LineGoesOn ==
    ASSUME EnhancersOK, GroupInv, OwnerFound
    PROVE  LineInv'
<1> SUFFICES ASSUME SingleLine(object)
             PROVE  /\ InSeq(todo') \subseteq Reached[object]
                    /\ Len(roots') + Len(todo') = 1
    BY DEF OwnerFound, report, LineInv, SingleLine
<1> DEFINE o == Head(todo)
<1>1. /\ todo \in Seq(Objects) /\ todo # << >> /\ roots \in Seq(Objects)
      /\ object \in Objects
      /\ InSeq(todo) \subseteq Reached[object] /\ Len(roots) + Len(todo) = 1
    BY DEF OwnerFound, EnhancersOK, TypeOK, GroupInv, LineInv
<1>2. Len(todo) = 1 /\ Len(roots) = 0 /\ roots = << >>
    <2>1. Len(todo) \in Nat /\ Len(todo) # 0 /\ Len(roots) \in Nat
        BY <1>1, InNone
    <2>2. Len(todo) = 1 /\ Len(roots) = 0
        <3>1. Len(roots) + Len(todo) = 1
            BY <1>1
        <3>2. QED
            BY <2>1, <3>1, SumIsOne
    <2>3. QED
        BY <1>1, <2>2, InNone
<1>3. /\ o \in Objects /\ o \in InSeq(todo) /\ Tail(todo) \in Seq(Objects)
      /\ Len(Tail(todo)) = 0
    BY <1>1, <1>2, InHeadTail, HeadTailProperties
<1>4. Tail(todo) = << >>
    BY <1>3, InNone
<1>5. o \in Reached[object] /\ Owners[o] \in Seq(Objects)
      /\ InSeq(Owners[o]) \subseteq Reached[object]
    BY <1>1, <1>3, OwnersAreObjects, ReachedIsClosed DEF ClosedUnderOwners
<1>6. todo' = Owners[o]
    BY <1>4, <1>5, ConcatEmptySeq DEF OwnerFound
<1>7. /\ Len(Owners[o]) <= 1 /\ Len(Owners[o]) \in Nat
      /\ Len(Owners[o]) = 0 <=> Owners[o] = << >>
    BY <1>5, InNone DEF SingleLine
<1>8. roots' = IF Owners[o] = << >> THEN Append(roots, o) ELSE roots
    BY DEF OwnerFound
<1>9. Len(Append(roots, o)) = 1
    BY <1>1, <1>2, <1>3, AppendProperties
<1>10. Len(roots') = IF Owners[o] = << >> THEN 1 ELSE 0
    BY <1>2, <1>8, <1>9
<1>11. Len(roots') + Len(Owners[o]) = 1
    <2>1. CASE Len(Owners[o]) = 0
        BY <1>7, <1>10, <2>1
    <2>2. CASE Len(Owners[o]) # 0
        <3>1. Len(Owners[o]) = 1
            BY <1>7, <2>2, AtMostOne
        <3>2. QED
            BY <1>7, <1>10, <2>2, <3>1
    <2>3. QED
        BY <2>1, <2>2
<1>12. QED
    BY <1>5, <1>6, <1>11

(* When the search is over, a single line has led to one root, and what is *)
(* added to the fingerprint is its label.                                  *)
LEMMA LineEnds ==
    ASSUME EnhancersOK, SearchInv, GroupInv, KindEnhancers
    PROVE  MessageInv'
<1>1. /\ pc = "search" /\ pc' = "capture" /\ todo = << >>
      /\ object \in Objects /\ roots \in Seq(Objects)
      /\ lookup = "done" /\ fingerprint = <<MessageKey(message)>>
      /\ fingerprint' = fingerprint \o OwnLabels
      /\ object' = object /\ message' = message /\ lookup' = lookup
    BY DEF KindEnhancers, report, EnhancersOK, TypeOK, GroupInv, MessageInv
<1>2. ASSUME SingleLine(object)
      PROVE  \E root \in Objects :
                /\ RootsOf(object) = {root}
                /\ fingerprint' = <<MessageKey(message), Label[root]>>
    <2>1. Len(roots) = 1
        <3>1. Len(roots) + Len(todo) = 1
            BY <1>1, <1>2 DEF GroupInv, LineInv
        <3>2. Len(roots) \in Nat /\ Len(todo) = 0
            BY <1>1, InNone
        <3>3. QED
            BY <3>1, <3>2
    <2>2. roots[1] \in Objects /\ InSeq(roots) = {roots[1]} /\ DOMAIN roots = {1}
        BY <1>1, <2>1, InOne
    <2>3. RootsOf(object) = {roots[1]}
        <3>1. InSeq(todo) = {}
            BY <1>1 DEF InSeq
        <3>2. RootsOf(object) = InSeq(roots) \cup UNION {RootsOf(o) : o \in InSeq(todo)}
            BY <1>1 DEF SearchInv, SearchIsComplete
        <3>3. QED
            BY <2>2, <3>1, <3>2
    <2>4. OwnLabels = <<Label[roots[1]]>>
        <3>1. CASE roots[1] = object
            BY <3>1 DEF OwnLabels, RootOwners
        <3>2. CASE roots[1] # object
            <4>1. RootOwners = roots /\ roots # << >>
                <5>1. Len(roots) = 0 <=> roots = << >>
                    BY <1>1, InNone
                <5>2. RootOwners = roots
                    BY <3>2 DEF RootOwners
                <5>3. QED
                    BY <2>1, <5>1, <5>2
            <4>2. Labels(roots) = [k \in {1} |-> Label[roots[1]]]
                BY <2>2 DEF Labels
            <4>3. <<Label[roots[1]]>> = [k \in {1} |-> Label[roots[1]]]
                OBVIOUS
            <4>4. QED
                BY <4>1, <4>2, <4>3 DEF OwnLabels
        <3>3. QED
            BY <3>1, <3>2
    <2>5. fingerprint' = <<MessageKey(message), Label[roots[1]]>>
        <3>1. fingerprint' = <<MessageKey(message)>> \o <<Label[roots[1]]>>
            BY <1>1, <2>4
        <3>2. QED
            BY <3>1, PairIsConcat
    <2>6. QED
        BY <2>2, <2>3, <2>5
<1>3. SingleLine(object)' <=> SingleLine(object)
    BY <1>1 DEF SingleLine
<1>4. FingerprintFits(object, message, lookup, fingerprint)'
    BY <1>1, <1>2, <1>3 DEF FingerprintFits, RootsOf, SingleLine, MessageKey
<1>5. QED
    BY <1>1, <1>4 DEF MessageInv

LEMMA MessageKeyStarts ==
    ASSUME GroupInv, ObjectEnhancer
    PROVE  MessageInv'
<1>1. /\ pc = "object" /\ pc' = "search" /\ message' = message /\ lookup' = lookup
      /\ fingerprint' = IF fingerprint = << >> THEN <<message>> ELSE fingerprint
    BY DEF ObjectEnhancer, report
<1>2. lookup = "done" /\ fingerprint = CommonFingerprint(message)
    BY <1>1 DEF GroupInv, MessageInv
<1>3. fingerprint' = <<MessageKey(message)>>
    <2>1. CASE Pattern[message] = NoPattern
        BY <1>1, <1>2, <2>1 DEF CommonFingerprint, MessageKey
    <2>2. CASE Pattern[message] # NoPattern
        <3>1. fingerprint = <<Pattern[message]>>
            BY <1>2, <2>2 DEF CommonFingerprint
        <3>2. fingerprint # << >>
            BY <3>1
        <3>3. QED
            BY <1>1, <2>2, <3>1, <3>2 DEF MessageKey
    <2>3. QED
        BY <2>1, <2>2
<1>4. QED
    BY <1>1, <1>2, <1>3 DEF MessageInv, MessageKey

(* A report is captured with the fingerprint it has come to. *)
LEMMA CaptureGroups ==
    ASSUME GroupInv, Capture
    PROVE  GroupInv'
<1>1. pc = "capture" /\ pc' = "idle" /\ lookup' = "done"
    BY DEF Capture
<1>2. FingerprintFits(object, message, lookup, fingerprint)
    BY <1>1 DEF GroupInv, MessageInv
<1>3. ASSUME NEW r \in reports'
      PROVE  FingerprintFits(r.object, r.message, r.lookup, r.fingerprint)
    <2>1. CASE r \in reports
        BY <2>1 DEF GroupInv, ReportInv
    <2>2. CASE r \notin reports
        <3>1. /\ r.object = object /\ r.message = message
              /\ r.lookup = lookup /\ r.fingerprint = fingerprint
            BY <2>2 DEF Capture
        <3>2. QED
            BY <1>2, <3>1
    <2>3. QED
        BY <2>1, <2>2
<1>4. ReportInv'
    BY <1>3 DEF ReportInv, FingerprintFits, SingleLine, RootsOf, MessageKey
<1>5. LineInv' /\ MessageInv'
    BY <1>1 DEF LineInv, MessageInv
<1>6. QED
    BY <1>4, <1>5 DEF GroupInv

LEMMA GroupInvStep ==
    ASSUME EnhancersOK, SearchInv, GroupInv, [Next]_vars
    PROVE  GroupInv'
<1>1. ASSUME UNCHANGED reports
      PROVE  ReportInv'
    BY <1>1 DEF GroupInv, ReportInv, FingerprintFits, SingleLine, RootsOf,
                MessageKey
<1>2. CASE ObjectEnhancer
    BY <1>1, <1>2, LineStarts, MessageKeyStarts DEF ObjectEnhancer, GroupInv
<1>3. CASE OwnerFound
    <2>1. pc' = "search" /\ UNCHANGED <<message, lookup, fingerprint, reports>>
          /\ pc = "search"
        BY <1>3 DEF OwnerFound, report
    <2>2. MessageInv'
        BY <2>1 DEF GroupInv, MessageInv, MessageKey
    <2>3. QED
        BY <1>1, <1>3, <2>1, <2>2, LineGoesOn DEF GroupInv
<1>4. CASE OwnerNotFound
    <2>1. /\ pc = "search" /\ pc' = "capture"
          /\ lookup' \in {"no owner", "unknown kind"}
          /\ UNCHANGED <<object, message, fingerprint, reports>>
        BY <1>4 DEF OwnerNotFound, report
    <2>2. fingerprint' = <<MessageKey(message)>>
        BY <2>1 DEF GroupInv, MessageInv
    <2>3. LineInv' /\ MessageInv'
        BY <2>1, <2>2 DEF LineInv, MessageInv, FingerprintFits, MessageKey
    <2>4. QED
        BY <1>1, <2>1, <2>3 DEF GroupInv
<1>5. CASE KindEnhancers
    <2>1. LineInv' /\ UNCHANGED reports
        BY <1>5 DEF KindEnhancers, LineInv
    <2>2. QED
        BY <1>1, <1>5, <2>1, LineEnds DEF GroupInv
<1>6. CASE Capture
    BY <1>6, CaptureGroups
<1>7. ASSUME NEW o \in Objects, NEW m \in Messages, BuildSentryEvent(o, m)
      PROVE  GroupInv'
    <2>1. /\ pc = "idle" /\ lookup = "done" /\ message' = m
          /\ fingerprint' = CommonFingerprint(m) /\ UNCHANGED reports
          /\ \/ pc' = "object" /\ lookup' = lookup
             \/ pc' = "capture" /\ lookup' = "no object"
        BY <1>7 DEF BuildSentryEvent, GroupInv, MessageInv
    <2>2. LineInv' /\ MessageInv'
        BY <2>1 DEF LineInv, MessageInv, FingerprintFits, CommonFingerprint
    <2>3. QED
        BY <1>1, <2>1, <2>2 DEF GroupInv
<1>8. CASE UNCHANGED vars
    BY <1>1, <1>8 DEF vars, report, search, GroupInv, LineInv, MessageInv,
       FingerprintFits, SingleLine, RootsOf, MessageKey, CommonFingerprint
<1>9. QED
    BY <1>2, <1>3, <1>4, <1>5, <1>6, <1>7, <1>8 DEF Next, Step

LEMMA GroupInvariant == Spec => []GroupInv
<1>1. Init => GroupInv
    BY DEF Init, GroupInv, LineInv, MessageInv, ReportInv
<1>2. QED
    BY <1>1, SearchInit, SearchStep, EnhancersOKInvariant, GroupInvStep, PTL
       DEF Spec

(* Reports that are complete are in one group exactly if they are of one   *)
(* message, or pattern, and of one root: what ownerRefDFS finds on a line  *)
(* of owners, for any graph with such lines (objectEnhancer).              *)
THEOREM ReportsAreGroupedByRoot == Spec => []GroupedByRoot
<1>1. GroupInv => GroupedByRoot
    <2> SUFFICES ASSUME GroupInv,
                        NEW r \in {x \in reports :
                                     x.lookup = "done" /\ SingleLine(x.object)},
                        NEW s \in {x \in reports :
                                     x.lookup = "done" /\ SingleLine(x.object)}
                 PROVE  r.fingerprint = s.fingerprint <=> GroupKey(r) = GroupKey(s)
        BY DEF GroupedByRoot
    <2>1. PICK a \in Objects : /\ RootsOf(r.object) = {a}
                               /\ r.fingerprint = <<MessageKey(r.message), Label[a]>>
        BY DEF GroupInv, ReportInv, FingerprintFits
    <2>2. PICK b \in Objects : /\ RootsOf(s.object) = {b}
                               /\ s.fingerprint = <<MessageKey(s.message), Label[b]>>
        BY DEF GroupInv, ReportInv, FingerprintFits
    <2>3. GroupKey(r) = <<MessageKey(r.message), {Label[a]}>>
        BY <2>1 DEF GroupKey, MessageKey
    <2>4. GroupKey(s) = <<MessageKey(s.message), {Label[b]}>>
        BY <2>2 DEF GroupKey, MessageKey
    <2>5. QED
        BY <2>1, <2>2, <2>3, <2>4
<1>2. QED
    BY <1>1, GroupInvariant, PTL

(* A report whose search failed is grouped by its message, or pattern,     *)
(* alone, at whatever owner it failed and whatever was found before        *)
(* (objectEnhancer returns the error of findRootOwners).                   *)
THEOREM FailuresAreGroupedByMessage == Spec => []FailureIsNotHalfGrouped
<1>1. GroupInv => FailureIsNotHalfGrouped
    <2> SUFFICES ASSUME GroupInv,
                        NEW r \in {x \in reports :
                                     x.lookup \in {"no owner", "unknown kind"}},
                        NEW s \in {x \in reports :
                                     x.lookup \in {"no owner", "unknown kind"}},
                        GroupKey(r)[1] = GroupKey(s)[1]
                 PROVE  r.fingerprint = s.fingerprint
        BY DEF FailureIsNotHalfGrouped
    <2>1. /\ r.fingerprint = <<MessageKey(r.message)>>
          /\ s.fingerprint = <<MessageKey(s.message)>>
        BY DEF GroupInv, ReportInv, FingerprintFits
    <2>2. MessageKey(r.message) = MessageKey(s.message)
        BY DEF GroupKey, MessageKey
    <2>3. QED
        BY <2>1, <2>2
<1>2. QED
    BY <1>1, GroupInvariant, PTL
=============================================================================
