------------------------- MODULE EventBufferProofs -------------------------
(***************************************************************************)
(* The ring of EventBuffer implements the window of RecentEvents, for any  *)
(* buffer size and any events; and the watchers of EventPipeline, which    *)
(* share it, report an event with the breadcrumbs that the history of them *)
(* all calls for, for any number of watchers and any limit.                *)
(***************************************************************************)
EXTENDS EventPipeline, Induction, SequenceTheorems, TLAPS

LEMMA BufferInvStep ==
    ASSUME BufferInv, NEW e \in Events, AddEventToBuffer(e)
    PROVE  BufferInv'
  <1>1. BufferTypeOK'
    BY SizeAssumption DEF BufferInv, BufferTypeOK, AddEventToBuffer, RingNext
  <1>2. FilledInOrder'
    <2>1. /\ slots' = [slots EXCEPT ![pos] = e] /\ e # Nil
          /\ slots \in [0..(Size - 1) -> Events \cup {Nil}]
          /\ pos \in 0..(Size - 1)
      BY EventsAssumption DEF BufferInv, BufferTypeOK, AddEventToBuffer
    <2>2. CASE \A p \in 0..(Size - 1) : slots[p] # Nil
      <3>1. \A p \in 0..(Size - 1) : slots'[p] # Nil
        BY <2>1, <2>2
      <3>2. QED
        BY <3>1 DEF FilledInOrder
    <2>3. CASE \A p \in 0..(Size - 1) : slots[p] # Nil <=> p < pos
      <3>1. \A p \in 0..(Size - 1) : slots'[p] # Nil <=> p < pos + 1
        BY <2>1, <2>3, SizeAssumption
      <3>2. CASE pos = Size - 1
        <4>1. \A p \in 0..(Size - 1) : slots'[p] # Nil
          BY <3>1, <3>2, SizeAssumption
        <4>2. QED
          BY <4>1 DEF FilledInOrder
      <3>3. CASE pos # Size - 1
        <4>1. pos' = pos + 1
          BY <3>3 DEF AddEventToBuffer, RingNext
        <4>2. QED
          BY <3>1, <4>1 DEF FilledInOrder
      <3>4. QED
        BY <3>2, <3>3
    <2>4. QED
      BY <2>2, <2>3 DEF BufferInv, FilledInOrder
  <1>3. QED
    BY <1>1, <1>2 DEF BufferInv

(* The ring is always filled in order. *)
THEOREM BufferCorrect == BufferSpec => []BufferInv
  <1>1. InitBuffer => BufferInv
    BY SizeAssumption DEF InitBuffer, BufferInv, BufferTypeOK, FilledInOrder
  <1>2. BufferInv /\ [NextBuffer]_buffer => BufferInv'
    <2>1. BufferInv /\ UNCHANGED buffer => BufferInv'
      BY DEF BufferInv, BufferTypeOK, FilledInOrder, buffer
    <2>2. QED
      BY <2>1, BufferInvStep DEF NextBuffer
  <1>3. QED
    BY <1>1, <1>2, PTL DEF BufferSpec

(* While elements are unset, the new event is appended to the window. *)
LEMMA AddToPartial ==
    ASSUME BufferInv, NEW e \in Events, AddEventToBuffer(e), slots[pos] = Nil
    PROVE  Len(Contents) < Size /\ Contents' = Append(Contents, e)
  <1>1. /\ slots \in [0..(Size - 1) -> Events \cup {Nil}]
        /\ pos \in 0..(Size - 1) /\ Size \in Nat \ {0}
        /\ slots' = [slots EXCEPT ![pos] = e] /\ e # Nil
    BY EventsAssumption, SizeAssumption
       DEF BufferInv, BufferTypeOK, AddEventToBuffer
  <1>2. Contents = [k \in 1..pos |-> slots[k - 1]]
    BY DEF Contents
  <1>3. \A p \in 0..(Size - 1) : slots[p] # Nil <=> p < pos
    BY <1>1 DEF BufferInv, FilledInOrder
  <1>4. Contents \in Seq(Events) /\ Len(Contents) = pos
    <2>1. \A k \in 1..pos : slots[k - 1] \in Events
      BY <1>1, <1>3
    <2>2. QED
      BY <1>1, <1>2, <2>1
  <1>5. Append(Contents, e) = [k \in 1..(pos + 1) |-> slots'[k - 1]]
    <2>1. /\ Append(Contents, e) \in Seq(Events)
          /\ Len(Append(Contents, e)) = pos + 1
          /\ \A k \in 1..(pos + 1) : Append(Contents, e)[k] =
                IF k = pos + 1 THEN e ELSE Contents[k]
      BY <1>1, <1>4
    <2>2. \A k \in 1..(pos + 1) : Append(Contents, e)[k] = slots'[k - 1]
      BY <1>1, <1>2, <2>1
    <2>3. Append(Contents, e) = [k \in 1..(pos + 1) |-> Append(Contents, e)[k]]
      BY <1>1, <2>1
    <2>4. QED
      BY <2>2, <2>3
  <1>6. Contents' = [k \in 1..(pos + 1) |-> slots'[k - 1]]
    <2>1. CASE pos = Size - 1
      <3>1. pos' = 0 /\ slots'[0] # Nil
        BY <1>1, <1>3, <2>1 DEF AddEventToBuffer, RingNext
      <3>2. Contents' = [k \in 1..Size |-> IF 0 + k - 1 < Size
                                           THEN slots'[0 + k - 1]
                                           ELSE slots'[0 + k - 1 - Size]]
        BY <3>1 DEF Contents
      <3>3. \A k \in 1..Size : 0 + k - 1 < Size /\ 0 + k - 1 = k - 1
        BY <1>1
      <3>4. QED
        BY <1>1, <2>1, <3>2, <3>3
    <2>2. CASE pos # Size - 1
      <3>1. pos' = pos + 1 /\ slots'[pos'] = Nil
        BY <1>1, <1>3, <2>2 DEF AddEventToBuffer, RingNext
      <3>2. QED
        BY <3>1 DEF Contents
    <2>3. QED
      BY <2>1, <2>2
  <1>7. QED
    BY <1>1, <1>4, <1>5, <1>6

(* Dropping the head of a sequence and appending an element. *)
LEMMA ShiftedSequence ==
    ASSUME NEW S, NEW s \in Seq(S), s # << >>, NEW e \in S
    PROVE  /\ Append(Tail(s), e) \in Seq(S)
           /\ Len(Append(Tail(s), e)) = Len(s)
           /\ \A k \in 1..(Len(s) - 1) : Append(Tail(s), e)[k] = s[k + 1]
           /\ Append(Tail(s), e)[Len(s)] = e
  <1> DEFINE t == Tail(s)
  <1>1. Len(s) \in Nat
    BY LenProperties
  <1>2. /\ t \in Seq(S) /\ Len(t) = Len(s) - 1
        /\ \A k \in 1..Len(t) : t[k] = s[k + 1]
    BY HeadTailProperties
  <1> HIDE DEF t
  <1>3. /\ Append(t, e) \in Seq(S) /\ Len(Append(t, e)) = Len(t) + 1
        /\ \A k \in 1..Len(t) : Append(t, e)[k] = t[k]
        /\ Append(t, e)[Len(t) + 1] = e
    BY <1>2, AppendProperties
  <1>4. QED
    BY <1>1, <1>2, <1>3 DEF t

(* Once all are set, the new event takes the place of the oldest one. *)
LEMMA AddToFull ==
    ASSUME BufferInv, NEW e \in Events, AddEventToBuffer(e), slots[pos] # Nil
    PROVE  Len(Contents) = Size /\ Contents' = Append(Tail(Contents), e)
  <1>1. /\ slots \in [0..(Size - 1) -> Events \cup {Nil}]
        /\ pos \in 0..(Size - 1) /\ Size \in Nat \ {0}
        /\ slots' = [slots EXCEPT ![pos] = e] /\ e # Nil
    BY EventsAssumption, SizeAssumption
       DEF BufferInv, BufferTypeOK, AddEventToBuffer
  <1>2. \A p \in 0..(Size - 1) : slots[p] \in Events /\ slots'[p] \in Events
    BY <1>1 DEF BufferInv, FilledInOrder
  <1> DEFINE At(s, q, k) == IF q + k - 1 < Size THEN s[q + k - 1]
                            ELSE s[q + k - 1 - Size]
  <1>3. Contents = [k \in 1..Size |-> At(slots, pos, k)]
    BY DEF Contents
  <1>4. pos' \in 0..(Size - 1) /\ slots'[pos'] # Nil
    BY <1>1, <1>2, EventsAssumption DEF AddEventToBuffer, RingNext
  <1>5. Contents' = [k \in 1..Size |-> At(slots', pos', k)]
    BY <1>4 DEF Contents
  <1>6. Contents \in Seq(Events) /\ Len(Contents) = Size
    <2>1. \A k \in 1..Size : At(slots, pos, k) \in Events
      BY <1>1, <1>2
    <2>2. QED
      BY <1>1, <1>3, <2>1
  <1>7. \A k \in 1..(Size - 1) : At(slots', pos', k) = At(slots, pos, k + 1)
    BY <1>1 DEF AddEventToBuffer, RingNext
  <1>8. At(slots', pos', Size) = e
    BY <1>1 DEF AddEventToBuffer, RingNext
  <1> DEFINE Shifted == Append(Tail(Contents), e)
  <1>9. /\ Shifted \in Seq(Events) /\ Len(Shifted) = Size
        /\ \A k \in 1..(Size - 1) : Shifted[k] = Contents[k + 1]
        /\ Shifted[Size] = e
    <2>1. Contents # << >>
      BY <1>1, <1>6
    <2>2. QED
      BY <1>1, <1>6, <2>1, ShiftedSequence
  <1>10. \A k \in 1..Size : Shifted[k] = At(slots', pos', k)
    <2> SUFFICES ASSUME NEW k \in 1..Size
                 PROVE  Shifted[k] = At(slots', pos', k)
      OBVIOUS
    <2>1. CASE k = Size
      BY <1>8, <1>9, <2>1
    <2>2. CASE k # Size
      <3>1. k \in 1..(Size - 1) /\ k + 1 \in 1..Size
        BY <1>1, <2>2
      <3>2. QED
        BY <1>3, <1>7, <1>9, <3>1
    <2>3. QED
      BY <2>1, <2>2
  <1>11. Shifted = [k \in 1..Size |-> Shifted[k]]
    BY <1>9, LenProperties
  <1>12. QED
    BY <1>5, <1>6, <1>10, <1>11

(* The ring implements the window: it holds the last Size events added, in *)
(* their order, before and after it wraps around.                          *)
THEOREM BufferRefinement == BufferSpec => ImplementsWindow
  <1>1. InitBuffer => Window!Init
    BY SizeAssumption DEF InitBuffer, Window!Init, Contents
  <1>2. BufferInv /\ [NextBuffer]_buffer => [Window!Next]_Contents
    <2> SUFFICES ASSUME BufferInv, [NextBuffer]_buffer
                 PROVE  [Window!Next]_Contents
      OBVIOUS
    <2>1. ASSUME NEW e \in Events, AddEventToBuffer(e)
          PROVE  Window!Next
      BY <2>1, AddToPartial, AddToFull DEF Window!Next, Window!Remember
    <2>2. CASE UNCHANGED buffer
      BY <2>2 DEF buffer, Contents
    <2>3. QED
      BY <2>1, <2>2 DEF NextBuffer
  <1>3. QED
    BY <1>1, <1>2, BufferCorrect, PTL DEF BufferSpec, ImplementsWindow, Window!Spec

----------------------------------------------------------------------------
(* The loop over the ring.                                                 *)

(* One turn of the loop, and a function that records n of them. *)
Turn(o, res, e) == IF e # Nil /\ About[e] = o THEN Append(res, e) ELSE res

Turns(o, s, n, f) ==
    f = [k \in 0..n |-> IF k = 0 THEN << >> ELSE Turn(o, f[k - 1], s[k])]

LEMMA TurnsAt ==
    ASSUME NEW o, NEW s, NEW n \in Nat, NEW f, Turns(o, s, n, f), NEW k \in 1..n
    PROVE  f[k] = Turn(o, f[k - 1], s[k])
<1>1. k \in 0..n /\ k # 0
    OBVIOUS
<1>2. QED
    BY <1>1 DEF Turns

LEMMA TurnsExist ==
    ASSUME NEW o, NEW s, NEW n \in Nat
    PROVE  \E f : Turns(o, s, n, f)
<1> DEFINE P == {k \in 0..n : \E f : Turns(o, s, k, f)}
<1>1. 0 \in P
    <2> DEFINE f == [k \in 0..0 |-> << >>]
    <2>1. Turns(o, s, 0, f)
        BY DEF Turns
    <2>2. QED
        BY <2>1
<1>2. ASSUME NEW k \in 0..(n - 1), k \in P
      PROVE  k + 1 \in P
    <2>1. PICK f : Turns(o, s, k, f)
        BY <1>2
    <2> DEFINE g == [m \in 0..(k + 1) |-> IF m = k + 1 THEN Turn(o, f[k], s[k + 1])
                                         ELSE f[m]]
    <2>2. k \in Nat /\ k + 1 \in 0..n
        OBVIOUS
    <2>3. \A m \in 0..(k + 1) :
              g[m] = IF m = 0 THEN << >> ELSE Turn(o, g[m - 1], s[m])
        <3> SUFFICES ASSUME NEW m \in 0..(k + 1)
                     PROVE  g[m] = IF m = 0 THEN << >> ELSE Turn(o, g[m - 1], s[m])
            OBVIOUS
        <3>1. CASE m = k + 1
            <4>1. m # 0 /\ m - 1 = k /\ k # k + 1 /\ k \in 0..(k + 1)
                BY <2>2, <3>1
            <4>2. g[m - 1] = f[k] /\ g[m] = Turn(o, f[k], s[k + 1])
                BY <3>1, <4>1
            <4>3. QED
                BY <3>1, <4>1, <4>2
        <3>2. CASE m # k + 1
            <4>1. m \in 0..k
                BY <2>2, <3>2
            <4>2. f[m] = IF m = 0 THEN << >> ELSE Turn(o, f[m - 1], s[m])
                BY <2>1, <4>1 DEF Turns
            <4>3. g[m] = f[m]
                BY <3>2
            <4>4. CASE m = 0
                BY <4>2, <4>3, <4>4
            <4>5. CASE m # 0
                <5>1. m - 1 \in 0..(k + 1) /\ m - 1 # k + 1
                    BY <2>2, <4>1, <4>5
                <5>2. g[m - 1] = f[m - 1]
                    BY <5>1
                <5>3. QED
                    BY <4>2, <4>3, <4>5, <5>2
            <4>6. QED
                BY <4>4, <4>5
        <3>3. QED
            BY <3>1, <3>2
    <2>4. g = [m \in 0..(k + 1) |-> g[m]]
        OBVIOUS
    <2> HIDE DEF g
    <2>5. Turns(o, s, k + 1, g)
        BY <2>3, <2>4 DEF Turns
    <2>6. QED
        BY <2>2, <2>5
<1> HIDE DEF P
<1>3. 0..n \subseteq P
    BY <1>1, <1>2, CountUp
<1>4. QED
    BY <1>3 DEF P

(* EventsAbout is what the turns over the whole sequence collect. *)
LEMMA EventsAboutTurns ==
    ASSUME NEW o, NEW s, Len(s) \in Nat
    PROVE  \E f : Turns(o, s, Len(s), f) /\ EventsAbout(o, s) = f[Len(s)]
<1> DEFINE res[n \in 0..Len(s)] ==
        IF n = 0 THEN << >>
        ELSE IF s[n] # Nil /\ About[s[n]] = o THEN Append(res[n - 1], s[n])
             ELSE res[n - 1]
<1> DEFINE g == CHOOSE f : Turns(o, s, Len(s), f)
<1>1. Turns(o, s, Len(s), g)
    BY TurnsExist
<1>2. res = g
    BY Zenon DEF Turns, Turn
<1>3. EventsAbout(o, s) = res[Len(s)]
    BY DEF EventsAbout
<1>4. QED
    BY <1>1, <1>2, <1>3, Zenon

LEMMA EventsAboutAreEvents ==
    ASSUME NEW o, NEW s \in Seq(Events \cup {Nil})
    PROVE  EventsAbout(o, s) \in Seq(Events)
<1>1. Len(s) \in Nat /\ \A k \in 1..Len(s) : s[k] \in Events \cup {Nil}
    OBVIOUS
<1>2. PICK f : Turns(o, s, Len(s), f) /\ EventsAbout(o, s) = f[Len(s)]
    BY <1>1, EventsAboutTurns
<1> DEFINE P == {k \in 0..Len(s) : f[k] \in Seq(Events)}
<1>3. 0 \in P
    <2>1. f[0] = << >>
        BY <1>1, <1>2 DEF Turns
    <2>2. f[0] \in Seq(Events)
        BY <2>1, EmptySeq
    <2>3. QED
        BY <1>1, <2>2
<1>4. ASSUME NEW k \in 0..(Len(s) - 1), k \in P
      PROVE  k + 1 \in P
    <2>1. k + 1 \in 1..Len(s) /\ k + 1 - 1 = k /\ k + 1 # 0
        BY <1>1
    <2>2. f[k + 1] = Turn(o, f[k], s[k + 1])
        BY <1>1, <1>2, <2>1 DEF Turns
    <2>3. s[k + 1] \in Events \cup {Nil} /\ f[k] \in Seq(Events)
        BY <1>1, <1>4, <2>1
    <2>4. Turn(o, f[k], s[k + 1]) \in Seq(Events)
        BY <2>3 DEF Turn
    <2>5. QED
        BY <2>1, <2>2, <2>4
<1> HIDE DEF P
<1>5. 0..Len(s) \subseteq P
    BY <1>1, <1>3, <1>4, CountUp
<1>6. QED
    BY <1>1, <1>2, <1>5 DEF P

(* Elements not yet set, ahead of a sequence, add nothing to it. *)
LEMMA LeadingUnsetAreSkipped ==
    ASSUME NEW o, NEW s, NEW t, NEW d \in Nat,
           Len(t) \in Nat, Len(s) = d + Len(t),
           \A k \in 1..d : s[k] = Nil,
           \A k \in 1..Len(t) : s[d + k] = t[k]
    PROVE  EventsAbout(o, s) = EventsAbout(o, t)
<1>1. PICK f : Turns(o, s, Len(s), f) /\ EventsAbout(o, s) = f[Len(s)]
    BY EventsAboutTurns
<1>2. PICK g : Turns(o, t, Len(t), g) /\ EventsAbout(o, t) = g[Len(t)]
    BY EventsAboutTurns
<1>3. f[0] = << >> /\ g[0] = << >>
    BY <1>1, <1>2 DEF Turns
<1>4. \A k \in 1..Len(s) : f[k] = Turn(o, f[k - 1], s[k])
    BY <1>1, TurnsAt
<1>5. \A k \in 1..Len(t) : g[k] = Turn(o, g[k - 1], t[k])
    BY <1>2, TurnsAt
<1> DEFINE P == {k \in 0..d : f[k] = << >>}
<1>6. 0 \in P
    BY <1>3
<1>7. ASSUME NEW k \in 0..(d - 1), k \in P
      PROVE  k + 1 \in P
    <2>1. k + 1 \in 1..d /\ k + 1 \in 1..Len(s) /\ k + 1 - 1 = k
        OBVIOUS
    <2>2. f[k + 1] = Turn(o, << >>, Nil)
        BY <1>4, <1>7, <2>1
    <2>3. QED
        BY <2>1, <2>2 DEF Turn
<1>8. 0..d \subseteq P
    <2> HIDE DEF P
    <2>1. QED
        BY <1>6, <1>7, CountUp
<1> DEFINE Q == {k \in 0..Len(t) : f[d + k] = g[k]}
<1>9. 0 \in Q
    <2>1. d + 0 = d /\ f[d] = << >>
        BY <1>8
    <2>2. QED
        BY <1>3, <2>1
<1>10. ASSUME NEW k \in 0..(Len(t) - 1), k \in Q
       PROVE  k + 1 \in Q
    <2>1. PICK m \in 1..Len(t), l \in 1..Len(s) : m = k + 1 /\ l = d + m
        OBVIOUS
    <2>2. m - 1 = k /\ l - 1 = d + k /\ s[l] = t[m] /\ m \in 0..Len(t)
        BY <2>1
    <2>3. f[l] = Turn(o, f[d + k], t[m])
        BY <1>4, <2>2, Zenon
    <2>4. g[m] = Turn(o, g[k], t[m])
        BY <1>5, <2>2, Zenon
    <2>5. f[d + k] = g[k]
        BY <1>10, Zenon
    <2>6. f[d + m] = g[m]
        BY <2>1, <2>3, <2>4, <2>5, Zenon
    <2>7. QED
        BY <2>1, <2>2, <2>6, Zenon
<1>11. 0..Len(t) \subseteq Q
    <2> HIDE DEF Q
    <2>1. QED
        BY <1>9, <1>10, CountUp
<1>12. QED
    BY <1>1, <1>2, <1>11

----------------------------------------------------------------------------
(* The ring.                                                               *)

LEMMA ContentsAreEvents ==
    ASSUME BufferInv
    PROVE  Contents \in Seq(Events)
<1>1. /\ slots \in [0..(Size - 1) -> Events \cup {Nil}]
      /\ pos \in 0..(Size - 1) /\ Size \in Nat \ {0}
    BY SizeAssumption DEF BufferInv, BufferTypeOK
<1>2. CASE slots[pos] = Nil
    <2>1. \A k \in 1..pos : slots[k - 1] \in Events
        BY <1>1, <1>2 DEF BufferInv, FilledInOrder
    <2>2. Contents = [k \in 1..pos |-> slots[k - 1]]
        BY <1>2 DEF Contents
    <2>3. QED
        BY <1>1, <2>1, <2>2
<1>3. CASE slots[pos] # Nil
    <2>1. \A p \in 0..(Size - 1) : slots[p] \in Events
        BY <1>1, <1>3 DEF BufferInv, FilledInOrder
    <2> DEFINE At(k) == IF pos + k - 1 < Size THEN slots[pos + k - 1]
                        ELSE slots[pos + k - 1 - Size]
    <2>2. \A k \in 1..Size : At(k) \in Events
        BY <1>1, <2>1
    <2>3. Contents = [k \in 1..Size |-> At(k)]
        BY <1>3 DEF Contents
    <2>4. QED
        BY <1>1, <2>2, <2>3
<1>4. QED
    BY <1>2, <1>3

(* ring.Do: the elements from the pointer to the end, and those before it. *)
LEMMA RingOrder ==
    ASSUME BufferTypeOK, NEW k \in 1..Size
    PROVE  RingDo[k] = IF pos + k - 1 < Size THEN slots[pos + k - 1]
                       ELSE slots[pos + k - 1 - Size]
<1>1. pos \in 0..(Size - 1) /\ Size \in Nat \ {0}
    BY SizeAssumption DEF BufferTypeOK
<1>2. RingDo[k] = slots[(pos + k - 1) % Size]
    BY DEF RingDo
<1>3. PICK a : a = pos + k - 1
    OBVIOUS
<1>4. a \in 0..(2 * Size - 2)
    BY <1>1, <1>3
<1>5. RingDo[k] = slots[a % Size]
    BY <1>2, <1>3
<1>6. a < Size => a % Size = a
    BY <1>1, <1>4
<1>7. ~ (a < Size) => a % Size = a - Size
    BY <1>1, <1>4
<1>8. QED
    BY <1>1, <1>3, <1>5, <1>6, <1>7

(* The loop over a ring that may not be full reads what the ring contains. *)
LEMMA ReadsWindow ==
    ASSUME BufferInv, NEW o
    PROVE  FilterEventsFromBuffer(o) = EventsAbout(o, Contents)
<1>1. /\ slots \in [0..(Size - 1) -> Events \cup {Nil}]
      /\ pos \in 0..(Size - 1) /\ Size \in Nat \ {0} /\ BufferTypeOK
    BY SizeAssumption DEF BufferInv, BufferTypeOK
<1>2. Len(RingDo) = Size
    BY <1>1 DEF RingDo
<1>3. CASE slots[pos] = Nil
    <2> DEFINE d == Size - pos
    <2>1. Contents = [k \in 1..pos |-> slots[k - 1]]
        BY <1>3 DEF Contents
    <2>2. Len(Contents) = pos /\ d \in Nat /\ Size = d + pos
        BY <1>1, <2>1
    <2>3. \A p \in 0..(Size - 1) : slots[p] # Nil <=> p < pos
        BY <1>1, <1>3 DEF BufferInv, FilledInOrder
    <2>4. \A k \in 1..d : RingDo[k] = Nil
        <3> SUFFICES ASSUME NEW k \in 1..d
                     PROVE  RingDo[k] = Nil
            OBVIOUS
        <3>1. k \in 1..Size /\ pos + k - 1 < Size /\ pos + k - 1 \in pos..(Size - 1)
            BY <1>1
        <3>2. RingDo[k] = slots[pos + k - 1]
            BY <1>1, <3>1, RingOrder
        <3>3. QED
            BY <1>1, <2>3, <3>1, <3>2
    <2>5. \A k \in 1..pos : RingDo[d + k] = Contents[k]
        <3> SUFFICES ASSUME NEW k \in 1..pos
                     PROVE  RingDo[d + k] = Contents[k]
            OBVIOUS
        <3>1. /\ d + k \in 1..Size /\ ~ (pos + (d + k) - 1 < Size)
              /\ pos + (d + k) - 1 - Size = k - 1
            BY <1>1
        <3>2. RingDo[d + k] = slots[k - 1]
            BY <1>1, <3>1, RingOrder
        <3>3. QED
            BY <2>1, <3>2
    <2> HIDE DEF d
    <2>6. EventsAbout(o, RingDo) = EventsAbout(o, Contents)
        BY <1>1, <1>2, <2>2, <2>4, <2>5, LeadingUnsetAreSkipped
    <2>7. QED
        BY <2>6 DEF FilterEventsFromBuffer
<1>4. CASE slots[pos] # Nil
    <2>1. Contents = [k \in 1..Size |-> IF pos + k - 1 < Size
                                        THEN slots[pos + k - 1]
                                        ELSE slots[pos + k - 1 - Size]]
        BY <1>4 DEF Contents
    <2>2. \A k \in 1..Size : RingDo[k] = Contents[k]
        BY <1>1, <2>1, RingOrder
    <2>3. RingDo = [k \in 1..Size |-> RingDo[k]]
        BY DEF RingDo
    <2>4. Contents = [k \in 1..Size |-> Contents[k]]
        BY <2>1
    <2>5. RingDo = Contents
        BY <2>2, <2>3, <2>4
    <2>6. QED
        BY <2>5 DEF FilterEventsFromBuffer
<1>5. QED
    BY <1>3, <1>4

----------------------------------------------------------------------------
(* The end of a sequence.                                                  *)

LEMMA LastOfIsSeq ==
    ASSUME NEW S, NEW s \in Seq(S), NEW n \in Nat
    PROVE  LastOf(n, s) \in Seq(S)
<1>1. Len(s) \in Nat /\ \A k \in 1..Len(s) : s[k] \in S
    BY LenProperties, ElementOfSeq
<1>2. CASE Len(s) <= n
    BY <1>2 DEF LastOf
<1>3. CASE ~ (Len(s) <= n)
    <2>1. \A k \in (Len(s) - n + 1)..Len(s) : s[k] \in S
        BY <1>1, <1>3
    <2>2. SubSeq(s, Len(s) - n + 1, Len(s)) \in Seq(S)
        BY <1>1, <2>1, SubSeqProperties
    <2>3. QED
        BY <1>3, <2>2 DEF LastOf
<1>4. QED
    BY <1>2, <1>3

(* The end of a sequence, element by element. *)
LEMMA LastOfElements ==
    ASSUME NEW S, NEW s \in Seq(S), NEW n \in Nat, ~ (Len(s) < n)
    PROVE  /\ Len(LastOf(n, s)) = n
           /\ \A k \in 1..n : LastOf(n, s)[k] = s[Len(s) - n + k]
<1>1. Len(s) \in Nat /\ \A k \in 1..Len(s) : s[k] \in S
    BY LenProperties, ElementOfSeq
<1>2. CASE Len(s) = n
    <2>1. LastOf(n, s) = s
        BY <1>1, <1>2 DEF LastOf
    <2>2. \A k \in 1..n : Len(s) - n + k = k
        BY <1>1, <1>2
    <2>3. QED
        BY <1>2, <2>1, <2>2
<1>3. CASE Len(s) # n
    <2> DEFINE i == Len(s) - n + 1
    <2>1. LastOf(n, s) = SubSeq(s, i, Len(s))
        BY <1>1, <1>3 DEF LastOf
    <2>2. /\ i \in Int /\ Len(s) \in Int /\ i <= Len(s) + 1
          /\ \A k \in i..Len(s) : k \in 1..Len(s)
        BY <1>1
    <2>3. \A k \in i..Len(s) : s[k] \in S
        BY <1>1, <2>2
    <2>4. /\ Len(s) - i + 1 = n
          /\ \A k \in 1..n : i + k - 1 = Len(s) - n + k
        BY <1>1
    <2> HIDE DEF i
    <2>5. /\ Len(SubSeq(s, i, Len(s))) = Len(s) - i + 1
          /\ \A k \in 1..(Len(s) - i + 1) : SubSeq(s, i, Len(s))[k] = s[i + k - 1]
        BY <2>2, <2>3, SubSeqProperties
    <2>6. QED
        BY <2>1, <2>4, <2>5
<1>4. QED
    BY <1>2, <1>3

(* What is cut off before a sequence is continued would be cut off after   *)
(* it as well.                                                             *)
LEMMA LastOfTwice ==
    ASSUME NEW S, NEW s \in Seq(S), NEW t \in Seq(S), NEW n \in Nat
    PROVE  LastOf(n, LastOf(n, s) \o t) = LastOf(n, s \o t)
<1>1. Len(s) \in Nat /\ Len(t) \in Nat
    BY LenProperties
<1>2. CASE Len(s) <= n
    BY <1>2 DEF LastOf
<1>3. CASE ~ (Len(s) <= n)
    <2> DEFINE a == LastOf(n, s)
               u == a \o t
               v == s \o t
    <2>1. /\ a \in Seq(S) /\ Len(a) = n
          /\ \A k \in 1..n : a[k] = s[Len(s) - n + k]
        <3>1. ~ (Len(s) < n)
            BY <1>1, <1>3
        <3>2. QED
            BY <3>1, LastOfIsSeq, LastOfElements
    <2> HIDE DEF a
    <2>2. /\ u \in Seq(S) /\ Len(u) = n + Len(t)
          /\ \A k \in 1..(n + Len(t)) : u[k] = IF k <= n THEN a[k] ELSE t[k - n]
        BY <2>1, ConcatProperties
    <2>3. /\ v \in Seq(S) /\ Len(v) = Len(s) + Len(t)
          /\ \A k \in 1..(Len(s) + Len(t)) :
                v[k] = IF k <= Len(s) THEN s[k] ELSE t[k - Len(s)]
        BY ConcatProperties
    <2> HIDE DEF u, v
    <2>4. /\ LastOf(n, u) \in Seq(S) /\ Len(LastOf(n, u)) = n
          /\ \A k \in 1..n : LastOf(n, u)[k] = u[Len(u) - n + k]
        <3>1. u \in Seq(S) /\ ~ (Len(u) < n)
            BY <1>1, <2>2
        <3>2. LastOf(n, u) \in Seq(S)
            BY <3>1, LastOfIsSeq, Zenon
        <3>3. /\ Len(LastOf(n, u)) = n
              /\ \A k \in 1..n : LastOf(n, u)[k] = u[Len(u) - n + k]
            BY <3>1, LastOfElements
        <3>4. QED
            BY <3>2, <3>3, Zenon
    <2>5. /\ LastOf(n, v) \in Seq(S) /\ Len(LastOf(n, v)) = n
          /\ \A k \in 1..n : LastOf(n, v)[k] = v[Len(v) - n + k]
        <3>1. v \in Seq(S) /\ ~ (Len(v) < n)
            BY <1>1, <1>3, <2>3
        <3>2. LastOf(n, v) \in Seq(S)
            BY <3>1, LastOfIsSeq, Zenon
        <3>3. /\ Len(LastOf(n, v)) = n
              /\ \A k \in 1..n : LastOf(n, v)[k] = v[Len(v) - n + k]
            BY <3>1, LastOfElements
        <3>4. QED
            BY <3>2, <3>3, Zenon
    <2>6. ASSUME NEW k \in 1..n
          PROVE  LastOf(n, u)[k] = LastOf(n, v)[k]
        <3>1. PICK i \in 1..(n + Len(t)), j \in 1..(Len(s) + Len(t)) :
                  /\ i = Len(u) - n + k /\ j = Len(v) - n + k
                  /\ j = Len(s) - n + i
            <4>1. /\ Len(u) - n + k = Len(t) + k
                  /\ Len(v) - n + k = Len(s) - n + (Len(t) + k)
                BY <1>1, <2>2, <2>3
            <4>2. /\ Len(t) + k \in 1..(n + Len(t))
                  /\ Len(s) - n + (Len(t) + k) \in 1..(Len(s) + Len(t))
                BY <1>1, <1>3
            <4>3. QED
                BY <4>1, <4>2
        <3>2. u[i] = v[j]
            <4>1. CASE i <= n
                <5>1. i \in 1..n /\ j <= Len(s)
                    BY <1>1, <3>1, <4>1
                <5>2. u[i] = a[i]
                    BY <2>2, <4>1
                <5>3. a[i] = s[j]
                    BY <2>1, <3>1, <5>1, Zenon
                <5>4. v[j] = s[j]
                    BY <2>3, <5>1
                <5>5. QED
                    BY <5>2, <5>3, <5>4
            <4>2. CASE ~ (i <= n)
                <5>1. ~ (j <= Len(s)) /\ i - n = j - Len(s)
                    <6>1. i \in Nat /\ j \in Nat /\ j = Len(s) - n + i
                        BY <1>1, <3>1
                    <6>2. QED
                        BY <1>1, <4>2, <6>1
                <5>2. u[i] = t[i - n] /\ v[j] = t[j - Len(s)]
                    BY <2>2, <2>3, <4>2, <5>1
                <5>3. QED
                    BY <5>1, <5>2
            <4>3. QED
                BY <4>1, <4>2
        <3>3. QED
            BY <2>4, <2>5, <3>1, <3>2
    <2>7. LastOf(n, u) = LastOf(n, v)
        BY <2>4, <2>5, <2>6, SeqEqual
    <2>8. QED
        BY <2>7 DEF a, u, v
<1>4. QED
    BY <1>2, <1>3

(* Appending moves the window by one element, once it is full. *)
LEMMA LastOfAppend ==
    ASSUME NEW S, NEW s \in Seq(S), NEW e \in S, NEW n \in Nat \ {0}
    PROVE  IF Len(LastOf(n, s)) < n
           THEN LastOf(n, Append(s, e)) = Append(LastOf(n, s), e)
           ELSE LastOf(n, Append(s, e)) = Append(Tail(LastOf(n, s)), e)
<1> DEFINE t == Append(s, e)
<1>1. Len(s) \in Nat /\ \A k \in 1..Len(s) : s[k] \in S
    BY LenProperties, ElementOfSeq
<1>2. /\ t \in Seq(S) /\ Len(t) = Len(s) + 1
      /\ \A k \in 1..Len(s) : t[k] = s[k]
      /\ t[Len(s) + 1] = e
    BY AppendProperties
<1> HIDE DEF t
<1>3. CASE Len(s) < n
    <2>1. LastOf(n, s) = s /\ LastOf(n, t) = t
        BY <1>1, <1>2, <1>3 DEF LastOf
    <2>2. QED
        BY <1>3, <2>1 DEF t
<1>4. CASE ~ (Len(s) < n)
    <2> DEFINE a == LastOf(n, s)
               b == LastOf(n, t)
    <2>1. a \in Seq(S) /\ b \in Seq(S)
        BY <1>2, LastOfIsSeq
    <2>2. Len(a) = n /\ \A k \in 1..n : a[k] = s[Len(s) - n + k]
        BY <1>4, LastOfElements
    <2>3. Len(b) = n /\ \A k \in 1..n : b[k] = t[Len(s) + 1 - n + k]
        <3>1. ~ (Len(t) < n)
            BY <1>1, <1>2, <1>4
        <3>2. Len(b) = n /\ \A k \in 1..n : b[k] = t[Len(t) - n + k]
            BY <1>2, <3>1, LastOfElements
        <3>3. QED
            BY <1>2, <3>2
    <2> HIDE DEF a, b
    <2> DEFINE c == Append(Tail(a), e)
    <2>4. /\ c \in Seq(S) /\ Len(c) = n
          /\ \A k \in 1..(n - 1) : c[k] = a[k + 1]
          /\ c[n] = e
        <3>1. a # << >>
            BY <2>2, EmptySeq
        <3>2. QED
            BY <2>1, <2>2, <3>1, ShiftedSequence
    <2> HIDE DEF c
    <2>5. \A k \in 1..n : b[k] = c[k]
        <3> SUFFICES ASSUME NEW k \in 1..n
                     PROVE  b[k] = c[k]
            OBVIOUS
        <3>1. CASE k = n
            <4>1. Len(s) + 1 - n + k = Len(s) + 1
                BY <1>1, <3>1
            <4>2. QED
                BY <1>2, <2>3, <2>4, <3>1, <4>1
        <3>2. CASE k # n
            <4>1. /\ k \in 1..(n - 1) /\ k + 1 \in 1..n
                  /\ Len(s) + 1 - n + k \in 1..Len(s)
                  /\ Len(s) - n + (k + 1) = Len(s) + 1 - n + k
                BY <1>1, <1>4, <3>2
            <4>2. b[k] = s[Len(s) + 1 - n + k]
                BY <1>2, <2>3, <4>1
            <4>3. c[k] = s[Len(s) - n + (k + 1)]
                BY <2>2, <2>4, <4>1
            <4>4. QED
                BY <4>1, <4>2, <4>3
        <3>3. QED
            BY <3>1, <3>2
    <2>6. b = c
        BY <2>1, <2>3, <2>4, <2>5, SeqEqual
    <2>7. LastOf(n, Append(s, e)) = Append(Tail(LastOf(n, s)), e)
        BY <2>6 DEF a, b, c, t
    <2>8. ~ (Len(LastOf(n, s)) < n)
        BY <2>2 DEF a
    <2>9. QED
        BY <2>7, <2>8
<1>5. QED
    BY <1>3, <1>4

----------------------------------------------------------------------------
(* The watchers.                                                           *)

(* A watcher that has begun with an event holds it until it is buffered.   *)
HoldsItsEvent == \A w \in Watchers : pc[w] # "idle" => current[w] \in Events

PipelineInv == TypeOK /\ BufferInv /\ HoldsItsEvent /\ BufferIsHistory

LEMMA BreadcrumbsAreHistory ==
    ASSUME BufferInv, BufferIsHistory, NEW e \in Events, NEW made \in Enhanced(e)
    PROVE  /\ Breadcrumbs(e, made) =
                LastOf(BreadcrumbLimit,
                       EventsAbout(Self[e], LastOf(Size, added)) \o made)
           /\ Breadcrumbs(e, made) \in Seq(Events \cup Objects)
<1> DEFINE S == Events \cup Objects
           found == EventsAbout(Self[e], Contents)
<1>1. FilterEventsFromBuffer(Self[e]) = found
    BY ReadsWindow
<1>2. Contents = LastOf(Size, added)
    BY DEF BufferIsHistory
<1>3. found \in Seq(S)
    <2>1. Contents \in Seq(Events \cup {Nil})
        BY ContentsAreEvents, SeqMonotonic
    <2>2. found \in Seq(Events)
        BY <2>1, EventsAboutAreEvents
    <2> HIDE DEF found
    <2>3. QED
        BY <2>2, SeqMonotonic
<1>4. made \in Seq(S)
    <2>1. << >> \in Seq(S) /\ Lineage[e] \in Seq(Objects)
        BY PipelineAssumption, EmptySeq
    <2>2. Lineage[e] \in Seq(S)
        BY <2>1, SeqMonotonic
    <2>3. QED
        BY <2>1, <2>2 DEF Enhanced
<1> HIDE DEF S, found
<1>5. /\ LastOf(BreadcrumbLimit, found) \o made \in Seq(S)
      /\ BreadcrumbLimit \in Nat
    BY <1>3, <1>4, LastOfIsSeq, ConcatProperties, PipelineAssumption
<1>6. Breadcrumbs(e, made) =
          LastOf(BreadcrumbLimit, LastOf(BreadcrumbLimit, found) \o made)
    BY <1>1 DEF Breadcrumbs, EventBreadcrumbs
<1>7. Breadcrumbs(e, made) = LastOf(BreadcrumbLimit, found \o made)
    BY <1>3, <1>4, <1>5, <1>6, LastOfTwice
<1>8. Breadcrumbs(e, made) \in Seq(S)
    BY <1>5, <1>6, LastOfIsSeq
<1>9. QED
    BY <1>2, <1>7, <1>8 DEF S, found

LEMMA PipelineInit == Init => PipelineInv
<1> SUFFICES ASSUME Init
             PROVE  PipelineInv
    OBVIOUS
<1>1. BufferInv
    BY SizeAssumption DEF Init, InitBuffer, BufferInv, BufferTypeOK, FilledInOrder
<1>2. added = << >> /\ Len(<< >>) = 0 /\ << >> \in Seq(Events)
    BY EmptySeq DEF Init
<1>3. TypeOK
    BY <1>1, <1>2 DEF Init, TypeOK, BufferInv
<1>4. HoldsItsEvent
    BY DEF Init, HoldsItsEvent
<1>5. BufferIsHistory
    <2>1. slots[pos] = Nil /\ pos = 0
        BY SizeAssumption DEF Init, InitBuffer
    <2>2. Contents = << >>
        BY <2>1 DEF Contents
    <2>3. LastOf(Size, added) = << >>
        BY <1>2, SizeAssumption DEF LastOf
    <2>4. QED
        BY <2>2, <2>3 DEF BufferIsHistory
<1>6. QED
    BY <1>1, <1>3, <1>4, <1>5 DEF PipelineInv

(* The ring and the history grow by the same event. *)
LEMMA HistoryStep ==
    ASSUME PipelineInv, NEW e \in Events, AddEventToBuffer(e),
           added' = Append(added, e)
    PROVE  BufferInv' /\ BufferIsHistory' /\ added' \in Seq(Events)
<1>1. BufferInv'
    BY BufferInvStep DEF PipelineInv
<1>2. added \in Seq(Events) /\ BufferInv /\ Contents = LastOf(Size, added)
    BY DEF PipelineInv, TypeOK, BufferIsHistory
<1>3. LastOf(Size, added') = IF Len(Contents) < Size THEN Append(Contents, e)
                             ELSE Append(Tail(Contents), e)
    <2>1. IF Len(LastOf(Size, added)) < Size
          THEN LastOf(Size, Append(added, e)) = Append(LastOf(Size, added), e)
          ELSE LastOf(Size, Append(added, e)) = Append(Tail(LastOf(Size, added)), e)
        BY <1>2, LastOfAppend, SizeAssumption
    <2>2. QED
        BY <1>2, <2>1
<1>4. Contents' = LastOf(Size, added')
    <2>1. CASE slots[pos] = Nil
        BY <1>2, <1>3, <2>1, AddToPartial
    <2>2. CASE slots[pos] # Nil
        <3>1. Len(Contents) = Size /\ ~ (Size < Size)
            BY <1>2, <2>2, AddToFull, SizeAssumption
        <3>2. QED
            BY <1>2, <1>3, <2>2, <3>1, AddToFull
    <2>3. QED
        BY <2>1, <2>2
<1>5. added' \in Seq(Events)
    BY <1>2, AppendProperties
<1>6. QED
    BY <1>1, <1>4, <1>5 DEF BufferIsHistory

LEMMA PipelineStep == PipelineInv /\ [Next]_vars => PipelineInv'
<1> SUFFICES ASSUME PipelineInv, [Next]_vars
             PROVE  PipelineInv'
    OBVIOUS
<1>1. /\ pc \in [Watchers -> {"idle", "report", "deferred"}]
      /\ current \in [Watchers -> Events \cup {Nil}]
      /\ \A r \in reports : /\ r.event \in Events
                         /\ r.crumbs \in Seq(Events \cup Objects)
      /\ added \in Seq(Events) /\ BufferTypeOK
      /\ BufferInv /\ HoldsItsEvent /\ BufferIsHistory
    BY DEF PipelineInv, TypeOK
<1>2. ASSUME UNCHANGED <<buffer, added>>
      PROVE  /\ BufferInv' /\ BufferIsHistory' /\ BufferTypeOK'
             /\ added' \in Seq(Events)
    BY <1>1, <1>2 DEF BufferInv, BufferTypeOK, FilledInOrder, BufferIsHistory,
                      Contents, buffer
<1>3. ASSUME NEW w \in Watchers, NEW e \in Events, HandleWatchEvent(w, e)
      PROVE  PipelineInv'
    <2>1. /\ pc' \in [Watchers -> {"idle", "report", "deferred"}]
          /\ current' \in [Watchers -> Events \cup {Nil}]
          /\ UNCHANGED reports
        BY <1>1, <1>3 DEF HandleWatchEvent
    <2>2. HoldsItsEvent'
        BY <1>1, <1>3 DEF HandleWatchEvent, HoldsItsEvent
    <2>3. UNCHANGED <<buffer, added>>
        BY <1>3 DEF HandleWatchEvent
    <2>4. QED
        BY <1>1, <1>2, <2>1, <2>2, <2>3 DEF PipelineInv, TypeOK
<1>4. ASSUME NEW w \in Watchers, CaptureEvent(w)
      PROVE  PipelineInv'
    <2>1. current[w] \in Events
        BY <1>1, <1>4 DEF CaptureEvent, HoldsItsEvent
    <2>2. PICK made \in Enhanced(current[w]) :
              reports' = reports \cup
                {[event |-> current[w], crumbs |-> Breadcrumbs(current[w], made)]}
        BY <1>4 DEF CaptureEvent
    <2>3. \A r \in reports' : /\ r.event \in Events
                              /\ r.crumbs \in Seq(Events \cup Objects)
        <3>1. Breadcrumbs(current[w], made) \in Seq(Events \cup Objects)
            BY <1>1, <2>1, BreadcrumbsAreHistory
        <3>2. QED
            BY <1>1, <2>1, <2>2, <3>1
    <2>4. /\ pc' \in [Watchers -> {"idle", "report", "deferred"}]
          /\ UNCHANGED <<buffer, current, added>>
        BY <1>1, <1>4 DEF CaptureEvent
    <2>5. HoldsItsEvent'
        BY <1>1, <1>4 DEF CaptureEvent, HoldsItsEvent
    <2>6. QED
        BY <1>1, <1>2, <2>3, <2>4, <2>5 DEF PipelineInv, TypeOK
<1>5. ASSUME NEW w \in Watchers, RunDeferred(w)
      PROVE  PipelineInv'
    <2>1. current[w] \in Events
        BY <1>1, <1>5 DEF RunDeferred, HoldsItsEvent
    <2>2. /\ BufferInv' /\ BufferIsHistory' /\ BufferTypeOK'
          /\ added' \in Seq(Events)
        BY <1>5, <2>1, HistoryStep DEF RunDeferred, BufferInv
    <2>3. /\ pc' \in [Watchers -> {"idle", "report", "deferred"}]
          /\ current' \in [Watchers -> Events \cup {Nil}]
          /\ UNCHANGED reports
        BY <1>1, <1>5 DEF RunDeferred
    <2>4. HoldsItsEvent'
        BY <1>1, <1>5 DEF RunDeferred, HoldsItsEvent
    <2>5. QED
        BY <1>1, <2>2, <2>3, <2>4 DEF PipelineInv, TypeOK
<1>6. CASE UNCHANGED vars
    <2>1. UNCHANGED <<buffer, added>> /\ UNCHANGED <<pc, current, reports>>
        BY <1>6 DEF vars
    <2>2. QED
        BY <1>1, <1>2, <2>1 DEF PipelineInv, TypeOK, HoldsItsEvent
<1>7. QED
    BY <1>3, <1>4, <1>5, <1>6 DEF Next

LEMMA PipelineCorrect == Spec => []PipelineInv
<1>1. QED
    BY PipelineInit, PipelineStep, PTL DEF Spec

(* Each variable of the pipeline has its type: what is reported is an      *)
(* event, its breadcrumbs are made of events and objects, and no reader    *)
(* meets an element never set.                                             *)
THEOREM PipelineTypeCorrect == Spec => []TypeOK
<1>1. PipelineInv => TypeOK
    BY DEF PipelineInv
<1>2. QED
    BY <1>1, PipelineCorrect, PTL

(* At every moment, with any number of handlers in between, the shared     *)
(* ring holds the last Size events that all watchers together buffered.    *)
THEOREM RingIsHistory == Spec => []BufferIsHistory
<1>1. PipelineInv => BufferIsHistory
    BY DEF PipelineInv
<1>2. QED
    BY <1>1, PipelineCorrect, PTL

(* Whatever the watchers have buffered, and whether the ring has wrapped   *)
(* around or not, filterEventsFromBuffer returns the events of the window  *)
(* about an object, oldest first, and nothing for elements never set.      *)
THEOREM FilterIsCorrect == Spec => []FilterReadsWindow
<1>1. PipelineInv => FilterReadsWindow
    BY ReadsWindow DEF PipelineInv, FilterReadsWindow
<1>2. QED
    BY <1>1, PipelineCorrect, PTL

(* The breadcrumbs of a report are the last ones, within the limit, of the *)
(* events about the Event among the last Size that all watchers together   *)
(* buffered before it, in their order, followed by the creation of the     *)
(* involved object and its root owners, if those were found.               *)
THEOREM BreadcrumbsAreRecent == Spec => CrumbsAreRecentHistory
<1> DEFINE RecentCrumbs(r) ==
               \E made \in Enhanced(r.event) :
                   r.crumbs = LastOf(BreadcrumbLimit,
                       EventsAbout(Self[r.event], LastOf(Size, added)) \o made)
           Recent == \A r \in reports' \ reports : RecentCrumbs(r)
<1>1. PipelineInv /\ [Next]_vars => [Recent]_vars
    <2> SUFFICES ASSUME PipelineInv, Next
                 PROVE  Recent
        OBVIOUS
    <2>1. ASSUME NEW w \in Watchers, CaptureEvent(w)
          PROVE  Recent
        <3>1. current[w] \in Events
            BY <2>1 DEF PipelineInv, CaptureEvent, HoldsItsEvent
        <3>2. PICK made \in Enhanced(current[w]) :
                  reports' = reports \cup
                    {[event |-> current[w], crumbs |-> Breadcrumbs(current[w], made)]}
            BY <2>1 DEF CaptureEvent
        <3>3. Breadcrumbs(current[w], made) =
                LastOf(BreadcrumbLimit,
                       EventsAbout(Self[current[w]], LastOf(Size, added)) \o made)
            BY <3>1, BreadcrumbsAreHistory DEF PipelineInv
        <3>4. \A r \in reports' \ reports :
                /\ r.event = current[w]
                /\ r.crumbs = LastOf(BreadcrumbLimit,
                       EventsAbout(Self[current[w]], LastOf(Size, added)) \o made)
            BY <3>2, <3>3
        <3>5. QED
            BY <3>4
    <2>2. ASSUME UNCHANGED reports
          PROVE  Recent
        BY <2>2
    <2> HIDE DEF Recent
    <2>3. QED
        BY <2>1, <2>2 DEF Next, HandleWatchEvent, RunDeferred
<1>2. QED
    BY <1>1, PipelineCorrect, PTL DEF Spec, CrumbsAreRecentHistory

(* Seen from the buffer, the watchers only add events, one at a time: the  *)
(* lock makes the ring they share implement the window of RecentEvents.    *)
THEOREM PipelineRefinement == Spec => ImplementsWindow
<1>1. Init => InitBuffer
    BY DEF Init
<1>2. PipelineInv /\ [Next]_vars => [NextBuffer]_buffer
    <2> SUFFICES ASSUME PipelineInv, [Next]_vars
                 PROVE  [NextBuffer]_buffer
        OBVIOUS
    <2>1. ASSUME NEW w \in Watchers, RunDeferred(w)
          PROVE  NextBuffer
        BY <2>1 DEF PipelineInv, RunDeferred, HoldsItsEvent, NextBuffer
    <2>2. QED
        BY <2>1 DEF Next, HandleWatchEvent, CaptureEvent, vars
<1>3. Spec => BufferSpec
    BY <1>1, <1>2, PipelineCorrect, PTL DEF Spec, BufferSpec
<1>4. QED
    BY <1>3, BufferRefinement, PTL
=============================================================================
