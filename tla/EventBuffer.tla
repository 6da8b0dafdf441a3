---------------------------- MODULE EventBuffer ----------------------------
(***************************************************************************)
(* The buffer of Kubernetes events (event_buffer.go): a container/ring that *)
(* all event watchers share.  addEventToBuffer holds the write lock and    *)
(* filterEventsFromBuffer the read lock from beginning to end, so each is  *)
(* one step.  The ring stores and returns deep copies.                     *)
(***************************************************************************)
EXTENDS Integers, Sequences

CONSTANTS
    Size,     \* bufferSize
    Events,   \* the events
    Objects,  \* namespace, kind and name of an object
    About,    \* the object an event is about
    Nil       \* the Value of a ring element that was never set

ASSUME SizeAssumption == Size \in Nat \ {0}
ASSUME EventsAssumption == Nil \notin Events /\ About \in [Events -> Objects]

VARIABLES
    slots,  \* the Value of each ring element
    pos     \* the element the variable eventBuffer points to

buffer == <<slots, pos>>

InitBuffer ==
    /\ slots = [p \in 0..(Size - 1) |-> Nil]
    /\ pos = 0

(* Mutant: wraps around one element too late. *)
RingNextLate(p) == IF p = Size THEN 0 ELSE p + 1

(* ring.Next *)
RingNext(p) == IF p = Size - 1 THEN 0 ELSE p + 1

(* Mutant: the pointer is moved first. *)
AddEventAfterMove(e) ==
    /\ slots' = [slots EXCEPT ![RingNext(pos)] = e]
    /\ pos' = RingNext(pos)

AddEventToBuffer(e) ==
    /\ slots' = [slots EXCEPT ![pos] = e]
    /\ pos' = RingNext(pos)

(* Mutant: read from element 0. *)
RingFromZero == [k \in 1..Size |-> slots[k - 1]]

(* ring.Do starts at the element pointed to, which is the oldest one.  The *)
(* type assertion fails for an element that was never set.                 *)
RingDo == [k \in 1..Size |-> slots[(pos + k - 1) % Size]]

(* The function passed to Do collects in res the events about an object,   *)
(* one element of s after the other.                                       *)
EventsAbout(o, s) ==
    LET res[n \in 0..Len(s)] ==
            IF n = 0 THEN << >>
            ELSE IF s[n] # Nil /\ About[s[n]] = o THEN Append(res[n - 1], s[n])
                 ELSE res[n - 1]
    IN  res[Len(s)]

FilterEventsFromBuffer(o) == EventsAbout(o, RingDo)

NextBuffer == \E e \in Events : AddEventToBuffer(e)

BufferSpec == InitBuffer /\ [][NextBuffer]_buffer

----------------------------------------------------------------------------
BufferTypeOK ==
    /\ slots \in [0..(Size - 1) -> Events \cup {Nil}]
    /\ pos \in 0..(Size - 1)

(* The ring fills from element 0, so the elements not yet set are the ones *)
(* from the pointer on, until there are none.                              *)
FilledInOrder ==
    \/ \A p \in 0..(Size - 1) : slots[p] # Nil
    \/ \A p \in 0..(Size - 1) : slots[p] # Nil <=> p < pos

BufferInv == BufferTypeOK /\ FilledInOrder

(* The contents, oldest first. *)
Contents ==
    IF slots[pos] = Nil
    THEN [k \in 1..pos |-> slots[k - 1]]
    ELSE [k \in 1..Size |-> IF pos + k - 1 < Size THEN slots[pos + k - 1]
                            ELSE slots[pos + k - 1 - Size]]

Window == INSTANCE RecentEvents WITH recent <- Contents

(* The ring holds the last events added, oldest first, before and after it *)
(* has wrapped around.                                                     *)
ImplementsWindow == Window!Spec

(* Reading the ring in its own order, over elements that may not be set,   *)
(* gives the wanted events of that window in the order they were added.    *)
FilterReadsWindow ==
    \A o \in Objects : FilterEventsFromBuffer(o) = EventsAbout(o, Contents)
=============================================================================
