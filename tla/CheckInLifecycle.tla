-------------------------- MODULE CheckInLifecycle --------------------------
(***************************************************************************)
(* What the Crons integration promises to Sentry, without informers,       *)
(* handlers or caches: a check-in is opened once under a fresh ID, for one *)
(* run of one monitor; it is closed only under the ID, the monitor and the *)
(* run it was opened for; and it never gets two verdicts.  Closing again   *)
(* with the same verdict is allowed: the agent repeats the closing         *)
(* check-in whenever a finished job is updated or deleted.                 *)
(***************************************************************************)
CONSTANTS
    Ids,       \* check-in IDs
    Slugs,     \* monitor slugs
    Runs,      \* names of the jobs a monitor runs
    Verdicts   \* how a run may end

VARIABLES
    opened,    \* the check-ins opened so far
    closed     \* the verdicts sent so far

Opening == [id : Ids, slug : Slugs, run : Runs]
Closing == [id : Ids, slug : Slugs, run : Runs, verdict : Verdicts]

Init == opened = {} /\ closed = {}

(* A run starts: the ID has not been used before. *)
Open(o) ==
    /\ \A p \in opened : p.id # o.id
    /\ opened' = opened \cup {o}
    /\ UNCHANGED closed

(* A run ends: it was opened as such, and no other verdict was sent. *)
Close(c) ==
    /\ [id |-> c.id, slug |-> c.slug, run |-> c.run] \in opened
    /\ \A d \in closed : d.id = c.id => d.verdict = c.verdict
    /\ closed' = closed \cup {c}
    /\ UNCHANGED opened

Next ==
    \/ \E o \in Opening : Open(o)
    \/ \E c \in Closing : Close(c)

vars == <<opened, closed>>

Spec == Init /\ [][Next]_vars
=============================================================================
