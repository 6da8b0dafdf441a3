------------------------------ MODULE MCEvents ------------------------------
(* Two watchers and five events.  w1's namespace has three events about    *)
(* the pod p: an error, a Normal one and one with a filtered reason; w2's  *)
(* has two errors, the second one about the Event object of the first.     *)
(* The Pod p has an owner r, the Job q has none, and nothing is known of   *)
(* an Event as an involved object.                                         *)
EXTENDS EventPipeline, TLC

CONSTANTS e1, e2, e3, e4, e5, p, q, r, o1, o2, o3, o4, o5, w1, w2

TheAbout == (e1 :> p) @@ (e2 :> p) @@ (e3 :> p) @@ (e4 :> q) @@ (e5 :> o4)
TheSelf  == (e1 :> o1) @@ (e2 :> o2) @@ (e3 :> o3) @@ (e4 :> o4) @@ (e5 :> o5)
TheLineage ==
    [e \in Events |-> CASE TheAbout[e] = p -> <<p, r>>
                       [] TheAbout[e] = q -> <<q>>
                       [] OTHER -> << >>]
TheWatch == (w1 :> {e1, e2, e3}) @@ (w2 :> {e4, e5})

(* The loop collects what the standard module selects, on every sequence   *)
(* of at most four elements, set or not.                                   *)
ASSUME LoopSelects ==
    \A s \in UNION {[1..n -> Events \cup {Nil}] : n \in 0..4}, o \in Objects :
        EventsAbout(o, s) = SelectSeq(s, LAMBDA e : e # Nil /\ About[e] = o)

(* Adding breadcrumbs one by one, each time dropping the oldest if there   *)
(* is one too many, leaves the last ones of all.                           *)
ASSUME AddingKeepsTheLast ==
    \A s \in UNION {[1..n -> Objects] : n \in 0..4}, limit \in 1..3 :
        LastOf(limit, s) =
            FoldLeft(LAMBDA crumbs, c :
                        IF Len(crumbs) < limit THEN Append(crumbs, c)
                        ELSE Append(Tail(crumbs), c),
                     << >>, s)
=============================================================================
