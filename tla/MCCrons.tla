------------------------------ MODULE MCCrons ------------------------------
(* Instances of CronsCheckins for TLC.  One namespace is one informer; in  *)
(* two namespaces a CronJob and its Job may have the same names.           *)
EXTENDS CronsCheckins, TLC

CONSTANTS c1, c2, j1, j2, i1, i2, n1, n2, m1, m2

(* One CronJob, in one namespace. *)
OneCronName == (c1 :> n1)
TwoJobNames == (j1 :> m1) @@ (j2 :> m2)
OneWatch    == (i1 :> {c1, j1, j2})

(* A namespace that is listed twice: two informers, one CronJob, one Job.  *)
SoleJobName == (j1 :> m1)
SoleOwner   == (j1 :> c1)
DoubleWatch == (i1 :> {c1, j1}) @@ (i2 :> {c1, j1})

(* One CronJob with one Job, and a Job that no CronJob owns. *)
LoneOwner   == (j1 :> c1) @@ (j2 :> NoOwner)

(* Two namespaces that each run a CronJob of the same name; the Jobs it    *)
(* creates are named after it and the scheduled time.                      *)
TwinCronName == (c1 :> n1) @@ (c2 :> n1)
TwinJobNames == (j1 :> m1) @@ (j2 :> m1)
TwinOwner    == (j1 :> c1) @@ (j2 :> c2)
TwinWatch    == (i1 :> {c1, j1}) @@ (i2 :> {c2, j2})

(* SENTRY_K8S_WATCH_NAMESPACES=__all__: one informer for both namespaces. *)
AllWatch == (i1 :> {c1, c2, j1, j2})

(* The two informers of one namespace are alike. *)
DoubleSymmetry == {i1 :> i2 @@ i2 :> i1}

----------------------------------------------------------------------------
(* What the Job controller does to the status of a Job with one pod.       *)
S(a, s, f, conds) ==
    [active |-> a, succeeded |-> s, failed |-> f, conditions |-> conds]

New       == S(0, 0, 0, << >>)
Running   == S(1, 0, 0, << >>)
BackOff   == S(0, 0, 1, << >>)
Completed == S(0, 1, 0, <<"Complete">>)
Broken    == S(0, 0, 1, <<"Failed">>)

(* The pod succeeds or fails. *)
PlainLifecycle ==
    {<<New, Running>>, <<Running, Completed>>, <<Running, Broken>>}

(* .spec.suspend is set and cleared: the condition stays, with status False. *)
SuspendLifecycle == PlainLifecycle \cup
    {<<Running, S(0, 0, 0, <<"Suspended">>)>>,
     <<S(0, 0, 0, <<"Suspended">>), S(1, 0, 0, <<"Suspended">>)>>,
     <<S(1, 0, 0, <<"Suspended">>), S(0, 1, 0, <<"Suspended", "Complete">>)>>,
     <<S(1, 0, 0, <<"Suspended">>), S(0, 0, 1, <<"Suspended", "Failed">>)>>}

(* A failed pod is retried at once: no pod is active in between. *)
BriefLifecycle ==
    {<<New, BackOff>>, <<BackOff, S(0, 1, 1, <<"Complete">>)>>}

(* The shortest one, for the instances with two informers. *)
ShortLifecycle == {<<New, Completed>>}

AllConditions == {"Complete", "Failed", "Suspended"}
=============================================================================
