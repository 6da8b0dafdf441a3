---------------------------- MODULE MCEnhancers ----------------------------
(* A Pod of a ReplicaSet of a Deployment, and a Pod of a ReplicaSet of the *)
(* same name in another namespace; the Pod of a Job of a CronJob; a Pod    *)
(* with both the first ReplicaSet and the Job as owners; and a Pod owned   *)
(* by a custom resource, which in the second instance owns the CronJob.    *)
EXTENDS Enhancers, TLC

CONSTANTS pod, rs, dep, pod2, rs2, jobPod, job, cron, both,
          opPod, custom, probe1, probe2, crash, probe

PlainOwners == [o \in Objects |->
    CASE o = pod -> <<rs>> [] o = rs -> <<dep>> [] o = pod2 -> <<rs2>>
      [] o = jobPod -> <<job>> [] o = job -> <<cron>> [] o = both -> <<rs, job>>
      [] o = opPod -> <<custom>>
      [] OTHER -> << >>]

OperatorOwners == [PlainOwners EXCEPT ![cron] = <<custom>>]

TheLabel == [o \in Objects |-> IF o = rs2 THEN rs ELSE o]

ThePattern == [m \in Messages |-> IF m = crash THEN NoPattern ELSE probe]
=============================================================================
