------------------------------- MODULE MCDsn -------------------------------
(* Two Pods of a ReplicaSet owned by a Deployment with a custom DSN, one   *)
(* of which has an empty DSN of its own; a Pod with a malformed DSN; and   *)
(* an object of a kind that findObject does not know.                      *)
EXTENDS DsnClients, TLC

CONSTANTS pod, mutePod, rs, dep, badPod, custom, dsn1, bad

TheOwner == [o \in Objects |->
    CASE o \in {pod, mutePod} -> rs [] o = rs -> dep [] OTHER -> NoOwner]

TheAnnotation == [o \in Objects |->
    CASE o = dep -> dsn1 [] o = mutePod -> EmptyDsn [] o = badPod -> bad
      [] OTHER -> NoAnnotation]
=============================================================================
