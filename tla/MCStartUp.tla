----------------------------- MODULE MCStartUp -----------------------------
(* Environments to start in.  A Pod in the namespace a and one in c, each   *)
(* owned by a Job, of the same name; nothing in b.                          *)
EXTENDS StartUp

CONSTANTS p1, p2

Spaced(word) == [Plain(word) EXCEPT !.spaces = TRUE]
Upper(word)  == [Plain(word) EXCEPT !.upper = TRUE]

NoNamespace == Plain("")

TheNamespaces == {Plain("a"), Plain("b"), Plain("c")}

JobIn(ns)  == [kind |-> "Job", namespace |-> Plain(ns), name |-> "j"]
TheObjects == {JobIn("a"), JobIn("c")}
TheOwners  == (p1 :> JobIn("a")) @@ (p2 :> JobIn("c"))

TheReaders == {"events", "pods"} \X Calls

Answer(fields) == fields @@ [status |-> "ok"]
NoAnswer(why)  == [status |-> why]

Instance == Answer([x \in {"cluster-name", "clusterName", "cluster-location",
                           "clusterLocation"} |-> Plain(x)])
Project  == Answer([x \in {"project-id", "projectId"} |-> Plain(x)])

Tag(key, value) == [key |-> key, value |-> value]

(* In a cluster of GKE, two namespaces, and tags that override each other. *)
Usual ==
    [dsn |-> "valid", configType |-> Blank, inCluster |-> TRUE,
     kubeconfigPath |-> FALSE, home |-> FALSE, kubeconfigValid |-> FALSE,
     clients |-> TRUE, version |-> TRUE, hostname |-> Plain("host"),
     tags |-> << Tag("team", Spaced("x")), Tag("team", Plain("y")),
                 Tag("team", Spaced("")), Tag("gke_cluster_name", Plain("z")),
                 Tag("agent_hostname", Upper("x")), Tag("", Plain("x")) >>,
     gke |-> Spaced("true"), instance |-> Instance, project |-> Project,
     namespaces |-> << Plain("a"), Spaced("b") >>,
     reasons |-> << Blank >>, sources |-> << Blank >>]

(* Started with little to do after it. *)
Small == [Usual EXCEPT !.namespaces = << Blank >>]

Running ==
    { Usual,
      [Usual EXCEPT !.namespaces = << Plain("__all__") >>],
      [Small EXCEPT !.namespaces = << Spaced("b"), Blank, Plain("b") >>,
                    !.gke = Blank],
      [Small EXCEPT !.instance["cluster-name"] = Blank,
                    !.project = Answer([x \in {"project-id", "projectId"} |-> Blank])],
      [Small EXCEPT !.clients = FALSE, !.gke = Upper("yes")],
      [Small EXCEPT !.version = FALSE, !.hostname = Blank, !.dsn = "none"],
      [Small EXCEPT !.reasons = << Spaced("a"), Upper("b") >>,
                    !.sources = << Blank, Upper("a") >>],
      [Small EXCEPT !.inCluster = FALSE, !.home = TRUE, !.kubeconfigValid = TRUE],
      [Small EXCEPT !.configType = Upper("out-cluster"),
                    !.kubeconfigPath = TRUE, !.kubeconfigValid = TRUE] }

Failing ==
    { [Small EXCEPT !.dsn = "invalid"],
      [Small EXCEPT !.configType = Plain("sideways")],
      [Small EXCEPT !.configType = Spaced("in-cluster"), !.inCluster = FALSE,
                    !.home = TRUE, !.kubeconfigValid = TRUE],
      [Small EXCEPT !.configType = Upper("out-cluster"), !.kubeconfigValid = TRUE],
      [Small EXCEPT !.inCluster = FALSE, !.kubeconfigPath = TRUE],
      [Small EXCEPT !.instance = NoAnswer("unreachable")],
      [Small EXCEPT !.project = NoAnswer("malformed")],
      [Small EXCEPT !.project = NoAnswer("silent")],
      [Small EXCEPT !.namespaces = << Blank, Spaced("") >>],
      [Small EXCEPT !.namespaces = << Plain("a"), Plain("__all__") >>] }

AllEnvironments == Running \cup Failing

Labels == {"a", "b", "default"}
=============================================================================
