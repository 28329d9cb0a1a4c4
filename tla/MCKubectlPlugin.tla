--------------------------- MODULE MCKubectlPlugin ---------------------------
(* Commands for two data sources on one host.                              *)
EXTENDS KubectlPlugin, TLC
CONSTANTS p1, p2, p3

Command(c, path, u, n) ==
  [command |-> c, target |-> [host |-> "grafana", path |-> path, uid |-> u, name |-> n]]

(* Two commands with one cache file, for Grafanas under two paths, and one *)
(* with another; two that merge a kubeconfig; one of each, where the       *)
(* kubeconfig has an entry of that name already.                           *)
MCJobs ==
  {(p1 :> Command("credentials", "/", "one", "n")) @@ (p2 :> Command("credentials", "/", "two", "n"))
     @@ (p3 :> Command("credentials", "/sub", "one", "n")),
   (p1 :> Command("kubeconfig", "/", "one", "n")) @@ (p2 :> Command("kubeconfig", "/", "two", "m")),
   (p1 :> Command("kubeconfig", "/", "one", "old")) @@ (p2 :> Command("credentials", "/", "one", "n"))}
=============================================================================
