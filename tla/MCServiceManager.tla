-------------------------- MODULE MCServiceManager --------------------------
(* Instances of ServiceManager for TLC: a service, its dependent, and the  *)
(* table entries that load_services() can produce for them.                *)
EXTENDS ServiceManager, TLC

CONSTANTS net, app

D(after, policy, type, enabled) ==
  [after |-> after, policy |-> policy, type |-> type, enabled |-> enabled]

Table(n, a) == (net :> n) @@ (app :> a)

\* A daemon with a dependent of each policy; one table with a cycle and one
\* whose dependency is not installed.
PairDefinitions ==
  { Table(D(NoService, p, "simple", TRUE), D(net, "always", "simple", TRUE)) :
      p \in {"always", "on-failure"} }
  \cup { Table(D(app, "always", "simple", TRUE), D(net, "always", "simple", TRUE)),
         Table(D(NoService, "always", "simple", FALSE), D(Missing, "always", "simple", TRUE)) }

Symmetry == Permutations(Pids)
=============================================================================
