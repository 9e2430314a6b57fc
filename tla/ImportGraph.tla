---------------------------- MODULE ImportGraph -----------------------------
(***************************************************************************)
(* What it means for the import graph of the generated packages to be       *)
(* usable, and what internal/codegen/pipeline/cycles.go promises about the  *)
(* imports it severs. A graph is a set E of edges over a finite set Nodes.  *)
(***************************************************************************)

\* A finite graph has no cycle exactly when every nonempty set of nodes has one
\* without a successor in the set.
Acyclic(Nodes, E) ==
  \A S \in (SUBSET Nodes) \ {{}} : \E n \in S : \A m \in S : <<n, m>> \notin E

\* m can be reached from n along E: it is in every closed set n is in.
Reaches(Nodes, E, n, m) ==
  \A S \in SUBSET Nodes :
    n \in S /\ (\A e \in E : e[1] \in S => e[2] \in S) => m \in S

\* Severing B makes E acyclic, and every severed edge was on a cycle.
Breaks(Nodes, E, B) ==
  /\ B \subseteq E
  /\ Acyclic(Nodes, E \ B)
  /\ \A e \in B : Reaches(Nodes, E, e[2], e[1])
=============================================================================
