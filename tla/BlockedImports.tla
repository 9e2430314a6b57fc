--------------------------- MODULE BlockedImports ---------------------------
(***************************************************************************)
(* Breaking import cycles: internal/codegen/pipeline/cycles.go.             *)
(*                                                                          *)
(* Windows metadata namespaces reference each other freely, Go packages may *)
(* not import each other in a cycle. ComputeBlockedImports repeats: find a  *)
(* cycle by depth-first search, sever its lightest edge, start over; a      *)
(* severed reference degrades to a raw type. Namespaces are numbered in the *)
(* order sort.Strings gives their names.                                    *)
(***************************************************************************)
EXTENDS Integers, Sequences, FiniteSets, ImportGraph

CONSTANTS
  N,            \* number of namespaces
  Counts        \* bound: what one namespace may make of another, as pairs: references
                \* in its declarations, and interfaces whose base the other declares

baseEmbedWeight == 1000

Namespaces == 1..N
Edge == {e \in Namespaces \X Namespaces : e[1] # e[2]}

ASSUME GraphAssumption == N \in Nat /\ Counts \subseteq Nat \X Nat

\* Edges out of n (targets of edges[n]) in an edge set.
Targets(E, n) == {m \in Namespaces : <<n, m>> \in E}

VARIABLES
  refs, embeds,     \* the metadata: references, interfaces that embed a base
  edges,            \* the keys of edges[src][dst] that are left
  blocked,          \* blocked[src][dst]
  phase,            \* "search" (findCycle), "sever" (lightestEdge), "done"
  color,            \* findCycle's state: "unvisited", "inStack", "done"
  stack,            \* findCycle's stack
  todo,             \* per namespace on the stack: targets still to be looked at
  cycle,            \* the cycle found, without the repetition of its first node
  rank              \* history: in which order the search finished the namespaces

graphVars == <<refs, embeds>>
searchVars == <<color, stack, todo, rank>>
vars == <<graphVars, edges, blocked, phase, searchVars, cycle>>

\* Mutant of Weight: one bonus, however many interfaces embed.
Weight_OncePerEdge(e) == refs[e] + (IF embeds[e] > 0 THEN baseEmbedWeight ELSE 0)

\* References counted by WalkNamespaceRefs, and the bonus of every interface that
\* embeds one of the other namespace.
Weight(e) == refs[e] + baseEmbedWeight * embeds[e]

\* findCycle's local state on entry.
AllUnvisited == [n \in Namespaces |-> "unvisited"]
NothingTodo  == [n \in Namespaces |-> {}]
Unranked     == [n \in Namespaces |-> 0]

Init ==
  /\ \E uses \in [Edge -> Counts] :
       refs = [e \in Edge |-> uses[e][1]] /\ embeds = [e \in Edge |-> uses[e][2]]
  /\ edges = {e \in Edge : Weight(e) > 0}
  /\ blocked = {} /\ cycle = << >>
  /\ phase = "search"
  /\ color = AllUnvisited /\ stack = << >> /\ todo = NothingTodo /\ rank = Unranked

Top == stack[Len(stack)]
Least(S) == CHOOSE n \in S : \A m \in S : n <= m

\* visit(n): on the stack, its targets to be looked at in sorted order. rest is
\* what its caller still has to look at.
Enter(n, rest) ==
  /\ color' = [color EXCEPT ![n] = "inStack"]
  /\ stack' = Append(stack, n)
  /\ todo'  = [rest EXCEPT ![n] = Targets(edges, n)]

Unvisited == {n \in Namespaces : color[n] = "unvisited"}

\* The outer loop of findCycle. A namespace without an edges[...] entry has no
\* targets: visiting it finds nothing, so that the loop skips it is immaterial.
VisitRoot ==
  /\ phase = "search" /\ stack = << >> /\ Unvisited # {}
  /\ Enter(Least(Unvisited), todo)
  /\ UNCHANGED <<graphVars, edges, blocked, phase, cycle, rank>>

\* The next target of the node on top of the stack: it is on the stack, it was
\* never visited, or it was finished before.
CloseCycle(t) ==
  /\ color[t] = "inStack"
  /\ \E i \in 1..Len(stack) : stack[i] = t /\ cycle' = SubSeq(stack, i, Len(stack))
  /\ phase' = "sever"
  /\ UNCHANGED searchVars

VisitTarget(t) ==
  /\ color[t] = "unvisited"
  /\ Enter(t, [todo EXCEPT ![Top] = @ \ {t}])
  /\ UNCHANGED <<phase, cycle, rank>>

\* Mutant of SkipTarget: a target on the stack is passed over too.
SkipTarget_InStack(t) ==
  /\ color[t] # "unvisited"
  /\ todo' = [todo EXCEPT ![Top] = @ \ {t}]
  /\ UNCHANGED <<phase, cycle, color, stack, rank>>

SkipTarget(t) ==
  /\ color[t] = "done"
  /\ todo' = [todo EXCEPT ![Top] = @ \ {t}]
  /\ UNCHANGED <<phase, cycle, color, stack, rank>>

LookAtTarget ==
  /\ phase = "search" /\ stack # << >> /\ todo[Top] # {}
  /\ LET t == Least(todo[Top]) IN CloseCycle(t) \/ VisitTarget(t) \/ SkipTarget(t)
  /\ UNCHANGED <<graphVars, edges, blocked>>

\* All targets looked at: pop.
Finish ==
  /\ phase = "search" /\ stack # << >> /\ todo[Top] = {}
  /\ color' = [color EXCEPT ![Top] = "done"]
  /\ rank'  = [rank EXCEPT ![Top] = Cardinality({n \in Namespaces : color[n] = "done"}) + 1]
  /\ stack' = SubSeq(stack, 1, Len(stack) - 1)
  /\ UNCHANGED <<graphVars, edges, blocked, phase, cycle, todo>>

\* Mutant of CycleEdges: all imports of the namespaces on the cycle.
CycleEdges_AllImports(c) == {e \in edges : \E i \in 1..Len(c) : e[1] = c[i]}

\* The edges of the cycle, the closing one included.
CycleEdges(c) == {<<c[i], c[IF i = Len(c) THEN 1 ELSE i + 1]>> : i \in 1..Len(c)}

\* An edge with the fewest references. The code breaks ties by the names of the
\* namespaces; which of the lightest edges that is does not matter here.
lightestEdge(E) == {e \in E : \A f \in E : Weight(e) <= Weight(f)}

\* Mutant of Sever: the edge is kept.
Sever_KeepsEdge ==
  /\ phase = "sever"
  /\ \E e \in lightestEdge(CycleEdges(cycle)) : blocked' = blocked \cup {e}
  /\ phase' = "search" /\ cycle' = << >>
  /\ color' = AllUnvisited /\ stack' = << >> /\ todo' = NothingTodo /\ rank' = Unranked
  /\ UNCHANGED <<graphVars, edges>>

\* Sever it and search again from scratch.
Sever ==
  /\ phase = "sever"
  /\ \E e \in lightestEdge(CycleEdges(cycle)) :
       edges' = edges \ {e} /\ blocked' = blocked \cup {e}
  /\ phase' = "search" /\ cycle' = << >>
  /\ color' = AllUnvisited /\ stack' = << >> /\ todo' = NothingTodo /\ rank' = Unranked
  /\ UNCHANGED graphVars

\* findCycle returned nil.
NoCycle ==
  /\ phase = "search" /\ stack = << >> /\ Unvisited = {}
  /\ phase' = "done"
  /\ UNCHANGED <<graphVars, edges, blocked, searchVars, cycle>>

Next == VisitRoot \/ LookAtTarget \/ Finish \/ Sever \/ NoCycle

Spec == Init /\ [][Next]_vars
\* The loop runs until it returns.
FairSpec == Spec /\ WF_vars(Next)

-----------------------------------------------------------------------------
(* Properties *)

\* Edges join two different namespaces of the registry, and the search keeps
\* findCycle's colouring and path over them.
TypeOK ==
  /\ refs \in [Edge -> Nat] /\ embeds \in [Edge -> Nat]
  /\ edges \subseteq Edge /\ blocked \subseteq Edge
  /\ phase \in {"search", "sever", "done"}
  /\ color \in [Namespaces -> {"unvisited", "inStack", "done"}]
  /\ stack \in Seq(Namespaces)
  /\ todo \in [Namespaces -> SUBSET Namespaces]
  /\ cycle \in Seq(Namespaces)
  /\ rank \in [Namespaces -> Nat]

\* The import graph of the metadata.
AllEdges == {e \in Edge : Weight(e) > 0}

\* The packages that are generated can be compiled: when ComputeBlockedImports
\* returns, the imports it left form no cycle (findCycle answers nil only then).
ResultAcyclic == phase = "done" => Acyclic(Namespaces, edges)

\* No import is severed that was not part of an import cycle to begin with.
OnlyCyclesSevered == \A e \in blocked : Reaches(Namespaces, AllEdges, e[2], e[1])

\* The imports that degrade as much as the embeddings of n interfaces, when
\* baseEmbedWeight references count for one interface.
AsCostly(n) == {f \in AllEdges : embeds[f] + refs[f] \div baseEmbedWeight >= n}

\* Interfaces are demoted to rootless vtables only where every other import of a
\* cycle would have cost as much: as many interfaces, or baseEmbedWeight
\* references and more for each that it is short of. An import of fewer references
\* than that, and of no embedding, is severed in the place of one.
EmbeddingsKept == \A e \in blocked : Reaches(Namespaces, AsCostly(embeds[e]), e[2], e[1])

\* ComputeBlockedImports returns.
Terminates == <>(phase = "done")

\* What the generator is promised: the imports severed break every cycle, and
\* none without need.
PromiseKept == phase = "done" => Breaks(Namespaces, AllEdges, blocked)

(* The inductive invariant.                                                  *)

\* Edges are severed, never added.
EdgesInv == blocked \subseteq AllEdges /\ edges = AllEdges \ blocked

\* The stack is a path through the graph and holds what is coloured so, once.
StackInv ==
  /\ \A i \in 1..(Len(stack) - 1) : <<stack[i], stack[i + 1]>> \in edges
  /\ \A i, j \in 1..Len(stack) : stack[i] = stack[j] => i = j
  /\ \A n \in Namespaces : color[n] = "inStack" <=> \E i \in 1..Len(stack) : stack[i] = n

\* What a namespace on the stack has looked at is finished, but for the one it is
\* visiting; what is finished leads to what was finished before it.
LookedInv ==
  /\ \A i \in 1..Len(stack) :
       /\ todo[stack[i]] \subseteq Targets(edges, stack[i])
       /\ \A m \in Targets(edges, stack[i]) \ todo[stack[i]] :
            color[m] = "done" \/ (i < Len(stack) /\ m = stack[i + 1])
  /\ \A n \in Namespaces : color[n] = "done" =>
       /\ rank[n] <= Cardinality({m \in Namespaces : color[m] = "done"})
       /\ \A m \in Targets(edges, n) : color[m] = "done" /\ rank[m] < rank[n]

CycleInv == phase = "sever" => cycle # << >> /\ CycleEdges(cycle) \subseteq edges

IInv ==
  /\ TypeOK /\ EdgesInv /\ StackInv /\ LookedInv /\ CycleInv
  /\ OnlyCyclesSevered /\ EmbeddingsKept
  /\ phase = "done" => \A n \in Namespaces : color[n] = "done"
=============================================================================
