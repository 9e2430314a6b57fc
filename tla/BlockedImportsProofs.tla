------------------------ MODULE BlockedImportsProofs ------------------------
(***************************************************************************)
(* ComputeBlockedImports keeps its promise for every number of namespaces   *)
(* and every weighting of the references between them: what it leaves is    *)
(* acyclic, what it severs was on a cycle, and embeddings are severed only  *)
(* on a cycle whose other imports cost as much.                             *)
(***************************************************************************)
EXTENDS BlockedImports, FiniteSetTheorems, SequenceTheorems, WellFoundedInduction, TLAPS

\* A nonempty set of naturals has a least element: what the proofs use in place
\* of induction, over ranks and over positions in a sequence.
LEMMA LeastNatural ==
  ASSUME NEW T \in SUBSET Nat, T # {}
  PROVE  \E x \in T : \A y \in T : x <= y
<1>1. PICK R : IsWellFoundedOn(R, Nat) /\ \A x, y \in Nat : x < y => <<x, y>> \in R
  <2>1. IsWellFoundedOn(OpToRel(<, Nat), Nat)
    BY NatLessThanWellFounded
  <2>2. \A x, y \in Nat : x < y => <<x, y>> \in OpToRel(<, Nat)
    BY DEF OpToRel
  <2> QED
    BY <2>1, <2>2, Zenon
<1>2. PICK x \in T : \A y \in T : ~(<<y, x>> \in R)
  <2>1. IsWellFoundedOn(R, Nat) /\ T \subseteq Nat
    BY <1>1
  <2> QED
    BY <2>1, WFMin, Zenon
<1>3. x \in Nat /\ \A y \in T : y \in Nat
  OBVIOUS
<1>4. \A y \in T : ~(y < x)
  BY <1>1, <1>2, <1>3
<1>5. \A y \in T : x <= y
  BY <1>3, <1>4
<1> QED
  BY <1>5

\* The sorted order of the namespaces always has a next one.
LEMMA LeastIsIn ==
  ASSUME NEW S \in SUBSET Namespaces, S # {}
  PROVE  Least(S) \in S
<1>1. S \in SUBSET Nat
  BY GraphAssumption DEF Namespaces
<1>2. \E n \in S : \A m \in S : n <= m
  BY <1>1, LeastNatural
<1> QED
  BY <1>2 DEF Least

\* A closed set that a path enters contains the rest of the path.
LEMMA PathStaysIn ==
  ASSUME NEW E, NEW S, \A e \in E : e[1] \in S => e[2] \in S,
         NEW c \in Seq(Namespaces), NEW a \in 1..Len(c), c[a] \in S,
         \A i \in 1..(Len(c) - 1) : <<c[i], c[i + 1]>> \in E
  PROVE  \A j \in a..Len(c) : c[j] \in S
<1> DEFINE T == {j \in a..Len(c) : c[j] \notin S}
<1>0. Len(c) \in Nat
  OBVIOUS
<1>1. SUFFICES ASSUME T # {} PROVE FALSE
  OBVIOUS
<1>2. T \in SUBSET Nat
  BY <1>0
<1>3. PICK x \in T : \A y \in T : x <= y
  BY <1>1, <1>2, LeastNatural
<1>4. x \in Nat /\ x # a /\ x - 1 \in a..Len(c) /\ x - 1 \in 1..(Len(c) - 1) /\ x = (x - 1) + 1
  BY <1>0
<1>5. c[x - 1] \in S
  BY <1>3, <1>4
<1>6. <<c[x - 1], c[x]>> \in E
  BY <1>4
<1> QED
  BY <1>5, <1>6

\* Along a cycle of E every edge can be gone back.
LEMMA CycleReaches ==
  ASSUME NEW E, NEW c \in Seq(Namespaces), CycleEdges(c) \subseteq E,
         NEW e \in CycleEdges(c)
  PROVE  Reaches(Namespaces, E, e[2], e[1])
<1> DEFINE next(i) == IF i = Len(c) THEN 1 ELSE i + 1
<1>0. Len(c) \in Nat
  OBVIOUS
<1>1. PICK i \in 1..Len(c) : e = <<c[i], c[next(i)]>>
  BY DEF CycleEdges
<1>2. \A j \in 1..Len(c) : <<c[j], c[next(j)]>> \in E
  BY DEF CycleEdges
<1>3. \A j \in 1..(Len(c) - 1) : <<c[j], c[j + 1]>> \in E
  BY <1>0, <1>2
<1>4. 1 \in 1..Len(c) /\ Len(c) \in 1..Len(c) /\ <<c[Len(c)], c[1]>> \in E
  BY <1>0, <1>2
<1> SUFFICES ASSUME NEW S \in SUBSET Namespaces, c[next(i)] \in S,
                    \A d \in E : d[1] \in S => d[2] \in S
             PROVE  c[i] \in S
  BY <1>1 DEF Reaches
<1>5. next(i) \in 1..Len(c)
  BY <1>0
<1>6. c[Len(c)] \in S
  <2> HIDE DEF next
  <2>1. \A j \in next(i)..Len(c) : c[j] \in S
    BY <1>3, <1>5, PathStaysIn
  <2> QED
    BY <1>0, <1>5, <2>1
<1>7. c[1] \in S
  BY <1>4, <1>6
<1>8. \A j \in 1..Len(c) : c[j] \in S
  BY <1>3, <1>4, <1>7, PathStaysIn
<1> QED
  BY <1>8

\* The metadata never change, and so neither do the weights.
LEMMA GraphFixed ==
  ASSUME UNCHANGED graphVars
  PROVE  /\ AllEdges' = AllEdges /\ embeds' = embeds
         /\ \A n : AsCostly(n)' = AsCostly(n)
BY DEF graphVars, AllEdges, Weight, AsCostly

\* The search starts over the whole graph, with nothing coloured.
LEMMA InitIInv == Init => IInv
<1> SUFFICES ASSUME Init PROVE IInv
  OBVIOUS
<1> USE GraphAssumption DEF Init
<1>1. TypeOK
  BY DEF TypeOK, AllUnvisited, NothingTodo, Unranked
<1>2. EdgesInv
  BY DEF EdgesInv, AllEdges
<1>3. StackInv /\ LookedInv
  BY DEF StackInv, LookedInv, AllUnvisited
<1>4. CycleInv /\ OnlyCyclesSevered /\ EmbeddingsKept
  BY DEF CycleInv, OnlyCyclesSevered, EmbeddingsKept
<1> QED
  BY <1>1, <1>2, <1>3, <1>4 DEF IInv

\* The node on top of the stack, and the target it looks at next.
LEMMA TopFacts ==
  ASSUME IInv, stack # << >>
  PROVE  /\ Len(stack) \in Nat \ {0} /\ Top \in Namespaces /\ color[Top] = "inStack"
         /\ todo[Top] # {} => /\ Least(todo[Top]) \in todo[Top]
                              /\ Least(todo[Top]) \in Namespaces
                              /\ <<Top, Least(todo[Top])>> \in edges
<1>1. Len(stack) \in Nat \ {0} /\ Len(stack) \in 1..Len(stack) /\ Top \in Namespaces
  BY DEF IInv, TypeOK, Top
<1>2. color[Top] = "inStack"
  BY <1>1 DEF IInv, StackInv, Top
<1>3. todo[Top] \subseteq Targets(edges, Top) /\ todo[Top] \in SUBSET Namespaces
  BY <1>1 DEF IInv, LookedInv, TypeOK, Top
<1> QED
  BY <1>1, <1>2, <1>3, LeastIsIn DEF Targets

\* visit(n) of a namespace not visited before: at the start of a path, or as the
\* next node of it.
LEMMA EnterKeeps ==
  ASSUME IInv, NEW n \in Namespaces, NEW rest \in [Namespaces -> SUBSET Namespaces],
         color[n] = "unvisited", Enter(n, rest), UNCHANGED <<graphVars, edges, rank>>,
         stack # << >> => /\ <<Top, n>> \in edges
                          /\ rest = [todo EXCEPT ![Top] = @ \ {n}],
         stack = << >> => rest = todo
  PROVE  StackInv' /\ LookedInv'
<1> DEFINE L == Len(stack)
<1>0. /\ stack \in Seq(Namespaces) /\ todo \in [Namespaces -> SUBSET Namespaces]
      /\ color \in [Namespaces -> {"unvisited", "inStack", "done"}]
      /\ StackInv /\ LookedInv
  BY DEF IInv, TypeOK
<1>1. /\ L \in Nat /\ Len(stack') = L + 1 /\ stack'[L + 1] = n
      /\ \A i \in 1..L : stack'[i] = stack[i] /\ stack[i] \in Namespaces
      /\ stack # << >> <=> L # 0
      /\ L # 0 => Top = stack[L]
  BY <1>0 DEF Enter, Top
<1>2. \A i \in 1..L : stack[i] # n
  BY <1>0 DEF StackInv
<1>3. /\ edges' = edges /\ rank' = rank
      /\ color' = [color EXCEPT ![n] = "inStack"]
      /\ todo' = [rest EXCEPT ![n] = Targets(edges, n)]
  BY DEF Enter
<1> HIDE DEF L
<1>4. StackInv'
  <2>1. ASSUME NEW i \in 1..L PROVE <<stack'[i], stack'[i + 1]>> \in edges'
    <3>1. CASE i = L
      BY <1>1, <1>3, <3>1
    <3>2. CASE i # L
      <4>1. i \in 1..(L - 1) /\ i + 1 \in 1..L
        BY <1>1, <3>2
      <4> QED
        BY <1>0, <1>1, <1>3, <4>1 DEF StackInv, L
    <3> QED
      BY <3>1, <3>2
  <2>2. ASSUME NEW i \in 1..(L + 1), NEW j \in 1..(L + 1), stack'[i] = stack'[j]
        PROVE  i = j
    BY <1>0, <1>1, <1>2, <2>2 DEF StackInv, L
  <2>3. ASSUME NEW m \in Namespaces
        PROVE  color'[m] = "inStack" <=> \E i \in 1..(L + 1) : stack'[i] = m
    <3>1. CASE m = n
      BY <1>0, <1>1, <1>3, <3>1
    <3>2. CASE m # n
      <4>1. color'[m] = color[m]
        BY <1>0, <1>3, <3>2
      <4>2. (\E i \in 1..(L + 1) : stack'[i] = m) <=> \E i \in 1..L : stack[i] = m
        BY <1>1, <3>2
      <4> QED
        BY <1>0, <4>1, <4>2 DEF StackInv, L
    <3> QED
      BY <3>1, <3>2
  <2> QED
    BY <1>1, <2>1, <2>2, <2>3 DEF StackInv
<1>5. LookedInv'
  <2>1. \A m \in Namespaces : color'[m] = "done" <=> color[m] = "done"
    BY <1>0, <1>3
  <2>2. {m \in Namespaces : color'[m] = "done"} = {m \in Namespaces : color[m] = "done"}
    BY <2>1
  <2>3. ASSUME NEW i \in 1..(L + 1)
        PROVE  /\ todo'[stack'[i]] \subseteq Targets(edges', stack'[i])
               /\ \A m \in Targets(edges', stack'[i]) \ todo'[stack'[i]] :
                    color'[m] = "done" \/ (i < (L + 1) /\ m = stack'[i + 1])
    <3>1. CASE i = L + 1
      BY <1>1, <1>3, <3>1
    <3>2. CASE i \in 1..L /\ i < L
      <4>1. stack[i] # Top /\ stack[i] # n /\ i + 1 \in 1..L
        BY <1>0, <1>1, <1>2, <3>2 DEF StackInv, L
      <4>2. todo'[stack'[i]] = todo[stack[i]] /\ stack'[i + 1] = stack[i + 1]
        BY <1>0, <1>1, <1>3, <3>2, <4>1
      <4> QED
        BY <1>0, <1>1, <1>3, <2>1, <3>2, <4>1, <4>2 DEF LookedInv, L
    <3>3. CASE i = L /\ L # 0
      <4>1. stack[i] = Top /\ Top # n /\ i \in 1..L
        BY <1>1, <1>2, <3>3
      <4>2. todo'[stack'[i]] = todo[Top] \ {n}
        BY <1>0, <1>1, <1>3, <3>3, <4>1
      <4> QED
        BY <1>0, <1>1, <1>3, <2>1, <3>3, <4>1, <4>2 DEF LookedInv, L
    <3> QED
      BY <1>1, <3>1, <3>2, <3>3
  <2>4. ASSUME NEW k \in Namespaces, color'[k] = "done"
        PROVE  /\ rank'[k] <= Cardinality({m \in Namespaces : color'[m] = "done"})
               /\ \A m \in Targets(edges', k) : color'[m] = "done" /\ rank'[m] < rank'[k]
    <3>1. /\ rank[k] <= Cardinality({m \in Namespaces : color[m] = "done"})
          /\ \A m \in Targets(edges, k) : color[m] = "done" /\ rank[m] < rank[k]
      BY <1>0, <2>1, <2>4 DEF LookedInv
    <3>2. Targets(edges, k) \subseteq Namespaces
      BY DEF Targets
    <3> QED
      BY <1>3, <2>1, <2>2, <3>1, <3>2
  <2> QED
    BY <1>1, <2>3, <2>4 DEF LookedInv, Targets
<1> QED
  BY <1>4, <1>5

\* The finished namespaces can be counted.
LEMMA DoneFinite ==
  ASSUME NEW c
  PROVE  /\ IsFiniteSet({n \in Namespaces : c[n] = "done"})
         /\ Cardinality({n \in Namespaces : c[n] = "done"}) \in Nat
<1>1. IsFiniteSet(Namespaces)
  BY GraphAssumption, FS_Interval DEF Namespaces
<1>2. IsFiniteSet({n \in Namespaces : c[n] = "done"})
  BY <1>1, FS_Subset
<1> QED
  BY <1>2, FS_CardinalityType

\* No step of the search, and no cut, leaves the types.
LEMMA NextTypeOK == IInv /\ [Next]_vars => TypeOK'
<1> SUFFICES ASSUME IInv, [Next]_vars PROVE TypeOK'
  OBVIOUS
<1> USE DEF TypeOK, graphVars, searchVars
<1>0. TypeOK
  BY DEF IInv
<1>1. CASE VisitRoot
  <2>1. Least(Unvisited) \in Namespaces
    BY <1>1, LeastIsIn DEF VisitRoot, Unvisited
  <2> QED
    BY <1>0, <1>1, <2>1 DEF VisitRoot, Enter, Targets
<1>2. CASE LookAtTarget
  <2>1. PICK t \in Namespaces : CloseCycle(t) \/ VisitTarget(t) \/ SkipTarget(t)
    BY <1>2, TopFacts DEF LookAtTarget
  <2>2. Top \in Namespaces
    BY <1>2, TopFacts DEF LookAtTarget
  <2>3. CASE CloseCycle(t)
    <3>1. PICK i \in 1..Len(stack) : cycle' = SubSeq(stack, i, Len(stack))
      BY <2>3 DEF CloseCycle
    <3>2. cycle' \in Seq(Namespaces)
      BY <1>0, <3>1
    <3> QED
      BY <1>0, <1>2, <2>3, <3>2 DEF LookAtTarget, CloseCycle
  <2>4. CASE VisitTarget(t)
    <3>1. Targets(edges, t) \in SUBSET Namespaces
      BY DEF Targets
    <3>2. stack' \in Seq(Namespaces)
      BY <1>0, <2>1, <2>4 DEF VisitTarget, Enter
    <3>3. /\ color' = [color EXCEPT ![t] = "inStack"]
          /\ todo' = [[todo EXCEPT ![Top] = @ \ {t}] EXCEPT ![t] = Targets(edges, t)]
      BY <2>4 DEF VisitTarget, Enter
    <3>4. /\ color' \in [Namespaces -> {"unvisited", "inStack", "done"}]
          /\ todo' \in [Namespaces -> SUBSET Namespaces]
      BY <1>0, <2>2, <3>1, <3>3
    <3> QED
      BY <1>0, <1>2, <2>4, <3>2, <3>4 DEF LookAtTarget, VisitTarget
  <2>5. CASE SkipTarget(t)
    BY <1>0, <1>2, <2>2, <2>5 DEF LookAtTarget, SkipTarget
  <2> QED
    BY <2>1, <2>3, <2>4, <2>5
<1>3. CASE Finish
  <2>1. Cardinality({n \in Namespaces : color[n] = "done"}) \in Nat
    BY DoneFinite
  <2>2. Top \in Namespaces /\ SubSeq(stack, 1, Len(stack) - 1) \in Seq(Namespaces)
    BY <1>0, <1>3, TopFacts DEF Finish
  <2> QED
    BY <1>0, <1>3, <2>1, <2>2 DEF Finish
<1>4. CASE Sever
  <2>1. PICK e : edges' = edges \ {e} /\ blocked' = blocked \cup {e} /\ e \in edges
    BY <1>4 DEF Sever, lightestEdge, IInv, CycleInv
  <2> QED
    BY <1>0, <1>4, <2>1 DEF Sever, AllUnvisited, NothingTodo, Unranked
<1>5. CASE NoCycle
  BY <1>0, <1>5 DEF NoCycle
<1>6. CASE UNCHANGED vars
  BY <1>0, <1>6 DEF vars
<1> QED
  BY <1>1, <1>2, <1>3, <1>4, <1>5, <1>6 DEF Next

\* The node that is finished ranks above all it leads to, and leaves the path.
LEMMA FinishKeeps ==
  ASSUME IInv, Finish
  PROVE  StackInv' /\ LookedInv'
<1> DEFINE L == Len(stack)
           done == {m \in Namespaces : color[m] = "done"}
<1>0. /\ stack \in Seq(Namespaces) /\ todo \in [Namespaces -> SUBSET Namespaces]
      /\ color \in [Namespaces -> {"unvisited", "inStack", "done"}]
      /\ rank \in [Namespaces -> Nat]
      /\ StackInv /\ LookedInv
  BY DEF IInv, TypeOK
<1>1. /\ L \in Nat \ {0} /\ Len(stack') = L - 1 /\ Top = stack[L] /\ Top \in Namespaces
      /\ \A i \in 1..L : stack[i] \in Namespaces
      /\ \A i \in 1..(L - 1) : stack'[i] = stack[i]
      /\ color[Top] = "inStack" /\ todo[Top] = {}
  <2>1. L \in Nat \ {0} /\ Top \in Namespaces /\ color[Top] = "inStack" /\ todo[Top] = {}
    BY TopFacts DEF Finish
  <2>2. Top = stack[L] /\ \A i \in 1..L : stack[i] \in Namespaces
    BY <1>0 DEF Top
  <2>3. stack' = SubSeq(stack, 1, L - 1)
    BY DEF Finish
  <2>4. Len(stack') = L - 1 /\ \A i \in 1..(L - 1) : stack'[i] = stack[i]
    <3>1. 1 \in 1..(Len(stack) + 1) /\ L - 1 \in 0..Len(stack) /\ (L - 1) - 1 + 1 = L - 1
      BY <2>1
    <3>2. \A i \in 1..(L - 1) : 1 + i - 1 = i
      OBVIOUS
    <3> HIDE DEF L
    <3> QED
      BY <1>0, <2>1, <2>3, <3>1, <3>2, SubSeqProperties
  <2> QED
    BY <2>1, <2>2, <2>4
<1>2. /\ edges' = edges /\ todo' = todo /\ color' = [color EXCEPT ![Top] = "done"]
      /\ rank' = [rank EXCEPT ![Top] = Cardinality(done) + 1]
  BY DEF Finish, graphVars
<1>3. /\ Cardinality(done) \in Nat
      /\ {m \in Namespaces : color'[m] = "done"} = done \cup {Top}
      /\ Cardinality(done \cup {Top}) = Cardinality(done) + 1
  <2>2. IsFiniteSet(done)
    BY DoneFinite
  <2>3. Top \notin done
    BY <1>1
  <2>4. {m \in Namespaces : color'[m] = "done"} = done \cup {Top}
    BY <1>0, <1>1, <1>2
  <2> HIDE DEF done
  <2> QED
    BY <2>2, <2>3, <2>4, FS_AddElement, FS_CardinalityType
<1> HIDE DEF L
<1>4. StackInv'
  <2>1. ASSUME NEW i \in 1..(L - 2) PROVE <<stack'[i], stack'[i + 1]>> \in edges'
    <3>1. i \in 1..(L - 1) /\ i + 1 \in 1..(L - 1)
      BY <1>1
    <3> QED
      BY <1>0, <1>1, <1>2, <3>1 DEF StackInv, L
  <2>2. ASSUME NEW i \in 1..(L - 1), NEW j \in 1..(L - 1), stack'[i] = stack'[j] PROVE i = j
    <3>1. i \in 1..L /\ j \in 1..L /\ stack[i] = stack[j]
      BY <1>1, <2>2
    <3> QED
      BY <1>0, <3>1 DEF StackInv, L
  <2>3. ASSUME NEW m \in Namespaces
        PROVE  color'[m] = "inStack" <=> \E i \in 1..(L - 1) : stack'[i] = m
    <3>1. color[m] = "inStack" <=> \E i \in 1..L : stack[i] = m
      BY <1>0 DEF StackInv, L
    <3>2. CASE m = Top
      <4>1. \A i \in 1..(L - 1) : stack[i] # stack[L]
        BY <1>0, <1>1 DEF StackInv, L
      <4> QED
        BY <1>0, <1>1, <1>2, <3>2, <4>1
    <3>3. CASE m # Top
      <4>1. \A i \in 1..L : i = L \/ i \in 1..(L - 1)
        BY <1>1
      <4>2. \A i \in 1..(L - 1) : i \in 1..L
        BY <1>1
      <4> QED
        BY <1>0, <1>1, <1>2, <3>1, <3>3, <4>1, <4>2
    <3> QED
      BY <3>2, <3>3
  <2>4. (L - 1) - 1 = L - 2
    BY <1>1
  <2> QED
    BY <1>1, <2>1, <2>2, <2>3, <2>4 DEF StackInv
<1>5. LookedInv'
  <2>1. ASSUME NEW i \in 1..(L - 1)
        PROVE  /\ todo'[stack'[i]] \subseteq Targets(edges', stack'[i])
               /\ \A m \in Targets(edges', stack'[i]) \ todo'[stack'[i]] :
                    color'[m] = "done" \/ (i < L - 1 /\ m = stack'[i + 1])
    <3>1. i \in 1..L /\ i < L /\ stack'[i] = stack[i] /\ stack[i] \in Namespaces
      BY <1>1
    <3>2. /\ todo[stack[i]] \subseteq Targets(edges, stack[i])
          /\ \A m \in Targets(edges, stack[i]) \ todo[stack[i]] :
               color[m] = "done" \/ m = stack[i + 1]
      BY <1>0, <3>1 DEF LookedInv, L
    <3>3. i + 1 = L \/ (i < L - 1 /\ i + 1 \in 1..(L - 1))
      BY <1>1
    <3>4. \A m \in Targets(edges, stack[i]) : m \in Namespaces
      BY DEF Targets
    <3> QED
      BY <1>0, <1>1, <1>2, <3>1, <3>2, <3>3, <3>4
  <2>2. ASSUME NEW k \in Namespaces, color'[k] = "done"
        PROVE  /\ rank'[k] <= Cardinality(done) + 1
               /\ \A m \in Targets(edges', k) : color'[m] = "done" /\ rank'[m] < rank'[k]
    <3>1. \A m \in Targets(edges, k) : m \in Namespaces
      BY DEF Targets
    <3>2. \A m \in done : rank[m] <= Cardinality(done) /\ rank'[m] = rank[m] /\ color'[m] = "done"
      BY <1>0, <1>1, <1>2 DEF LookedInv
    <3>3. CASE k = Top
      <4>1. \A m \in Targets(edges, k) : m \in done
        <5>1. L \in 1..L /\ ~(L < L)
          BY <1>1
        <5> QED
          BY <1>0, <1>1, <3>1, <3>3, <5>1 DEF LookedInv, L
      <4> QED
        <5>1. rank'[k] = Cardinality(done) + 1
          BY <1>0, <1>1, <1>2, <3>3
        <5>2. \A m \in done : rank[m] \in Nat
          BY <1>0
        <5> HIDE DEF done
        <5> QED
          BY <1>2, <1>3, <3>2, <4>1, <5>1, <5>2
    <3>4. CASE k # Top
      <4>1. k \in done /\ \A m \in Targets(edges, k) : m \in done /\ rank[m] < rank[k]
        BY <1>0, <1>2, <2>2, <3>1, <3>4 DEF LookedInv
      <4> QED
        BY <1>0, <1>2, <1>3, <3>2, <4>1
    <3> QED
      BY <3>3, <3>4
  <2> QED
    <3>1. Cardinality({m \in Namespaces : color'[m] = "done"}) = Cardinality(done) + 1
      BY <1>3
    <3>2. \A k \in Namespaces : color'[k] = "done" =>
            /\ rank'[k] <= Cardinality({m \in Namespaces : color'[m] = "done"})
            /\ \A m \in Targets(edges', k) : color'[m] = "done" /\ rank'[m] < rank'[k]
      BY <2>2, <3>1, Zenon
    <3>3. \A i \in 1..Len(stack') :
            /\ todo'[stack'[i]] \subseteq Targets(edges', stack'[i])
            /\ \A m \in Targets(edges', stack'[i]) \ todo'[stack'[i]] :
                 color'[m] = "done" \/ (i < Len(stack') /\ m = stack'[i + 1])
      <4>1. Len(stack') = L - 1
        BY <1>1
      <4> QED
        BY <2>1, <4>1
    <3> QED
      BY <3>2, <3>3 DEF LookedInv, Targets
<1> QED
  BY <1>4, <1>5

\* An edge that is no lighter makes up in references for the interfaces it lacks.
LEMMA NoLighter ==
  ASSUME NEW e \in Edge, NEW f \in Edge, refs \in [Edge -> Nat], embeds \in [Edge -> Nat],
         Weight(e) <= Weight(f)
  PROVE  embeds[f] + refs[f] \div baseEmbedWeight >= embeds[e]
<1>1. /\ refs[e] \in Nat /\ embeds[e] \in Nat /\ refs[f] \in Nat /\ embeds[f] \in Nat
      /\ refs[e] + 1000 * embeds[e] <= refs[f] + 1000 * embeds[f]
  BY DEF Weight, baseEmbedWeight
<1>2. \A a, b, c, d \in Nat : a + 1000 * b <= c + 1000 * d => d + c \div 1000 >= b
  OBVIOUS
<1> QED
  BY <1>1, <1>2 DEF baseEmbedWeight

\* The cut: of a cycle of what is left, hence of the import graph; and nothing on
\* the cycle is lighter.
LEMMA SeverKeeps ==
  ASSUME IInv, Sever
  PROVE  EdgesInv' /\ StackInv' /\ LookedInv' /\ OnlyCyclesSevered' /\ EmbeddingsKept'
<1>0. /\ cycle \in Seq(Namespaces) /\ CycleEdges(cycle) \subseteq edges
      /\ edges = AllEdges \ blocked /\ blocked \subseteq AllEdges
      /\ AllEdges' = AllEdges /\ embeds' = embeds
  BY GraphFixed DEF IInv, TypeOK, EdgesInv, CycleInv, Sever
<1>1. PICK e \in CycleEdges(cycle) :
        /\ \A f \in CycleEdges(cycle) : Weight(e) <= Weight(f)
        /\ edges' = edges \ {e} /\ blocked' = blocked \cup {e}
  BY DEF Sever, lightestEdge
<1>2. EdgesInv'
  BY <1>0, <1>1 DEF EdgesInv
<1>3. StackInv' /\ LookedInv'
  BY DEF Sever, StackInv, LookedInv, AllUnvisited
<1>4. OnlyCyclesSevered'
  <2>1. CycleEdges(cycle) \subseteq AllEdges
    BY <1>0
  <2>2. Reaches(Namespaces, AllEdges, e[2], e[1])
    BY <1>0, <2>1, CycleReaches
  <2> QED
    BY <1>0, <1>1, <2>2 DEF IInv, OnlyCyclesSevered
<1>5. EmbeddingsKept'
  <2>1. ASSUME NEW f \in CycleEdges(cycle) PROVE f \in AsCostly(embeds[e])
    <3>1. /\ e \in Edge /\ f \in Edge /\ f \in AllEdges
          /\ refs \in [Edge -> Nat] /\ embeds \in [Edge -> Nat]
      BY <1>0 DEF AllEdges, IInv, TypeOK
    <3>2. Weight(e) <= Weight(f)
      BY <1>1
    <3> QED
      BY <3>1, <3>2, NoLighter DEF AsCostly
  <2>2. Reaches(Namespaces, AsCostly(embeds[e]), e[2], e[1])
    <3>1. CycleEdges(cycle) \subseteq AsCostly(embeds[e])
      BY <2>1
    <3> QED
      BY <1>0, <3>1, CycleReaches
  <2>3. \A d \in blocked \cup {e} : Reaches(Namespaces, AsCostly(embeds[d]), d[2], d[1])
    BY <2>2 DEF IInv, EmbeddingsKept
  <2>4. UNCHANGED graphVars
    BY DEF Sever
  <2> QED
    BY <1>1, <2>3, <2>4, GraphFixed DEF EmbeddingsKept
<1> QED
  BY <1>2, <1>3, <1>4, <1>5

\* Every step of the search keeps its account; every cut is justified.
LEMMA NextIInv == IInv /\ [Next]_vars => IInv'
<1> SUFFICES ASSUME IInv, [Next]_vars PROVE IInv'
  OBVIOUS
<1> DEFINE Answered == phase = "done" => \A n \in Namespaces : color[n] = "done"
<1>0. TypeOK'
  BY NextTypeOK
<1>a. ASSUME UNCHANGED <<refs, embeds, edges, blocked>>
      PROVE  EdgesInv' /\ OnlyCyclesSevered' /\ EmbeddingsKept'
  BY <1>a, GraphFixed DEF graphVars, IInv, EdgesInv, OnlyCyclesSevered, EmbeddingsKept
<1>b. ASSUME UNCHANGED <<edges, color, stack, todo, rank>> PROVE StackInv' /\ LookedInv'
  BY <1>b DEF IInv, StackInv, LookedInv, Targets
<1>1. CASE VisitRoot
  <2>1. Least(Unvisited) \in Unvisited
    BY <1>1, LeastIsIn DEF VisitRoot, Unvisited
  <2>2. StackInv' /\ LookedInv'
    BY <1>1, <2>1, EnterKeeps DEF VisitRoot, Unvisited, IInv, TypeOK
  <2>3. UNCHANGED <<refs, embeds, edges, blocked>> /\ phase = "search" /\ phase' = "search"
    BY <1>1 DEF VisitRoot, graphVars
  <2> QED
    BY <1>0, <1>a, <2>2, <2>3 DEF IInv, CycleInv
<1>2. CASE LookAtTarget
  <2>0. /\ UNCHANGED <<refs, embeds, edges, blocked>> /\ phase = "search"
        /\ stack \in Seq(Namespaces) /\ stack # << >>
    BY <1>2 DEF LookAtTarget, graphVars, IInv, TypeOK
  <2>1. PICK t \in Namespaces : /\ CloseCycle(t) \/ VisitTarget(t) \/ SkipTarget(t)
                                /\ <<Top, t>> \in edges /\ t \in todo[Top]
    BY <1>2, TopFacts DEF LookAtTarget
  <2>2. CASE CloseCycle(t)
    <3>1. CycleInv'
      <4>1. PICK i \in 1..Len(stack) : stack[i] = t /\ cycle' = SubSeq(stack, i, Len(stack))
        BY <2>2 DEF CloseCycle
      <4> DEFINE K == Len(stack) - i + 1
      <4>2. /\ i \in Nat \ {0} /\ Len(stack) \in Nat /\ K \in Nat \ {0}
            /\ Len(stack) = K + i - 1
        BY <2>0
      <4>3. /\ Len(cycle') = K
            /\ \A j \in 1..K : cycle'[j] = stack[i + j - 1]
        <5>1. \A j \in i..Len(stack) : stack[j] \in Namespaces
          BY <2>0
        <5> QED
          BY <4>1, <4>2, <5>1, SubSeqProperties
      <4> HIDE DEF K
      <4>4. cycle'[K] = Top /\ cycle'[1] = t
        BY <4>1, <4>2, <4>3 DEF Top
      <4>5. ASSUME NEW j \in 1..K, j # K PROVE <<cycle'[j], cycle'[j + 1]>> \in edges
        <5>1. /\ j + 1 \in 1..K /\ i + j - 1 \in 1..(Len(stack) - 1)
              /\ i + (j + 1) - 1 = (i + j - 1) + 1
          BY <4>2, <4>5
        <5>2. <<stack[i + j - 1], stack[(i + j - 1) + 1]>> \in edges
          BY <5>1 DEF IInv, StackInv
        <5> QED
          BY <4>3, <5>1, <5>2
      <4>6. CycleEdges(cycle') \subseteq edges
        BY <2>1, <4>3, <4>4, <4>5 DEF CycleEdges
      <4> QED
        BY <2>0, <4>2, <4>3, <4>6 DEF CycleInv, CycleEdges
    <3>2. UNCHANGED <<color, stack, todo, rank>> /\ phase' = "sever"
      BY <2>2 DEF CloseCycle, searchVars
    <3> QED
      BY <1>0, <1>a, <1>b, <2>0, <3>1, <3>2 DEF IInv
  <2>3. CASE VisitTarget(t)
    <3>1. StackInv' /\ LookedInv'
      <4>1. [todo EXCEPT ![Top] = @ \ {t}] \in [Namespaces -> SUBSET Namespaces]
        BY DEF IInv, TypeOK
      <4> QED
        BY <2>0, <2>1, <2>3, <4>1, EnterKeeps DEF VisitTarget, graphVars
    <3> QED
      BY <1>0, <1>a, <2>0, <2>3, <3>1 DEF VisitTarget, IInv, CycleInv
  <2>4. CASE SkipTarget(t)
    <3>1. /\ UNCHANGED <<color, stack, rank, edges>> /\ color[t] = "done" /\ phase' = phase
          /\ todo' = [todo EXCEPT ![Top] = @ \ {t}]
      BY <2>0, <2>4 DEF SkipTarget
    <3>2. StackInv'
      BY <3>1 DEF IInv, StackInv
    <3>3. \A n \in Namespaces : todo'[n] = IF n = Top THEN todo[n] \ {t} ELSE todo[n]
      BY <3>1 DEF IInv, TypeOK
    <3>4. \A i \in 1..Len(stack) : stack[i] \in Namespaces
      BY <2>0
    <3>5. LookedInv'
      <4>1. \A n \in Namespaces : Targets(edges', n) = Targets(edges, n) /\ todo'[n] \subseteq todo[n]
        BY <3>1, <3>3 DEF Targets
      <4>2. ASSUME NEW i \in 1..Len(stack)
            PROVE  /\ todo'[stack[i]] \subseteq Targets(edges', stack[i])
                   /\ \A m \in Targets(edges', stack[i]) \ todo'[stack[i]] :
                        color[m] = "done" \/ (i < Len(stack) /\ m = stack[i + 1])
        <5>1. /\ todo[stack[i]] \subseteq Targets(edges, stack[i])
              /\ \A m \in Targets(edges, stack[i]) \ todo[stack[i]] :
                   color[m] = "done" \/ (i < Len(stack) /\ m = stack[i + 1])
          BY DEF IInv, LookedInv
        <5>2. \A m \in todo[stack[i]] \ todo'[stack[i]] : color[m] = "done"
          BY <3>1, <3>3, <3>4
        <5> QED
          BY <3>4, <4>1, <5>1, <5>2
      <4>3. \A n \in Namespaces : color[n] = "done" =>
              /\ rank[n] <= Cardinality({m \in Namespaces : color[m] = "done"})
              /\ \A m \in Targets(edges, n) : color[m] = "done" /\ rank[m] < rank[n]
        BY DEF IInv, LookedInv
      <4> QED
        BY <3>1, <4>1, <4>2, <4>3 DEF LookedInv
    <3> QED
      BY <1>0, <1>a, <2>0, <3>1, <3>2, <3>5 DEF IInv, CycleInv
  <2> QED
    BY <2>1, <2>2, <2>3, <2>4
<1>3. CASE Finish
  BY <1>0, <1>3, <1>a, FinishKeeps DEF Finish, graphVars, IInv, CycleInv
<1>4. CASE Sever
  BY <1>0, <1>4, SeverKeeps DEF Sever, IInv, CycleInv
<1>5. CASE NoCycle
  <2>1. Answered'
    BY <1>5 DEF NoCycle, IInv, TypeOK, StackInv, Unvisited, searchVars
  <2> QED
    BY <1>0, <1>5, <1>a, <1>b, <2>1 DEF NoCycle, graphVars, searchVars, IInv, CycleInv
<1>6. CASE UNCHANGED vars
  BY <1>0, <1>6, <1>a, <1>b DEF vars, graphVars, searchVars, IInv, CycleInv, CycleEdges
<1> QED
  BY <1>1, <1>2, <1>3, <1>4, <1>5, <1>6 DEF Next

\* The search's stack, colours and order, and the cuts made so far, at every step.
THEOREM InvariantCorrect == Spec => []IInv
<1>1. Init => IInv
  BY InitIInv
<1>2. IInv /\ [Next]_vars => IInv'
  BY NextIInv
<1> QED
  BY <1>1, <1>2, PTL DEF Spec

\* Every variable of the search keeps its type.
THEOREM TypeCorrect == Spec => []TypeOK
<1>1. IInv => TypeOK
  BY DEF IInv
<1> QED
  BY <1>1, InvariantCorrect, PTL

\* findCycle answers nil only when there is no cycle: the packages can be
\* compiled.
THEOREM ResultAcyclicCorrect == Spec => []ResultAcyclic
<1>1. IInv => ResultAcyclic
  <2> SUFFICES ASSUME IInv, phase = "done", NEW S \in (SUBSET Namespaces) \ {{}}
               PROVE  \E n \in S : \A m \in S : <<n, m>> \notin edges
    BY DEF ResultAcyclic, Acyclic
  <2>1. \A n, m \in S : <<n, m>> \in edges => rank[m] < rank[n]
    BY DEF IInv, LookedInv, Targets
  <2>2. \A n \in S : rank[n] \in Nat
    BY DEF IInv, TypeOK
  <2>3. PICK r \in {rank[n] : n \in S} : \A q \in {rank[n] : n \in S} : r <= q
    <3>1. {rank[n] : n \in S} \in SUBSET Nat /\ {rank[n] : n \in S} # {}
      BY <2>2
    <3> QED
      BY <3>1, LeastNatural
  <2>4. PICK n \in S : rank[n] = r
    BY <2>3
  <2>5. \A m \in S : ~(rank[m] < rank[n])
    BY <2>2, <2>3, <2>4
  <2> QED
    BY <2>1, <2>5
<1> QED
  BY <1>1, InvariantCorrect, PTL

\* lightestEdge only ever cuts on a cycle of the metadata's own import graph.
THEOREM OnlyCyclesSeveredCorrect == Spec => []OnlyCyclesSevered
<1>1. IInv => OnlyCyclesSevered
  BY DEF IInv
<1> QED
  BY <1>1, InvariantCorrect, PTL

\* What the bonus of baseEmbedWeight buys, whatever the numbers of references: an
\* import is severed only on a cycle of imports that are no cheaper, counted in
\* interfaces that embed.
THEOREM EmbeddingsKeptCorrect == Spec => []EmbeddingsKept
<1>1. IInv => EmbeddingsKept
  BY DEF IInv
<1> QED
  BY <1>1, InvariantCorrect, PTL

\* What ComputeBlockedImports returns is what Emission assumes of the edges it
\* severs (Start takes any set that Breaks).
THEOREM PromiseKeptCorrect == Spec => []PromiseKept
<1>1. IInv /\ ResultAcyclic => PromiseKept
  <2> SUFFICES ASSUME IInv, ResultAcyclic, phase = "done"
               PROVE  Breaks(Namespaces, AllEdges, blocked)
    BY DEF PromiseKept
  <2>1. blocked \subseteq AllEdges /\ Acyclic(Namespaces, AllEdges \ blocked)
    BY DEF IInv, EdgesInv, ResultAcyclic
  <2> QED
    BY <2>1 DEF IInv, OnlyCyclesSevered, Breaks
<1> QED
  BY <1>1, InvariantCorrect, ResultAcyclicCorrect, PTL
=============================================================================
