----------------------------- MODULE MCEmission -----------------------------
(* Metadata trees for the Emission runs, over namespaces "A", "B" and "C".   *)
EXTENDS Emission

\* A namespace that declares types and names nothing, or names it in a struct.
Plain == [structs |-> {}, others |-> {}, shapes |-> {}, typedefs |-> {},
          freeFunc |-> None, freeParam |-> None, bodies |-> {"types"}]
Using(S) == [Plain EXCEPT !.structs = S]

\* Two namespaces whose structs name each other, a third that uses one, and a
\* handle freed in its own namespace.
Cyclic == [n \in {"A", "B", "C"} |->
  CASE n = "A" -> [Using({"B"}) EXCEPT !.freeFunc = "A", !.freeParam = "A",
                                             !.bodies = {"types", "handles"}]
    [] n = "B" -> Using({"A"})
    [] n = "C" -> [Plain EXCEPT !.others = {"B"}]]

\* A later winmd without C, and without the handle.
Smaller == [n \in {"A", "B"} |-> IF n = "A" THEN Using({"B"}) ELSE [Plain EXCEPT !.bodies = {}]]

\* What "ingest --namespace=A" leaves: A names B, which is not there.
Partial == [n \in {"A"} |-> [Plain EXCEPT !.others = {"B"}]]

\* A names a typedef of B, B one of A; B's typedef is a pointer into C.
Flattening == [n \in {"A", "B", "C"} |->
  CASE n = "A" -> [Plain EXCEPT !.typedefs = {"B"}]
    [] n = "B" -> [Plain EXCEPT !.others = {"A"}, !.shapes = {"C"}]
    [] n = "C" -> Plain]

\* A's handle is freed by a function of B that takes it, as in the golden tests of
\* the emitter; A names a struct of B, so that one of their edges is severed.
Closing == [n \in {"A", "B", "C"} |->
  CASE n = "A" -> [Using({"B"}) EXCEPT !.freeFunc = "B", !.freeParam = "A",
                                       !.bodies = {"types", "handles"}]
    [] n = "B" -> [Plain EXCEPT !.others = {"A"}]
    [] n = "C" -> [Plain EXCEPT !.freeFunc = "A", !.freeParam = "B", !.bodies = {"handles"}]]

Evolving == {Cyclic, Smaller, Partial, Flattening, Closing}

AllOrSome == {{}, {"A"}, {"C"}}
=============================================================================
