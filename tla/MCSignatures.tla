---------------------------- MODULE MCSignatures ----------------------------
(* Native signatures for the Signatures run.                                 *)
EXTENDS Signatures

P(type) == [type |-> type, in |-> TRUE, out |-> FALSE, retval |-> FALSE, reserved |-> FALSE,
            com |-> FALSE, count |-> 0, size |-> 0]
Out(type) == [P(type) EXCEPT !.in = FALSE, !.out = TRUE]
Reserved(type) == [P(type) EXCEPT !.reserved = TRUE]
RetVal(type) == [Out(type) EXCEPT !.retval = TRUE]

Source(kind, ps, ret) ==
  [kind |-> kind, params |-> ps, ret |-> ret, setLastError |-> FALSE, informational |-> FALSE,
   unsuffixed |-> FALSE, taken |-> {}]

Kinds == {"function", "method"}
Sequences(S, n) == UNION {[1..k -> S] : k \in 0..n}

\* Buffers of every kind that name any parameter, themselves or one that is not
\* there as their count or size, and the integers they may name.
Buffers == {[p EXCEPT !.count = j] : p \in {P("ptr"), Reserved("ptr"), RetVal("ptr")}, j \in 1..4}
           \cup {[P(t) EXCEPT !.size = j] : t \in {"voidptr", "byteptr"}, j \in 1..4}
           \cup {[P("byteptr") EXCEPT !.count = 1, !.size = j] : j \in 0..3}
Linked == {Source(k, ps, "HRESULT") : k \in Kinds,
           ps \in Sequences(Buffers \cup {P("int"), Reserved("int")}, 3)}

\* Every parameter type with every return.
Mixed == {RetVal("ptr"), [RetVal("voidpp") EXCEPT !.com = TRUE], Out("voidpp"), RetVal("voidpp"), Reserved("ptr")}
         \cup {P(t) : t \in ParamTypes \ {"voidpp"}}
Returning == {[Source(k, ps, ret) EXCEPT !.setLastError = e] :
              k \in Kinds, ps \in Sequences(Mixed, 2), ret \in ReturnTypes, e \in BOOLEAN}

\* Informational APIs, names that are taken, and the limit on argument words.
Named == {[Source("function", <<>>, ret) EXCEPT !.unsuffixed = u, !.taken = t, !.informational = TRUE] :
          ret \in {"void", "HRESULT", "array"}, u \in BOOLEAN, t \in SUBSET {"bare", "raw"}}
Long == {Source(k, Append([i \in 1..n |-> P("int")], P("float")), ret) :
         k \in Kinds, n \in 41..46, ret \in {"void", "small"}}

AllSources == Linked \cup Returning \cup Named \cup Long
=============================================================================
