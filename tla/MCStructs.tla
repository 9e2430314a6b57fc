----------------------------- MODULE MCStructs -----------------------------
(* Metadata for the Structs run.                                             *)
EXTENDS Structs

F(kind) == [kind |-> kind, size |-> 0, align |-> 1, class |-> "other", to |-> 0, len |-> 1, severed |-> FALSE]
Native(size) == [F("native") EXCEPT !.size = size, !.align = size]
Float(size) == [Native(size) EXCEPT !.class = IF size = 4 THEN "f32" ELSE "f64"]
Ref(i)     == [F("ref") EXCEPT !.to = i]
Ptr(i)     == [F("pointer") EXCEPT !.to = i]
Anon(n)     == [F("nested") EXCEPT !.to = n]
Cut(f)     == [f EXCEPT !.severed = TRUE]
Times(f, n) == [f EXCEPT !.len = n]

V(fields) == [arches |-> {}, fields |-> fields, pack |-> 0, union |-> FALSE, nested |-> << >>]
Packed(v, p) == [v EXCEPT !.pack = p]
Union(v) == [v EXCEPT !.union = TRUE]
For(v, arches) == [v EXCEPT !.arches = arches]
Within(v, d) == [v EXCEPT !.nested = <<d>>]
Deeper(v, ds) == [v EXCEPT !.nested = ds]
N(fields, pack, union, free) == [fields |-> fields, pack |-> pack, union |-> union, free |-> free, parent |-> 0]
Inside(n, d) == [d EXCEPT !.parent = n]
S(n, variants) == [ns |-> n, variants |-> variants]

\* The first struct: plain, packed, a union, an empty struct and an empty union,
\* for x86 or arm64 only, different or not per architecture.
Small == V(<<Native(1), Native(4)>>)
Firsts ==
  {<<Small>>, <<V(<<Native(4), Native(8), Native(2)>>)>>,
   <<Packed(V(<<Native(1), Native(8)>>), 2)>>, <<Packed(Small, 4)>>, <<Union(V(<<Native(2), Times(Native(1), 3)>>))>>,
   <<For(Small, {"x86"})>>, <<For(Small, {"arm64"})>>, <<For(Small, {"x86"}), For(V(<<Native(8)>>), {"amd64", "arm64"})>>,
   <<For(Small, {"amd64"}), For(V(<<Native(8), Native(1)>>), {"arm64"})>>,
   <<For(Packed(V(<<Native(1), Native(8)>>), 1), {"amd64"}), For(V(<<Native(2)>>), {"arm64"})>>,
   <<Packed(V(<<[F("native") EXCEPT !.size = 16, !.align = 4], Native(1)>>), 8)>>}

\* A struct over the one before: one or two of these fields in any packing.
FieldsOver(i) == {Native(1), Native(8), Ref(i), Times(Ref(i), 3), Cut(Ref(i)), Ptr(i), Cut(Ptr(i)), Ptr(0)}
Plain(i) == {Packed(V(fs), p) : fs \in {<<f>> : f \in FieldsOver(i)} \cup {<<f, g>> : f \in FieldsOver(i), g \in {Native(1), Native(8), Ref(i), Cut(Ref(i)), Ptr(i)}}, p \in {0, 1, 4}}
Unions(i) == {Union(V(<<Ref(i), Native(4)>>)), Union(V(<<Cut(Ref(i)), Native(8)>>)), Packed(Union(V(<<Native(8), Ref(i)>>)), 2)}
Nesting(i) == {Packed(Within(V(<<Native(1), Anon(1)>>), N(<<f, Native(8)>>, p, u, free)), q) :
               f \in {Native(2), Ref(i), Cut(Ref(i)), Ptr(i)}, p \in {0, 4}, q \in {0, 2}, u \in BOOLEAN, free \in BOOLEAN}
\* A nested type in a nested type, and one more in the struct, which may fail.
Depth3(i) == {Packed(Deeper(V(<<Anon(2), Anon(3), Native(2)>>),
                <<Inside(2, N(<<f, Native(2)>>, 0, u, TRUE)), N(<<Anon(1), Ref(i)>>, p, FALSE, TRUE),
                  N(<<g, Native(1)>>, 0, FALSE, free)>>), q) :
              f \in {Native(4), Ref(i), Ptr(i)}, g \in {Cut(Ref(i)), Native(8)}, p \in {0, 2}, q \in {0, 1},
              u \in BOOLEAN, free \in BOOLEAN}
Seconds == {<<v>> : v \in Plain(1) \cup Unions(1) \cup Nesting(1)}
           \cup {<<For(V(<<Ref(1)>>), {"amd64"}), For(V(<<Cut(Ref(1)), Native(1)>>), {"arm64"})>>}
\* And a third, which holds the second and may point to itself.
Thirds == {<<V(<<Ref(2)>>)>>, <<V(<<Native(1), Cut(Ref(2)), Ptr(3), Ptr(2)>>)>>, <<Packed(V(<<Native(1), Times(Ref(2), 2)>>), 2)>>,
           <<Within(V(<<Anon(1), Native(4)>>), N(<<Native(1), Ref(2)>>, 0, FALSE, TRUE))>>}

\* In every order of namespaces that severs only imports: a reference may be met
\* before its target.
Severs(v) == \E k \in DOMAIN v.fields : v.fields[k].severed
CutsIn(vs) == \E j \in DOMAIN vs : Severs(vs[j]) \/ \E n \in DOMAIN vs[j].nested : Severs(vs[j].nested[n])
Trees == {<<S(n[1], a), S(n[2], b), S(n[3], c)>> :
          n \in {<<1, 1, 2>>, <<2, 1, 1>>, <<1, 2, 1>>}, a \in Firsts, b \in Seconds, c \in Thirds}
Legal(r) == /\ CutsIn(r[2].variants) => r[1].ns # r[2].ns
            /\ CutsIn(r[3].variants) => r[2].ns # r[3].ns

\* Ten structs, each in the one after it, of which the first exists on x86 only.
Chain == [i \in 1..10 |-> S(1, IF i = 1 THEN <<For(Small, {"x86"})>> ELSE <<V(<<Ref(i - 1)>>)>>)]

\* Types that take no space.
Empty == <<S(1, <<V(<< >>)>>), S(1, <<Union(V(<< >>))>>), S(1, <<V(<<Ptr(1), Ptr(2)>>)>>)>>

\* Floats: alone, in arrays of one to five, mixed, with an integer, and the same
\* one level up, next to more floats, nested or embedded or both.
FloatFields == {Float(4), Float(8), Native(4)} \cup {Times(Float(4), n) : n \in {2, 4, 5}}
OneDeep == {<<f>> : f \in FloatFields} \cup {<<f, g>> : f, g \in FloatFields} \cup {<<Float(4), Float(4), Float(4)>>}
Outer == {<<Ref(1)>>, <<Ref(1), Float(4)>>, <<Times(Ref(1), 2)>>, <<Float(8), Ref(1)>>, <<Ref(1), Native(1)>>}
FloatTree(a, b, c) == <<S(1, <<a>>), S(1, <<V(b)>>), S(1, <<Within(V(<<Anon(1), Ref(1)>>), c)>>)>>
Floats == {FloatTree(Packed(V(a), p), b, N(<<Float(4)>>, 0, FALSE, TRUE)) : a \in OneDeep, p \in {0, 2}, b \in Outer}
          \cup {FloatTree(V(a), <<Ref(1)>>, N(c, 0, u, TRUE)) :
                  a \in OneDeep, c \in {<<Float(4), Float(4)>>, <<Float(4), Native(4)>>}, u \in BOOLEAN}

\* Unions of floats alone.
FloatUnions == {<<S(1, <<Union(V(a))>>)>> : a \in OneDeep}

\* Two nested types in one in the struct, where a name may be taken.
Dangling == {<<S(1, <<Packed(Deeper(V(<<Native(4), Anon(3)>>),
                <<Inside(3, N(<<Native(4)>>, 0, FALSE, a)), Inside(3, N(<<Native(2), f>>, 0, u, b)),
                  N(<<Anon(1), Anon(2)>>, p, FALSE, c)>>), q)>>)>> :
             f \in {Native(2), Native(1), Times(Native(8), 2)}, a \in BOOLEAN, b \in BOOLEAN, c \in BOOLEAN,
             u \in BOOLEAN, p \in {0, 1}, q \in {0, 1}}

DeepTrees == {<<S(1, a), S(2, <<b>>), S(1, <<V(<<Native(1), Ref(2)>>)>>)>> : a \in Firsts, b \in Depth3(1)}

AllRegistries == Floats \cup Dangling \cup DeepTrees \cup {Chain, Empty} \cup {r \in Trees : Legal(r)}

\* What the theorem on skips assumes holds of these registries.
ASSUME FilledAssumption == \A r \in Registries : Filled(r)
=============================================================================
