---------------------------- MODULE StructsProofs ----------------------------
(***************************************************************************)
(* The structs that are emitted name nothing undefined, have C's layout in  *)
(* Go, are left out only when they must be, and are passed by value as the  *)
(* callees of both architectures expect, for any metadata.                  *)
(*                                                                          *)
(* The layout engine is compared with the reference definition first, then  *)
(* the engines of the two architectures with each other, and Go's layout of *)
(* a declaration with the engine's, by induction on the order of the        *)
(* structs. The censuses are compared with the scalars that the layouts     *)
(* place, the same way. The invariant is about the phases of the generator. *)
(***************************************************************************)
EXTENDS Structs, Integers, TLAPS, FiniteSetTheorems, WellFoundedInduction, NaturalsInduction

RegistryOK == registry \in Registries

-----------------------------------------------------------------------------
(* The metadata *)

\* A list of fields: of a struct or of one of its nested types.
Listed(d, i) ==
  /\ d.fields \in Seq(Field) /\ d.pack \in {0, 1, 2, 4, 8, 16, 32, 64, 128} /\ d.union \in BOOLEAN
  /\ \A k \in DOMAIN d.fields :
       /\ d.fields[k].kind = "ref" => d.fields[k].to \in 1..(i - 1)
       /\ d.fields[k].kind = "pointer" => d.fields[k].to \in 0..Len(registry)
       /\ d.fields[k].kind = "native" => d.fields[k].align \in {1, 2, 4, 8}

\* The nested types of a variant: each before the one that holds it, and named by
\* the fields of that one only.
Nesting(def) ==
  /\ Len(def.nested) \in Nat /\ DOMAIN def.nested = 1..Len(def.nested)
  /\ \A k \in DOMAIN def.fields : def.fields[k].kind = "nested" => def.fields[k].to \in Inner(def, 0)
  /\ \A n \in DOMAIN def.nested :
       /\ Inner(def, n) \subseteq 1..(n - 1) /\ def.nested[n].free \in BOOLEAN
       /\ \A k \in DOMAIN def.nested[n].fields :
            def.nested[n].fields[k].kind = "nested" => def.nested[n].fields[k].to \in Inner(def, n)

\* The variants and their nested types are what the assumptions say.
LEMMA RegistryFacts ==
  ASSUME RegistryOK
  PROVE  /\ Len(registry) \in Nat /\ Idx = 1..Len(registry)
         /\ \A i \in Idx : registry[i].ns \in Nat \ {0} /\ registry[i].variants \in Seq(Variant)
         /\ \A i \in Idx : \A v \in DOMAIN registry[i].variants :
              LET def == registry[i].variants[v] IN
              /\ Listed(def, i) /\ def.arches \in SUBSET {"x86", "amd64", "arm64"} /\ Nesting(def)
              /\ \A n \in DOMAIN def.nested : Listed(def.nested[n], i)
<1>1. registry \in Seq(Struct)
  BY RegistriesAssumption DEF RegistryOK
<1>2. Len(registry) \in Nat /\ Idx = 1..Len(registry)
  BY <1>1 DEF Idx
<1>3. ASSUME NEW i \in Idx PROVE registry[i] \in Struct
  BY <1>1, <1>2
<1>4. \A i \in Idx : registry[i].ns \in Nat \ {0} /\ registry[i].variants \in Seq(Variant)
  BY <1>3 DEF Struct
<1>5. ASSUME NEW i \in Idx, NEW v \in DOMAIN registry[i].variants
      PROVE  LET def == registry[i].variants[v] IN
              /\ Listed(def, i) /\ def.arches \in SUBSET {"x86", "amd64", "arm64"} /\ Nesting(def)
              /\ \A n \in DOMAIN def.nested : Listed(def.nested[n], i)
  <2> DEFINE def == registry[i].variants[v]
  <2>1. def \in Variant
    BY <1>4
  <2>2. /\ def.fields \in Seq(Field) /\ def.union \in BOOLEAN /\ def.nested \in Seq(Nested)
        /\ def.arches \in SUBSET {"x86", "amd64", "arm64"}
    BY <2>1 DEF Variant
  <2>3. def.pack \in {0, 1, 2, 4, 8, 16, 32, 64, 128} /\ \A k \in DOMAIN def.fields : def.fields[k].kind = "native" => def.fields[k].align \in {1, 2, 4, 8}
    BY AlignmentAssumption DEF RegistryOK, Idx
  <2>4. \A n \in DOMAIN def.nested :
          /\ def.nested[n].pack \in {0, 1, 2, 4, 8, 16, 32, 64, 128}
          /\ \A k \in DOMAIN def.nested[n].fields : def.nested[n].fields[k].kind = "native" => def.nested[n].fields[k].align \in {1, 2, 4, 8}
    BY AlignmentAssumption DEF RegistryOK, Idx
  <2>5. \A n \in DOMAIN def.nested : def.nested[n].fields \in Seq(Field) /\ def.nested[n].union \in BOOLEAN /\ def.nested[n].free \in BOOLEAN
    <3> HIDE DEF def
    <3>1. \A n \in DOMAIN def.nested : def.nested[n] \in Nested
      BY <2>2
    <3> QED
      BY <3>1 DEF Nested
  <2> DEFINE legal(f, inner) == /\ f.kind = "ref" => f.to \in 1..(i - 1)
                                /\ f.kind = "pointer" => f.to \in 0..Len(registry)
                                /\ f.kind = "nested" => f.to \in inner
  <2>a. /\ \A k \in DOMAIN def.fields : legal(def.fields[k], Inner(def, 0))
        /\ \A n \in DOMAIN def.nested :
             /\ def.nested[n].parent \in {0} \cup (n + 1)..Len(def.nested)
             /\ \A k \in DOMAIN def.nested[n].fields : legal(def.nested[n].fields[k], Inner(def, n))
    BY RegistriesAssumption DEF RegistryOK, Idx
  <2>6. \A k \in DOMAIN def.fields :
          /\ def.fields[k].kind = "ref" => def.fields[k].to \in 1..(i - 1)
          /\ def.fields[k].kind = "pointer" => def.fields[k].to \in 0..Len(registry)
          /\ def.fields[k].kind = "nested" => def.fields[k].to \in Inner(def, 0)
    BY <2>a
  <2>7. \A n \in DOMAIN def.nested : \A k \in DOMAIN def.nested[n].fields :
          /\ def.nested[n].fields[k].kind = "nested" => def.nested[n].fields[k].to \in Inner(def, n)
          /\ def.nested[n].fields[k].kind = "ref" => def.nested[n].fields[k].to \in 1..(i - 1)
          /\ def.nested[n].fields[k].kind = "pointer" => def.nested[n].fields[k].to \in 0..Len(registry)
    BY <2>a
  <2>b. \A n \in DOMAIN def.nested : def.nested[n].parent \in {0} \cup (n + 1)..Len(def.nested)
    BY <2>a
  <2> HIDE DEF def, legal
  <2>8. Listed(def, i)
    BY <2>2, <2>3, <2>6 DEF Listed
  <2>9. \A n \in DOMAIN def.nested : Listed(def.nested[n], i)
    BY <2>4, <2>5, <2>7 DEF Listed
  <2>10. Len(def.nested) \in Nat /\ DOMAIN def.nested = 1..Len(def.nested)
    BY <2>2
  <2>11. ASSUME NEW n \in DOMAIN def.nested, NEW m \in Inner(def, n) PROVE m \in 1..(n - 1)
    <3>1. m \in DOMAIN def.nested /\ def.nested[m].parent = n
      BY DEF Inner
    <3>2. n \in (m + 1)..Len(def.nested)
      BY <2>b, <2>10, <3>1
    <3> QED
      BY <2>10, <3>1, <3>2
  <2>12. Nesting(def)
    BY <2>5, <2>6, <2>7, <2>10, <2>11 DEF Nesting
  <2> QED
    BY <2>2, <2>8, <2>9, <2>12 DEF def
<1> QED
  BY <1>2, <1>4, <1>5

LEMMA FieldFacts ==
  ASSUME NEW d, NEW i, Listed(d, i), NEW k \in DOMAIN d.fields
  PROVE  /\ d.fields[k].kind \in {"native", "pointer", "ref", "nested"}
         /\ d.fields[k].size \in Nat /\ d.fields[k].len \in Nat \ {0} /\ d.fields[k].to \in Nat
         /\ d.fields[k].severed \in BOOLEAN
<1>1. d.fields[k] \in Field
  BY DEF Listed
<1> QED
  BY <1>1 DEF Field

-----------------------------------------------------------------------------
(* Induction *)

\* Induction over a set of naturals.
LEMMA AllNaturals ==
  ASSUME NEW T \in SUBSET Nat, 0 \in T, \A n \in T : n + 1 \in T
  PROVE  T = Nat
<1> DEFINE U == Nat \ T
<1>1. PICK R : IsWellFoundedOn(R, Nat) /\ \A x, y \in Nat : x < y => <<x, y>> \in R
  <2>1. IsWellFoundedOn(OpToRel(<, Nat), Nat)
    BY NatLessThanWellFounded, Zenon
  <2>2. \A x, y \in Nat : x < y => <<x, y>> \in OpToRel(<, Nat)
    BY Zenon DEF OpToRel
  <2> QED
    BY <2>1, <2>2, Zenon
<1>2. SUFFICES ASSUME U # {} PROVE FALSE
  OBVIOUS
<1>3. PICK x \in U : \A y \in U : ~(<<y, x>> \in R)
  <2>1. IsWellFoundedOn(R, Nat) /\ U \subseteq Nat
    BY <1>1
  <2> QED
    BY <1>2, <2>1, WFMin, Zenon
<1>4. x # 0 /\ x \in Nat
  OBVIOUS
<1>5. x - 1 \in Nat /\ x - 1 < x /\ (x - 1) + 1 = x
  BY <1>4
<1>6. x - 1 \in T
  BY <1>1, <1>3, <1>4, <1>5
<1> QED
  BY <1>5, <1>6

\* Strong induction over the naturals.
LEMMA FromBelow ==
  ASSUME NEW T, \A n \in Nat : (\A m \in Nat : m < n => m \in T) => n \in T
  PROVE  \A n \in Nat : n \in T
<1> DEFINE B == {n \in Nat : \A m \in Nat : m < n => m \in T}
<1>1. B \in SUBSET Nat /\ 0 \in B
  OBVIOUS
<1>2. ASSUME NEW n \in B PROVE n + 1 \in B
  <2>1. n \in T
    OBVIOUS
  <2>2. ASSUME NEW m \in Nat, m < n + 1 PROVE m \in T
    <3>1. m < n \/ m = n
      BY <2>2
    <3> QED
      BY <2>1, <3>1
  <2> QED
    BY <2>2
<1>3. B = Nat
  <2> HIDE DEF B
  <2> QED
    BY <1>1, <1>2, AllNaturals
<1> QED
  BY <1>3

\* A set of naturals has a least, ...

-----------------------------------------------------------------------------
(* Recursive functions over naturals exist *)

\* H takes a function to the next approximation of it: what it is at x depends on
\* what is below x.
Approximates(H, I, V) ==
  /\ H \in [[I -> V] -> [I -> V]]
  /\ \A f, g \in [I -> V] : \A x \in I : (\A y \in I : y < x => f[y] = g[y]) => H[f][x] = H[g][x]
HasFixpoint(H, I, V) == \E f : f \in [I -> V] /\ f = H[f]

\* A function whose values depend on those below them exists: what TLA+ needs to
\* know of the recursive functions of this specification, which choose one.
LEMMA Recursion ==
  ASSUME NEW N \in Nat, NEW I \in SUBSET (0..N), NEW V, NEW v0 \in V, NEW H, Approximates(H, I, V)
  PROVE  HasFixpoint(H, I, V)
<1> USE DEF Approximates
<1> DEFINE T == {n \in Nat : \E f \in [I -> V] : \A x \in I : x < n => f[x] = H[f][x]}
<1>1. 0 \in T
  <2> DEFINE f == [x \in I |-> v0]
  <2>1. f \in [I -> V] /\ \A x \in I : ~(x < 0)
    OBVIOUS
  <2> HIDE DEF f
  <2> QED
    BY <2>1
<1>2. ASSUME NEW n \in T PROVE n + 1 \in T
  <2>1. PICK f \in [I -> V] : \A x \in I : x < n => f[x] = H[f][x]
    OBVIOUS
  <2> DEFINE g == H[f]
  <2>2. g \in [I -> V] /\ n \in Nat
    OBVIOUS
  <2>3. ASSUME NEW x \in I, x < n + 1 PROVE g[x] = H[g][x]
    <3>1. ASSUME NEW y \in I, y < x PROVE g[y] = f[y]
      <4>1. y < n
        BY <2>2, <2>3, <3>1
      <4> QED
        BY <2>1, <4>1
    <3> QED
      BY <2>2, <3>1
  <2> HIDE DEF g
  <2> QED
    BY <2>2, <2>3
<1>3. T = Nat
  <2>1. T \in SUBSET Nat
    OBVIOUS
  <2> HIDE DEF T
  <2> QED
    BY <1>1, <1>2, <2>1, AllNaturals
<1>4. PICK f \in [I -> V] : \A x \in I : x < N + 1 => f[x] = H[f][x]
  <2>1. N + 1 \in T
    <3> HIDE DEF T
    <3> QED
      BY <1>3
  <2> QED
    BY <2>1
<1>5. \A x \in I : f[x] = H[f][x]
  BY <1>4
<1>6. PICK g \in [I -> V] : g = H[f]
  OBVIOUS
<1>7. f = g
  <2>1. \A x \in I : f[x] = g[x]
    BY <1>5, <1>6
  <2>2. f = [x \in I |-> f[x]] /\ g = [x \in I |-> g[x]]
    OBVIOUS
  <2> QED
    BY <2>1, <2>2
<1>8. f = H[f]
  BY <1>6, <1>7
<1> QED
  BY <1>8 DEF HasFixpoint

\* What holds of a nested type when it holds of those nested in it holds of all.
LEMMA FromInside ==
  ASSUME NEW def, Nesting(def), NEW T, \A n \in DOMAIN def.nested : (\A m \in Inner(def, n) : m \in T) => n \in T
  PROVE  \A n \in DOMAIN def.nested : n \in T
<1> DEFINE U == {n \in Nat : n \in DOMAIN def.nested => n \in T}
<1>1. DOMAIN def.nested \subseteq Nat /\ \A n \in DOMAIN def.nested : \A m \in Inner(def, n) : m \in Nat /\ m < n /\ m \in DOMAIN def.nested
  BY DEF Nesting
<1>2. ASSUME NEW n \in Nat, \A m \in Nat : m < n => m \in U PROVE n \in U
  BY <1>1, <1>2
<1>3. \A n \in Nat : n \in U
  <2> HIDE DEF U
  <2> QED
    BY <1>2, FromBelow
<1> QED
  BY <1>1, <1>3

\* A recursive function over the nested types exists when what it is of one depends
\* on what it is of those nested in it.
LEMMA NestedRecursion ==
  ASSUME NEW def, Nesting(def), NEW V, NEW v0 \in V, NEW H,
         H \in [[DOMAIN def.nested -> V] -> [DOMAIN def.nested -> V]],
         \A f, g \in [DOMAIN def.nested -> V] : \A n \in DOMAIN def.nested :
           (\A m \in Inner(def, n) : f[m] = g[m]) => H[f][n] = H[g][n]
  PROVE  HasFixpoint(H, DOMAIN def.nested, V)
<1>1. Len(def.nested) \in Nat /\ DOMAIN def.nested = 1..Len(def.nested)
  BY DEF Nesting
<1>2. \A n \in DOMAIN def.nested : \A m \in Inner(def, n) : m < n /\ m \in DOMAIN def.nested
  BY DEF Nesting
<1>3. Approximates(H, DOMAIN def.nested, V)
  BY <1>2 DEF Approximates
<1>4. DOMAIN def.nested \in SUBSET (0..Len(def.nested))
  BY <1>1
<1> QED
  BY <1>1, <1>3, <1>4, Recursion

-----------------------------------------------------------------------------
(* The least and the greatest of naturals *)

LEMMA LeastOf ==
  ASSUME NEW S \in SUBSET Nat, S # {}
  PROVE  Min(S) \in S /\ \A y \in S : Min(S) <= y
<1>1. SUFFICES ASSUME \A x \in S : \E y \in S : y < x PROVE FALSE
  <2>1. (\E x \in S : \A y \in S : x <= y) => Min(S) \in S /\ \A y \in S : Min(S) <= y
    BY DEF Min
  <2>2. ~(\A x \in S : \E y \in S : y < x) => \E x \in S : \A y \in S : x <= y
    OBVIOUS
  <2> QED
    BY <2>1, <2>2
<1> DEFINE T == Nat \ S
<1>2. \A n \in Nat : (\A m \in Nat : m < n => m \in T) => n \in T
  BY <1>1
<1>3. \A n \in Nat : n \in T
  <2> HIDE DEF T
  <2> QED
    BY <1>2, FromBelow
<1> QED
  BY <1>3

\* ... and when they are bounded a greatest.
LEMMA GreatestOf ==
  ASSUME NEW S \in SUBSET Nat, S # {}, NEW b \in Nat, \A y \in S : y <= b
  PROVE  Max(S) \in S /\ \A y \in S : y <= Max(S)
<1> DEFINE T == {b - y : y \in S}
<1>1. T \in SUBSET Nat /\ T # {}
  <2>1. \A y \in S : b - y \in Nat
    OBVIOUS
  <2> QED
    BY <2>1
<1>2. Min(T) \in T /\ \A y \in T : Min(T) <= y
  BY <1>1, LeastOf
<1>3. PICK x \in S : Min(T) = b - x
  BY <1>2
<1>4. \A y \in S : x >= y
  <2> TAKE y \in S
  <2>1. b - x <= b - y
    BY <1>2, <1>3
  <2> QED
    BY <2>1
<1> QED
  BY <1>4 DEF Max

-----------------------------------------------------------------------------
(* Variants *)

\* A pick is none or a variant.
LEMMA PickFacts ==
  ASSUME RegistryOK, NEW i \in Idx, NEW arch
  PROVE  pickVariant(i, arch) = 0 \/ pickVariant(i, arch) \in DOMAIN registry[i].variants
<1>1. \A a : find(i, a) = 0 \/ find(i, a) \in DOMAIN registry[i].variants
  <2> TAKE a
  <2> DEFINE listing == {v \in DOMAIN registry[i].variants :
                    registry[i].variants[v].arches = {} \/ a \in registry[i].variants[v].arches}
  <2>1. listing \in SUBSET Nat
    BY RegistryFacts
  <2>2. listing # {} => Min(listing) \in listing
    BY <2>1, LeastOf
  <2>3. find(i, a) = IF listing = {} THEN 0 ELSE Min(listing)
    BY DEF find
  <2> QED
    BY <2>2, <2>3
<1> QED
  BY <1>1 DEF pickVariant

-----------------------------------------------------------------------------
(* Whether a struct can be emitted, given the skipped ones *)

\* A field is lost with a nested type that is not emitted, and with a reference
\* that degrades and has no bytes to degrade to.
Solid(l) == l.ok /\ l.size # 0
FieldLost(f, structs, en, S) ==
  \/ f.kind = "nested" /\ f.to \notin en
  \/ f.kind = "ref" /\ (f.severed \/ f.to \in S) /\ ~Solid(ArrayOf(structs[f.to], f.len))
Opaque(d, ls) ==
  LET packed  == structLayoutOf(ls, d.union, d.pack)
      natural == structLayoutOf(ls, d.union, 0)
  IN  d.union \/ (packed.ok /\ natural.ok /\ ~sameLayout(packed, natural))
DeclOK(d, ls, structs, en, S) ==
  IF Opaque(d, ls) THEN Solid(structLayoutOf(ls, d.union, d.pack))
  ELSE \A k \in DOMAIN d.fields : ~FieldLost(d.fields[k], structs, en, S)
Fields(d, def, structs) == fieldLayouts(d, structs, nestedLayouts(def, structs))
GoTypes(d, structs, en, S) == [k \in DOMAIN d.fields |-> fieldGoType(d.fields[k], structs, en, S)]
TreeOK(def, structs, S) == DeclOK(def, Fields(def, def, structs), structs, NestedEmitted(def, 0, Subs(def, structs, S)), S)

\* What is known of the kinds of the fields of a variant.
FieldKinds(d) == \A k \in DOMAIN d.fields : d.fields[k].kind \in {"native", "pointer", "ref", "nested"}
Kinds(def) == FieldKinds(def) /\ \A n \in DOMAIN def.nested : FieldKinds(def.nested[n])

\* The fields of a variant and of its nested types are of the four kinds.
LEMMA VariantKinds ==
  ASSUME RegistryOK, NEW i \in Idx, NEW v \in DOMAIN registry[i].variants
  PROVE  Kinds(registry[i].variants[v]) /\ Nesting(registry[i].variants[v])
<1>1. Listed(registry[i].variants[v], i) /\ \A n \in DOMAIN registry[i].variants[v].nested : Listed(registry[i].variants[v].nested[n], i)
  BY RegistryFacts
<1>2. Kinds(registry[i].variants[v])
  BY <1>1, FieldFacts DEF Kinds, FieldKinds
<1> QED
  BY <1>2, RegistryFacts

\* Bytes of an unknown size, or of none, are no type.
LEMMA BlobIs ==
  ASSUME NEW l
  PROVE  blob(l) = Unresolved <=> ~Solid(l)
BY DEF blob, Solid, Unresolved, GoMemory

\* A field has no Go type exactly when it is lost.
LEMMA FieldIs ==
  ASSUME NEW f, f.kind \in {"native", "pointer", "ref", "nested"}, NEW structs, NEW en, NEW S
  PROVE  fieldGoType(f, structs, en, S) = Unresolved <=> FieldLost(f, structs, en, S)
<1>1. \A l : blob(l) = Unresolved <=> ~Solid(l)
  BY BlobIs
<1>2. \A x, y : GoMemory(x, y) # Unresolved
  BY DEF GoMemory, Unresolved
<1>3. \A x, y : GoNamed("pointer", x, y) # Unresolved /\ GoNamed("nested", x, y) # Unresolved /\ GoNamed("ref", x, y) # Unresolved
  BY DEF GoNamed, Unresolved
<1>4. CASE f.kind = "native"
  BY <1>2, <1>4 DEF fieldGoType, FieldLost
<1>5. CASE f.kind = "pointer"
  BY <1>2, <1>3, <1>5 DEF fieldGoType, FieldLost
<1>6. CASE f.kind = "ref"
  BY <1>1, <1>3, <1>6 DEF fieldGoType, FieldLost, Degraded
<1>7. CASE f.kind = "nested"
  BY <1>3, <1>7 DEF fieldGoType, FieldLost
<1> QED
  BY <1>4, <1>5, <1>6, <1>7

\* What a declaration's fields have to be for it to be there.
Resolved(d, ls, goTypes) ==
  IF Opaque(d, ls) THEN Solid(structLayoutOf(ls, d.union, d.pack)) ELSE \A k \in DOMAIN goTypes : goTypes[k] # Unresolved

\* What a declaration is, apart from the layouts it is computed from.
LEMMA DeclareIs ==
  ASSUME NEW d, NEW ls, NEW goTypes
  PROVE  /\ Declare(d, ls, goTypes).ok <=> Resolved(d, ls, goTypes)
         /\ Declare(d, ls, goTypes).opaque = Opaque(d, ls)
         /\ Declare(d, ls, goTypes).fields = IF Opaque(d, ls) THEN <<blob(structLayoutOf(ls, d.union, d.pack))>> ELSE goTypes
<1> DEFINE packed  == structLayoutOf(ls, d.union, d.pack)
           fields  == IF Opaque(d, ls) THEN <<blob(packed)>> ELSE goTypes
<1>1. Declare(d, ls, goTypes) = [ok |-> \A k \in DOMAIN fields : fields[k] # Unresolved, opaque |-> Opaque(d, ls), fields |-> fields]
  BY DEF Declare, Opaque
<1>2. \A x : DOMAIN <<x>> = {1} /\ <<x>>[1] = x
  OBVIOUS
<1>3. (\A k \in DOMAIN fields : fields[k] # Unresolved) <=> Resolved(d, ls, goTypes)
  <2> HIDE DEF packed
  <2> QED
    BY <1>2, BlobIs DEF Resolved, packed
<1> HIDE DEF fields, packed
<1> QED
  BY <1>1, <1>3 DEF fields, packed

\* It says whether it is opaque.
LEMMA OpaqueIs == \A d, ls, goTypes : Declare(d, ls, goTypes).opaque = Opaque(d, ls)
BY DEF Declare, Opaque

\* A declaration of the struct or of a nested type.
LEMMA OneIs ==
  ASSUME NEW d, FieldKinds(d), NEW def, NEW structs, NEW en, NEW S
  PROVE  /\ DeclareOne(d, def, structs, en, S).ok <=> DeclOK(d, Fields(d, def, structs), structs, en, S)
         /\ DeclareOne(d, def, structs, en, S).opaque = Opaque(d, Fields(d, def, structs))
         /\ DeclareOne(d, def, structs, en, S) = Declare(d, Fields(d, def, structs), GoTypes(d, structs, en, S))
<1> DEFINE ls == Fields(d, def, structs)
           g == GoTypes(d, structs, en, S)
<1>1. \A k \in DOMAIN d.fields : g[k] = Unresolved <=> FieldLost(d.fields[k], structs, en, S)
  BY FieldIs DEF GoTypes, FieldKinds
<1>2. DeclareOne(d, def, structs, en, S) = Declare(d, ls, g) /\ DOMAIN g = DOMAIN d.fields
  BY DEF DeclareOne, GoTypes, Fields
<1> HIDE DEF ls, g
<1>3. Resolved(d, ls, g) <=> DeclOK(d, ls, structs, en, S)
  BY <1>1, <1>2 DEF Resolved, DeclOK
<1>4. Declare(d, ls, g).ok <=> Resolved(d, ls, g)
  BY DeclareIs
<1>5. Declare(d, ls, g).opaque = Opaque(d, ls)
  BY OpaqueIs
<1> QED
  BY <1>2, <1>3, <1>4, <1>5 DEF ls, g

\* What building a nested type returns, given what building the earlier ones did.
OneOf(def, structs, S, n, sub) == DeclareOne(def.nested[n], def, structs, NestedEmitted(def, n, sub), S)
SubAt(def, structs, S, n, sub) ==
  IF ~def.nested[n].free THEN {} ELSE Sub(n, OneOf(def, structs, S, n, sub), UNION {sub[m] : m \in Inner(def, n)})

\* The recursion ends: every nested type returns some of the nested types.
LEMMA SubsFacts ==
  ASSUME NEW def, Nesting(def), NEW structs, NEW S
  PROVE  /\ Subs(def, structs, S) \in [DOMAIN def.nested -> SUBSET DOMAIN def.nested]
         /\ \A n \in DOMAIN def.nested : Subs(def, structs, S)[n] = SubAt(def, structs, S, n, Subs(def, structs, S))
<1> DEFINE I == DOMAIN def.nested
           C == Subs(def, structs, S)
           H == [f \in [I -> SUBSET I] |-> [n \in I |-> SubAt(def, structs, S, n, f)]]
<1>1. Len(def.nested) \in Nat /\ I = 1..Len(def.nested) /\ \A n \in I : \A m \in Inner(def, n) : m \in I /\ m < n
  BY DEF Nesting
<1>2. ASSUME NEW f, NEW n \in I, \A m \in I : m < n => f[m] \subseteq I PROVE SubAt(def, structs, S, n, f) \subseteq I
  <2>1. UNION {f[m] : m \in Inner(def, n)} \subseteq I
    BY <1>1, <1>2
  <2>2. \A one, u : u \subseteq I => Sub(n, one, u) \subseteq I
    BY DEF Sub
  <2> QED
    BY <2>1, <2>2 DEF SubAt
<1>3. ASSUME NEW f, NEW g, NEW x \in I, \A y \in I : y < x => f[y] = g[y] PROVE SubAt(def, structs, S, x, f) = SubAt(def, structs, S, x, g)
  <2>1. \A m \in Inner(def, x) : f[m] = g[m]
    BY <1>1, <1>3
  <2>2. NestedEmitted(def, x, f) = NestedEmitted(def, x, g)
    BY <2>1 DEF NestedEmitted
  <2>3. {f[m] : m \in Inner(def, x)} = {g[m] : m \in Inner(def, x)}
    BY <2>1
  <2> QED
    BY <2>2, <2>3 DEF SubAt, OneOf
<1>4. HasFixpoint(H, I, SUBSET I)
  <2>1. \A f \in [I -> SUBSET I] : [n \in I |-> SubAt(def, structs, S, n, f)] \in [I -> SUBSET I]
    BY <1>2
  <2>2. \A f, g \in [I -> SUBSET I] : \A x \in I : (\A y \in I : y < x => f[y] = g[y]) =>
          [n \in I |-> SubAt(def, structs, S, n, f)][x] = [n \in I |-> SubAt(def, structs, S, n, g)][x]
    BY <1>3
  <2>3. Approximates(H, I, SUBSET I)
    BY <2>1, <2>2 DEF Approximates
  <2>4. I \in SUBSET (0..Len(def.nested)) /\ {} \in SUBSET I
    BY <1>1
  <2> HIDE DEF H, I
  <2> QED
    BY <1>1, <2>3, <2>4, Recursion
<1>5. PICK f : f \in [I -> SUBSET I] /\ f = [n \in I |-> SubAt(def, structs, S, n, f)]
  BY <1>4 DEF HasFixpoint
<1>6. C = CHOOSE sub : sub = [n \in I |-> SubAt(def, structs, S, n, sub)]
  BY DEF Subs, SubAt, OneOf
<1>7. C = [n \in I |-> SubAt(def, structs, S, n, C)]
  <2> HIDE DEF C, I
  <2> QED
    BY <1>5, <1>6
<1> HIDE DEF C, H
<1> DEFINE T == {n \in Nat : n \in I => C[n] \subseteq I}
<1>8. ASSUME NEW n \in Nat, \A m \in Nat : m < n => m \in T PROVE n \in T
  <2> SUFFICES ASSUME n \in I PROVE C[n] \subseteq I
    OBVIOUS
  <2>1. \A m \in I : m < n => C[m] \subseteq I
    BY <1>1, <1>8
  <2> HIDE DEF I
  <2>2. C[n] = SubAt(def, structs, S, n, C)
    BY <1>7
  <2> QED
    BY <1>2, <2>1, <2>2
<1>9. \A n \in Nat : n \in T
  <2> HIDE DEF T
  <2> QED
    BY <1>8, FromBelow
<1>10. \A n \in I : C[n] \subseteq I
  BY <1>1, <1>9
<1> HIDE DEF T
<1>11. C \in [I -> SUBSET I] /\ \A n \in I : C[n] = SubAt(def, structs, S, n, C)
  <2> HIDE DEF I
  <2> QED
    BY <1>7, <1>10
<1> QED
  BY <1>11 DEF C

\* With fewer of the references skipped nothing is lost that was not.
LEMMA DeclMono ==
  ASSUME NEW d, NEW ls, NEW structs, NEW S, NEW S2, NEW en, NEW en2, en2 \subseteq en,
         \A j \in RefsOf(d) : j \in S => j \in S2, DeclOK(d, ls, structs, en2, S2)
  PROVE  DeclOK(d, ls, structs, en, S)
<1>1. \A k \in DOMAIN d.fields : d.fields[k].kind = "ref" => d.fields[k].to \in RefsOf(d)
  BY DEF RefsOf
<1>2. \A k \in DOMAIN d.fields : FieldLost(d.fields[k], structs, en, S) => FieldLost(d.fields[k], structs, en2, S2)
  BY <1>1 DEF FieldLost
<1> QED
  BY <1>2 DEF DeclOK

\* So every nested type returns what it did, ...
LEMMA SubsMono ==
  ASSUME NEW def, Nesting(def), Kinds(def), NEW structs, NEW S, NEW S2, \A j \in ByValue(def) : j \in S => j \in S2
  PROVE  \A n \in DOMAIN def.nested : Subs(def, structs, S2)[n] \subseteq Subs(def, structs, S)[n]
<1> DEFINE A == Subs(def, structs, S)
           B == Subs(def, structs, S2)
           I == DOMAIN def.nested
           T == {n \in Nat : n \in I => B[n] \subseteq A[n]}
<1>1. I \subseteq Nat /\ \A n \in I : \A m \in Inner(def, n) : m \in I /\ m < n
  BY DEF Nesting
<1>2. \A n \in I : A[n] = SubAt(def, structs, S, n, A) /\ B[n] = SubAt(def, structs, S2, n, B)
  BY SubsFacts
<1> HIDE DEF A, B
<1>3. ASSUME NEW n \in Nat, \A m \in Nat : m < n => m \in T PROVE n \in T
  <2> SUFFICES ASSUME n \in I PROVE B[n] \subseteq A[n]
    OBVIOUS
  <2>1. \A m \in Inner(def, n) : B[m] \subseteq A[m]
    BY <1>1, <1>3
  <2>2. NestedEmitted(def, n, B) \subseteq NestedEmitted(def, n, A)
    BY <2>1 DEF NestedEmitted
  <2>3. UNION {B[m] : m \in Inner(def, n)} \subseteq UNION {A[m] : m \in Inner(def, n)}
    BY <2>1
  <2>4. \A j \in RefsOf(def.nested[n]) : j \in ByValue(def)
    BY DEF ByValue
  <2> DEFINE x == OneOf(def, structs, S, n, A)
             y == OneOf(def, structs, S2, n, B)
  <2>5. y.ok => x.ok
    BY <2>2, <2>4, OneIs, DeclMono DEF OneOf, Kinds
  <2>6. y.opaque = x.opaque
    BY OneIs DEF OneOf, Kinds
  <2> HIDE DEF x, y, T
  <2>7. Sub(n, y, UNION {B[m] : m \in Inner(def, n)}) \subseteq Sub(n, x, UNION {A[m] : m \in Inner(def, n)})
    BY <2>3, <2>5, <2>6 DEF Sub
  <2> QED
    BY <1>2, <2>7 DEF SubAt, x, y
<1>4. \A n \in Nat : n \in T
  <2> HIDE DEF T
  <2> QED
    BY <1>3, FromBelow
<1>5. \A n \in I : B[n] \subseteq A[n]
  BY <1>1, <1>4
<1> QED
  BY <1>5 DEF A, B

\* ... and a struct is no worse off.
LEMMA TreeMono ==
  ASSUME NEW def, Nesting(def), Kinds(def), NEW structs, NEW S, NEW S2, \A j \in ByValue(def) : j \in S => j \in S2, TreeOK(def, structs, S2)
  PROVE  TreeOK(def, structs, S)
<1>1. \A n \in DOMAIN def.nested : Subs(def, structs, S2)[n] \subseteq Subs(def, structs, S)[n]
  BY SubsMono
<1>2. NestedEmitted(def, 0, Subs(def, structs, S2)) \subseteq NestedEmitted(def, 0, Subs(def, structs, S))
  BY <1>1 DEF NestedEmitted, Inner
<1>3. \A j \in RefsOf(def) : j \in ByValue(def)
  BY DEF ByValue
<1> QED
  BY <1>2, <1>3, DeclMono DEF TreeOK

\* The nested types declared with a struct.
Kept(def, structs, S) ==
  IF Opaque(def, Fields(def, def, structs)) THEN {} ELSE UNION {Subs(def, structs, S)[m] : m \in Inner(def, 0)}

\* A struct is emitted exactly when its own declaration is, over the nested types
\* that are; what building the nested ones returned is declared with it, or
\* without it.
LEMMA TreeIs ==
  ASSUME NEW def, Kinds(def), NEW structs, NEW S
  PROVE  LET d == buildStructTree(def, structs, S)
             sub == Subs(def, structs, S)
         IN  /\ d.ok <=> TreeOK(def, structs, S)
             /\ d.self = Declare(def, Fields(def, def, structs), GoTypes(def, structs, NestedEmitted(def, 0, sub), S))
             /\ d.ok = d.self.ok
             /\ DOMAIN d.nested = Kept(def, structs, S) /\ \A n \in Kept(def, structs, S) : d.nested[n] = OneOf(def, structs, S, n, sub)
<1> DEFINE sub == Subs(def, structs, S)
           one == DeclareOne(def, def, structs, NestedEmitted(def, 0, sub), S)
           kept == IF one.opaque THEN {} ELSE UNION {sub[m] : m \in Inner(def, 0)}
           rest == [n \in kept |-> OneOf(def, structs, S, n, sub)]
<1>1. buildStructTree(def, structs, S) = [ok |-> one.ok, self |-> one, nested |-> rest]
  BY DEF buildStructTree, OneOf
<1>2. /\ one.ok <=> TreeOK(def, structs, S)
      /\ one.opaque = Opaque(def, Fields(def, def, structs))
      /\ one = Declare(def, Fields(def, def, structs), GoTypes(def, structs, NestedEmitted(def, 0, sub), S))
  BY OneIs DEF Kinds, TreeOK
<1>3. DOMAIN rest = Kept(def, structs, S) /\ \A n \in DOMAIN rest : rest[n] = OneOf(def, structs, S, n, sub)
  BY <1>2 DEF Kept
<1>4. PICK r : r = rest
  OBVIOUS
<1>5. PICK o : o = one
  OBVIOUS
<1>6. buildStructTree(def, structs, S) = [ok |-> o.ok, self |-> o, nested |-> r]
  BY <1>1, <1>4, <1>5
<1> QED
  BY <1>2, <1>3, <1>4, <1>5, <1>6

\* What is built for the architecture, and whether the struct is emitted for it,
\* when S are skipped.
Engine(i, arch) == IF i \in archStructs THEN arch ELSE "amd64"
Built(i, arch, S) ==
  LET v == pickVariant(i, Engine(i, arch))
  IN  IF v = 0 THEN [ok |-> FALSE, nested |-> << >>] ELSE buildStructTree(registry[i].variants[v], layouts(Engine(i, arch)), S)
OkIn(i, arch, S) ==
  LET v == pickVariant(i, Engine(i, arch))
  IN  v # 0 /\ TreeOK(registry[i].variants[v], layouts(Engine(i, arch)), S)

\* Declared goes by the skipped types of its state alone.
LEMMA DeclaredIs ==
  ASSUME NEW i, NEW arch
  PROVE  /\ Declared(i, arch) = Built(i, arch, skipped)
         /\ UNCHANGED <<registry, archStructs>> => Declared(i, arch)' = Built(i, arch, skipped')
<1>1. Declared(i, arch) = Built(i, arch, skipped)
  BY DEF Declared, Build, Built, Engine
<1>2. ASSUME UNCHANGED <<registry, archStructs>> PROVE Declared(i, arch)' = Built(i, arch, skipped')
  <2> DEFINE a == Engine(i, arch)
             v == pickVariant(i, a)
  <2>1. \A e : layouts(e)' = layouts(e)
    BY <1>2 DEF layouts, Idx, pickVariant, find
  <2>2. \A e : pickVariant(i, e)' = pickVariant(i, e)
    BY <1>2 DEF pickVariant, find
  <2>3. Declared(i, arch)' = Build(i, a)'
    BY <1>2 DEF Declared, Engine
  <2>4. PICK x : x = layouts(a)
    OBVIOUS
  <2>5. PICK w : w = pickVariant(i, a)
    OBVIOUS
  <2>6. layouts(a)' = x /\ pickVariant(i, a)' = w
    <3>1. a' = a
      BY <1>2 DEF Engine
    <3> HIDE DEF a
    <3> QED
      BY <2>1, <2>2, <2>4, <2>5, <3>1
  <2>7. Build(i, a)' = IF w = 0 THEN [ok |-> FALSE, nested |-> << >>] ELSE buildStructTree(registry[i].variants[w], x, skipped')
    <3>1. a' = a
      BY <1>2 DEF Engine
    <3> HIDE DEF a
    <3> QED
      BY <1>2, <2>6, <3>1 DEF Build
  <2>8. Built(i, arch, skipped') = IF w = 0 THEN [ok |-> FALSE, nested |-> << >>] ELSE buildStructTree(registry[i].variants[w], x, skipped')
    BY <2>4, <2>5 DEF Built
  <2> QED
    BY <2>3, <2>7, <2>8
<1> QED
  BY <1>1, <1>2

\* ... and so does whether the struct is.
LEMMA BuiltOK ==
  ASSUME RegistryOK, NEW i \in Idx, NEW arch, NEW S
  PROVE  Built(i, arch, S).ok <=> OkIn(i, arch, S)
<1> DEFINE v == pickVariant(i, Engine(i, arch))
<1>1. v = 0 \/ v \in DOMAIN registry[i].variants
  BY PickFacts
<1>2. CASE v = 0
  BY <1>2 DEF Built, OkIn
<1>3. CASE v # 0
  <2> DEFINE def == registry[i].variants[v]
             s == layouts(Engine(i, arch))
  <2>1. Kinds(def)
    BY <1>1, <1>3, VariantKinds
  <2>2. Built(i, arch, S) = buildStructTree(def, s, S)
    BY <1>3 DEF Built
  <2>3. OkIn(i, arch, S) <=> TreeOK(def, s, S)
    BY <1>3 DEF OkIn
  <2> HIDE DEF def, s
  <2>4. buildStructTree(def, s, S).ok <=> TreeOK(def, s, S)
    BY <2>1, TreeIs
  <2> QED
    BY <2>2, <2>3, <2>4
<1> QED
  BY <1>2, <1>3

\* Whether a struct is emitted, before and after a step that keeps the metadata.
LEMMA DeclaredOK ==
  ASSUME RegistryOK, NEW i \in Idx, NEW arch
  PROVE  /\ Declared(i, arch).ok <=> OkIn(i, arch, skipped)
         /\ UNCHANGED <<registry, archStructs>> => (Declared(i, arch)'.ok <=> OkIn(i, arch, skipped'))
<1>1. PICK s : s = skipped'
  OBVIOUS
<1>2. (Built(i, arch, s).ok <=> OkIn(i, arch, s)) /\ (Built(i, arch, skipped).ok <=> OkIn(i, arch, skipped))
  BY BuiltOK
<1> QED
  BY <1>1, <1>2, DeclaredIs

\* With fewer skipped it still is.
LEMMA OkMono ==
  ASSUME RegistryOK, NEW i \in Idx, NEW arch, NEW S, NEW S2, OkIn(i, arch, S2),
         \A v \in DOMAIN registry[i].variants : \A j \in ByValue(registry[i].variants[v]) : j \in S => j \in S2
  PROVE  OkIn(i, arch, S)
<1> DEFINE v == pickVariant(i, Engine(i, arch))
           def == registry[i].variants[v]
<1>1. v \in DOMAIN registry[i].variants /\ v # 0
  BY PickFacts DEF OkIn
<1>2. Kinds(def) /\ Nesting(def)
  BY <1>1, VariantKinds
<1>3. TreeOK(def, layouts(Engine(i, arch)), S2)
  BY DEF OkIn
<1>4. \A j \in ByValue(def) : j \in S => j \in S2
  BY <1>1
<1> HIDE DEF def
<1>5. TreeOK(def, layouts(Engine(i, arch)), S)
  BY <1>2, <1>3, <1>4, TreeMono
<1> QED
  BY <1>1, <1>5 DEF OkIn, def

-----------------------------------------------------------------------------
(* The phases *)

Inv == RegistryOK /\ IInv

\* What stays with the metadata.
LEMMA RegistrySame ==
  ASSUME UNCHANGED registry
  PROVE  /\ \A i, arch : pickVariant(i, arch)' = pickVariant(i, arch)
         /\ \A arch : layouts(arch)' = layouts(arch)
         /\ Idx' = Idx /\ Namespaces' = Namespaces
         /\ \A n : InNamespace(n)' = InNamespace(n)
<1>1. \A i, arch : pickVariant(i, arch)' = pickVariant(i, arch)
  BY DEF pickVariant, find
<1>2. \A arch : layouts(arch)' = layouts(arch)
  BY DEF layouts, Idx, pickVariant, find
<1>3. Idx' = Idx /\ Namespaces' = Namespaces /\ \A n : InNamespace(n)' = InNamespace(n)
  BY DEF Idx, Namespaces, InNamespace
<1> QED
  BY <1>1, <1>2, <1>3

\* ... and what with the two fixpoints.
LEMMA DeclaredSame ==
  ASSUME UNCHANGED <<registry, archStructs, skipped>>
  PROVE  /\ \A i, arch : Declared(i, arch)' = Declared(i, arch)
         /\ \A i : Emits(i)' <=> Emits(i)
<1>1. \A i, arch : Declared(i, arch)' = Declared(i, arch)
  BY DeclaredIs
<1>2. \A i : Emits(i)' <=> Emits(i)
  BY <1>1 DEF Emits, emitArches
<1> QED
  BY <1>1, <1>2

\* Past the last namespace every struct's is behind.
LEMMA NamespaceFacts ==
  ASSUME RegistryOK, TypeOK
  PROVE  /\ ns \in Nat \ {0} /\ Cardinality(Namespaces) \in Nat
         /\ ns \notin Namespaces => \A i \in Idx : registry[i].ns < ns
         /\ ns \in Namespaces => ns + 1 \in 1..(Cardinality(Namespaces) + 1)
<1>1. IsFiniteSet(Namespaces)
  <2>1. IsFiniteSet(Idx)
    BY RegistryFacts, FS_Interval
  <2> DEFINE f == [i \in Idx |-> registry[i].ns]
  <2>2. f \in Surjection(Idx, Namespaces)
    BY DEF Surjection, Namespaces
  <2> HIDE DEF f
  <2> QED
    BY <2>1, <2>2, FS_Surjection
<1>2. Cardinality(Namespaces) \in Nat
  BY <1>1, FS_CardinalityType
<1>3. ns \in Nat \ {0}
  BY <1>2 DEF TypeOK
<1>4. \A i \in Idx : registry[i].ns \in Nat /\ \A n \in 1..registry[i].ns : n \in Namespaces
  BY RegistryFacts, NamespacesAssumption DEF RegistryOK, Namespaces, Idx
<1>5. ASSUME ns \notin Namespaces PROVE \A i \in Idx : registry[i].ns < ns
  BY <1>3, <1>4, <1>5
<1>6. ASSUME ns \in Namespaces PROVE ns <= Cardinality(Namespaces)
  <2>1. 1..ns \subseteq Namespaces
    BY <1>4, <1>6 DEF Namespaces
  <2>2. IsFiniteSet(1..ns) /\ Cardinality(1..ns) = ns
    BY <1>3, FS_Interval
  <2>3. Cardinality(1..ns) <= Cardinality(Namespaces)
    BY <1>1, <2>1, FS_Subset
  <2> QED
    BY <2>2, <2>3
<1> QED
  BY <1>2, <1>3, <1>5, <1>6

\* Nothing is computed at the start.
LEMMA InitInv == Init => Inv
<1> SUFFICES ASSUME Init PROVE Inv
  OBVIOUS
<1>1. RegistryOK
  BY DEF Init, RegistryOK
<1>2. TypeOK
  <2>1. Cardinality(Namespaces) \in Nat
    <3>1. IsFiniteSet(Idx)
      BY <1>1, RegistryFacts, FS_Interval
    <3> DEFINE f == [i \in Idx |-> registry[i].ns]
    <3>2. f \in Surjection(Idx, Namespaces)
      BY DEF Surjection, Namespaces
    <3> HIDE DEF f
    <3> QED
      BY <3>1, <3>2, FS_Surjection, FS_CardinalityType
  <2>2. \A arch \in emitArches : DOMAIN emitted[arch] = {}
    BY DEF Init
  <2>3. 1 \in 1..(Cardinality(Namespaces) + 1) /\ 0 \in 0..(MaxRounds - 1)
    BY <2>1 DEF MaxRounds
  <2> QED
    BY <2>2, <2>3 DEF Init, TypeOK
<1>3. ArchInv /\ EmitInv /\ SkippedInv
  BY DEF Init, ArchInv, EmitInv, Emitting, SkippedInv, emitArches
<1> QED
  BY <1>1, <1>2, <1>3 DEF Inv, IInv

\* The fixpoint of the architectures: nothing is skipped or emitted yet.
LEMMA ArchKeeps ==
  ASSUME Inv, ArchDirect \/ ArchContainer \/ ArchDone
  PROVE  Inv'
<1> USE DEF Inv, IInv
<1>1. /\ UNCHANGED <<registry, skipped, round, grew, ns, emitted>>
      /\ phase \in {"arch", "contain"} /\ phase' \in {"contain", "skip"} /\ (phase' = "skip" => ArchDone)
      /\ archStructs' \subseteq Idx
  BY DEF ArchDirect, ArchContainer, ArchDone, TypeOK
<1>2. RegistryOK'
  BY <1>1 DEF RegistryOK
<1>3. TypeOK'
  BY <1>1, RegistrySame DEF TypeOK
<1>4. ArchInv'
  <2>1. \A i \in Idx : LET a == pickVariant(i, "amd64") b == pickVariant(i, "arm64") IN
          a # 0 /\ b # 0 /\ a # b => i \in archStructs'
    BY DEF ArchInv, ArchDirect, ArchContainer, ArchDone
  <2>2. phase' = "skip" => \A i \in Idx : ~Inherits(i)'
    <3>1. SUFFICES ASSUME phase' = "skip" PROVE \A i \in Idx : ~Inherits(i)'
      OBVIOUS
    <3>2. UNCHANGED archStructs /\ \A i \in Idx : ~Inherits(i)
      BY <1>1, <3>1 DEF ArchDone
    <3>3. \A d : embedsArchStruct(d)' <=> embedsArchStruct(d)
      BY <3>2 DEF embedsArchStruct
    <3>4. \A i : Inherits(i)' <=> Inherits(i)
      <4> TAKE i
      <4>1. \A arch, v : v = pickVariant(i, arch) => v = pickVariant(i, arch)'
        BY <1>1, RegistrySame
      <4>2. \A v, d : d = registry[i].variants[v] => d = registry'[i].variants[v]
        BY <1>1
      <4> QED
        BY <1>1, <3>2, <3>3, RegistrySame DEF Inherits
    <3> QED
      BY <3>2, <3>4
  <2> QED
    BY <1>1, <2>1, <2>2, RegistrySame DEF ArchInv
<1>5. EmitInv'
  <2>1. \A arch \in emitArches : DOMAIN emitted'[arch] = {}
    BY <1>1 DEF EmitInv, Emitting
  <2>2. ~Emitting' /\ phase' # "done"
    BY <1>1 DEF Emitting
  <2> QED
    BY <2>1, <2>2 DEF EmitInv
<1>6. SkippedInv'
  BY <1>1 DEF SkippedInv, ArchDirect, ArchContainer, ArchDone
<1> QED
  BY <1>2, <1>3, <1>4, <1>5, <1>6

\* What neither fixpoint nor the metadata changes in.
LEMMA FixpointsStay ==
  ASSUME ArchInv, UNCHANGED <<registry, archStructs>>, phase \notin {"arch", "contain"}, phase' \notin {"arch", "contain"}
  PROVE  ArchInv'
<1>1. \A d : embedsArchStruct(d)' <=> embedsArchStruct(d)
  BY DEF embedsArchStruct
<1>2. \A i : Inherits(i)' <=> Inherits(i)
  BY <1>1, RegistrySame DEF Inherits
<1> QED
  BY <1>2, RegistrySame DEF ArchInv

\* A pass over a namespace skips what cannot be emitted.
LEMMA SkipKeeps ==
  ASSUME Inv, SkipNamespace
  PROVE  Inv'
<1> USE DEF Inv, IInv
<1>1. /\ UNCHANGED <<registry, phase, archStructs, round, emitted>> /\ phase = "skip"
      /\ ns \in Namespaces /\ ns' = ns + 1 /\ grew' \in BOOLEAN
      /\ skipped \subseteq skipped'
      /\ \A i \in skipped' : i \in skipped \/ (i \in Idx /\ \A arch \in emitArches : ~Declared(i, arch).ok)
  BY DEF SkipNamespace, TypeOK, InNamespace
<1>2. RegistryOK'
  BY <1>1 DEF RegistryOK
<1>3. TypeOK'
  BY <1>1, RegistrySame, NamespaceFacts DEF TypeOK
<1>4. ArchInv'
  BY <1>1, FixpointsStay
<1>5. EmitInv'
  BY <1>1, RegistrySame DEF EmitInv, Emitting
<1>6. ASSUME NEW i \in skipped' PROVE ~Emits(i)'
  <2>1. i \in Idx /\ \A arch \in emitArches : ~Declared(i, arch).ok
    BY <1>1, <1>6 DEF SkippedInv, Emits, TypeOK
  <2>2. ASSUME NEW arch \in emitArches PROVE ~Declared(i, arch)'.ok
    <3>1. ~OkIn(i, arch, skipped)
      BY <2>1, DeclaredOK
    <3>2. PICK s : s = skipped'
      OBVIOUS
    <3>3. ~OkIn(i, arch, s)
      BY <1>1, <2>1, <3>1, <3>2, OkMono
    <3> QED
      BY <1>1, <2>1, <3>2, <3>3, DeclaredOK
  <2> QED
    BY <2>2 DEF Emits, emitArches
<1> QED
  BY <1>1, <1>2, <1>3, <1>4, <1>5, <1>6 DEF SkippedInv

\* The end of a round changes neither the skipped types nor the structs.
LEMMA RoundKeeps ==
  ASSUME Inv, SkipRound
  PROVE  Inv'
<1> USE DEF Inv, IInv
<1>1. /\ UNCHANGED <<registry, archStructs, skipped, emitted>> /\ phase = "skip"
      /\ grew' = FALSE /\ ns' = 1
      /\ (phase' = "skip" /\ round' = round + 1 /\ NextRound) \/ (phase' = "emit" /\ round' = round)
  BY DEF SkipRound
<1>2. RegistryOK'
  BY <1>1 DEF RegistryOK
<1>3. TypeOK'
  <2>1. round' \in 0..(MaxRounds - 1)
    BY <1>1 DEF TypeOK, NextRound, MaxRounds
  <2>2. 1 \in 1..(Cardinality(Namespaces) + 1)
    BY NamespaceFacts
  <2> QED
    BY <1>1, <2>1, <2>2, RegistrySame DEF TypeOK
<1>4. ArchInv'
  BY <1>1, FixpointsStay
<1>5. EmitInv'
  <2>1. \A arch \in emitArches : DOMAIN emitted[arch] = {}
    BY <1>1 DEF EmitInv, Emitting
  <2>2. \A i \in Idx : ~(registry[i].ns < 1)
    BY RegistryFacts
  <2> QED
    BY <1>1, <2>1, <2>2, RegistrySame DEF EmitInv
<1>6. SkippedInv'
  BY <1>1, DeclaredSame DEF SkippedInv
<1> QED
  BY <1>2, <1>3, <1>4, <1>5, <1>6

\* What is emitted is what was built.
LEMMA EmitKeeps ==
  ASSUME Inv, EmitNamespace
  PROVE  Inv'
<1> USE DEF Inv, IInv
<1>1. /\ UNCHANGED <<registry, phase, archStructs, skipped, round, grew>> /\ phase = "emit"
      /\ ns \in Namespaces /\ ns' = ns + 1
      /\ \A arch \in emitArches :
           /\ DOMAIN emitted'[arch] = DOMAIN emitted[arch] \cup InNamespace(ns)
           /\ \A i \in DOMAIN emitted'[arch] : emitted'[arch][i] = IF i \in InNamespace(ns) THEN Declared(i, arch) ELSE emitted[arch][i]
  BY DEF EmitNamespace
<1>2. RegistryOK'
  BY <1>1 DEF RegistryOK
<1>3. /\ Idx' = Idx /\ Namespaces' = Namespaces /\ \A i, arch : Declared(i, arch)' = Declared(i, arch)
      /\ Emitting /\ Emitting'
  BY <1>1, RegistrySame, DeclaredSame DEF Emitting
<1>4. InNamespace(ns) = {i \in Idx : registry[i].ns = ns}
  BY DEF InNamespace
<1>5. \A arch \in emitArches : DOMAIN emitted[arch] = {i \in Idx : registry[i].ns < ns}
  BY <1>3 DEF EmitInv
<1>6. \A i \in Idx : registry[i].ns \in Nat /\ ns \in Nat
  BY RegistryFacts, NamespaceFacts
<1>7. ASSUME NEW arch \in emitArches
      PROVE  /\ DOMAIN emitted'[arch] = {i \in Idx : registry[i].ns < ns + 1}
             /\ \A i \in DOMAIN emitted'[arch] : emitted'[arch][i] = Declared(i, arch)
  <2>1. DOMAIN emitted'[arch] = {i \in Idx : registry[i].ns < ns + 1}
    <3>1. \A i \in Idx : registry[i].ns < ns + 1 <=> registry[i].ns < ns \/ registry[i].ns = ns
      BY <1>6
    <3> QED
      BY <1>1, <1>4, <1>5, <3>1
  <2>2. \A i \in DOMAIN emitted'[arch] : emitted'[arch][i] = Declared(i, arch)
    BY <1>1 DEF EmitInv
  <2> QED
    BY <2>1, <2>2
<1>8. EmitInv'
  BY <1>1, <1>3, <1>7 DEF EmitInv
<1>9. TypeOK'
  BY <1>1, <1>3, <1>7, NamespaceFacts DEF TypeOK
<1>10. ArchInv'
  BY <1>1, FixpointsStay
<1>11. SkippedInv'
  BY <1>1, DeclaredSame DEF SkippedInv
<1> QED
  BY <1>2, <1>8, <1>9, <1>10, <1>11

\* Steps that change none of it.
LEMMA StayKeeps ==
  ASSUME Inv, EmitDone \/ UNCHANGED vars
  PROVE  Inv'
<1> USE DEF Inv, IInv
<1>1. /\ UNCHANGED <<registry, archStructs, skipped, round, grew, ns, emitted>>
      /\ phase' = phase \/ (phase = "emit" /\ phase' = "done" /\ ns \notin Namespaces)
  BY DEF EmitDone, vars
<1>2. RegistryOK'
  BY <1>1 DEF RegistryOK
<1>3. TypeOK'
  BY <1>1, RegistrySame DEF TypeOK
<1>4. ArchInv'
  <2>1. \A d : embedsArchStruct(d)' <=> embedsArchStruct(d)
    BY <1>1 DEF embedsArchStruct
  <2>2. \A i : Inherits(i)' <=> Inherits(i)
    BY <1>1, <2>1, RegistrySame DEF Inherits
  <2> QED
    BY <1>1, <2>2, RegistrySame DEF ArchInv
<1>5. EmitInv'
  <2>1. Emitting' <=> Emitting
    BY <1>1 DEF Emitting
  <2> QED
    BY <1>1, <2>1, RegistrySame, DeclaredSame DEF EmitInv
<1>6. SkippedInv'
  BY <1>1, DeclaredSame DEF SkippedInv
<1> QED
  BY <1>2, <1>3, <1>4, <1>5, <1>6

\* No step of the generator breaks the invariant.
LEMMA NextInv ==
  ASSUME Inv, [Next]_vars
  PROVE  Inv'
BY ArchKeeps, SkipKeeps, RoundKeeps, EmitKeeps, StayKeeps DEF Next

\* Every phase leaves to the next what the inductive invariant says of it: the two
\* fixpoints of computeArchStructs, what computeSkippedTypes skipped, and the
\* declarations of the namespaces behind.
THEOREM InvariantCorrect == Spec => []Inv
BY InitInv, NextInv, PTL DEF Spec

\* The state of the generator keeps its types, rounds below MaxRounds included.
THEOREM TypeCorrect == Spec => []TypeOK
<1>1. Inv => TypeOK
  BY DEF Inv, IInv
<1> QED
  BY <1>1, InvariantCorrect, PTL

-----------------------------------------------------------------------------
(* The rounds are enough *)

\* What is embedded is less deep.
LEMMA DepthFacts ==
  ASSUME RegistryOK, Shallow(registry)
  PROVE  /\ \A i \in Idx : Depth[i] \in 0..(MaxRounds - 1)
         /\ \A i \in Idx : \A v \in DOMAIN registry[i].variants : \A j \in ByValue(registry[i].variants[v]) :
              j \in Idx /\ Depth[j] < Depth[i]
<1>1. Depth \in Depths(registry)
  BY DEF Depth, Shallow
<1>2. /\ Depth \in [Idx -> 0..(MaxRounds - 1)]
      /\ \A i \in Idx : \A v \in DOMAIN registry[i].variants : \A j \in ByValue(registry[i].variants[v]) : Depth[j] < Depth[i]
  BY <1>1 DEF Depths, Idx
<1>3. ASSUME NEW i \in Idx, NEW v \in DOMAIN registry[i].variants, NEW j \in ByValue(registry[i].variants[v])
      PROVE  j \in Idx
  <2> DEFINE def == registry[i].variants[v]
  <2>1. Listed(def, i) /\ \A n \in DOMAIN def.nested : Listed(def.nested[n], i)
    BY RegistryFacts
  <2>2. \A d : Listed(d, i) => RefsOf(d) \subseteq 1..(i - 1)
    BY DEF Listed, RefsOf
  <2>3. j \in 1..(i - 1)
    <3> HIDE DEF def
    <3>1. j \in ByValue(def)
      BY <1>3 DEF def
    <3> QED
      BY <2>1, <2>2, <3>1 DEF ByValue
  <2>4. Len(registry) \in Nat /\ Idx = 1..Len(registry)
    BY RegistryFacts
  <2> QED
    BY <2>3, <2>4
<1> QED
  BY <1>2, <1>3

\* A struct none of whose embedded structs is newly skipped can still be emitted.
LEMMA StillEmits ==
  ASSUME RegistryOK, NEW i \in Idx, UNCHANGED <<registry, archStructs>>, Emits(i),
         \A v \in DOMAIN registry[i].variants : \A j \in ByValue(registry[i].variants[v]) :
           j \in skipped' => j \in skipped
  PROVE  Emits(i)'
<1>1. PICK arch \in emitArches : Declared(i, arch).ok
  BY DEF Emits
<1>2. OkIn(i, arch, skipped)
  BY <1>1, DeclaredOK
<1>3. PICK s : s = skipped'
  OBVIOUS
<1>4. OkIn(i, arch, s)
  BY <1>2, <1>3, OkMono
<1>5. Declared(i, arch)'.ok
  BY <1>3, <1>4, DeclaredOK
<1> QED
  BY <1>1, <1>5 DEF Emits, emitArches

\* The depths belong to the metadata.
LEMMA DepthSame == UNCHANGED registry => Depth' = Depth
BY DEF Depth, Depths, ByValue, RefsOf

\* The dry run over one namespace settles its structs of this round's depth.
LEMMA SkipSettles ==
  ASSUME Inv, SettledInv, Shallow(registry), SkipNamespace
  PROVE  SettledInv'
<1> DEFINE lost == {i \in InNamespace(ns) \ skipped : ~Emits(i)}
<1>1. /\ UNCHANGED <<registry, phase, archStructs, round>> /\ phase = "skip" /\ ns' = ns + 1
      /\ skipped' = skipped \cup lost /\ grew' = (grew \/ lost # {})
  BY DEF SkipNamespace, Emits
<1>2. Idx' = Idx /\ Depth' = Depth /\ RegistryOK
  BY <1>1, RegistrySame, DepthSame DEF Inv
<1>3. /\ round \in Nat /\ ns \in Nat /\ grew \in BOOLEAN /\ \A i \in Idx : Depth[i] \in Nat /\ registry[i].ns \in Nat
  <2>1. TypeOK /\ RegistryOK
    BY DEF Inv, IInv
  <2>2. ns \in Nat /\ round \in Nat /\ grew \in BOOLEAN
    BY <2>1, NamespaceFacts DEF TypeOK, MaxRounds
  <2>3. \A i \in Idx : registry[i].ns \in Nat
    BY <2>1, RegistryFacts
  <2>4. \A i \in Idx : Depth[i] \in Nat
    BY <2>1, DepthFacts DEF MaxRounds
  <2> QED
    BY <2>2, <2>3, <2>4
<1>4. \A j \in Idx : Settled(j) => j \notin lost
  BY DEF SettledInv
<1>5. ASSUME NEW i \in Idx, Emits(i), Depth[i] <= round PROVE Emits(i)'
  <2>1. \A v \in DOMAIN registry[i].variants : \A j \in ByValue(registry[i].variants[v]) : j \in Idx /\ Depth[j] < round
    BY <1>2, <1>3, <1>5, DepthFacts
  <2>2. \A j \in Idx : Depth[j] < round => Settled(j)
    BY <1>1 DEF Settled
  <2> HIDE DEF lost
  <2> QED
    BY <1>1, <1>2, <1>4, <1>5, <2>1, <2>2, StillEmits
<1>6. ASSUME NEW i \in Idx, Settled(i)' PROVE (Depth[i] <= round \/ lost = {}) /\ (Settled(i) \/ i \in InNamespace(ns))
  <2>1. (Depth[i] < round) \/ (registry[i].ns < ns + 1 /\ (Depth[i] = round \/ ~grew'))
    BY <1>1, <1>2, <1>6 DEF Settled, Emitting
  <2>2. registry[i].ns < ns + 1 => registry[i].ns < ns \/ registry[i].ns = ns
    BY <1>3
  <2>3. ~grew' => ~grew /\ lost = {}
    BY <1>1, <1>3
  <2> HIDE DEF lost
  <2> QED
    BY <1>1, <1>3, <2>1, <2>2, <2>3 DEF Settled, InNamespace
<1>7. ASSUME NEW i \in Idx, Settled(i)' PROVE i \in skipped' \/ Emits(i)'
  <2>1. i \in skipped' \/ Emits(i)
    BY <1>1, <1>6, <1>7 DEF SettledInv
  <2>2. lost = {} => (Emits(i)' <=> Emits(i))
    <3> HIDE DEF lost
    <3> QED
      BY <1>1, DeclaredSame
  <2> QED
    BY <1>5, <1>6, <1>7, <2>1, <2>2
<1> QED
  BY <1>2, <1>7 DEF SettledInv

\* At the end of a round the structs of its depth are settled; all are at the last.
LEMMA RoundSettles ==
  ASSUME Inv, SettledInv, Shallow(registry), SkipRound
  PROVE  SettledInv'
<1>1. /\ UNCHANGED <<registry, archStructs, skipped>> /\ phase = "skip" /\ ns \notin Namespaces
      /\ grew' = FALSE /\ ns' = 1
      /\ (phase' = "skip" /\ round' = round + 1) \/ (phase' = "emit" /\ ~NextRound)
  BY DEF SkipRound
<1>2. Idx' = Idx /\ Depth' = Depth /\ RegistryOK
  BY <1>1, RegistrySame, DepthSame DEF Inv
<1>3. round \in 0..(MaxRounds - 1) /\ \A i \in Idx : Depth[i] \in 0..(MaxRounds - 1) /\ registry[i].ns \in Nat \ {0}
  BY RegistryFacts, DepthFacts DEF Inv, IInv, TypeOK
<1>4. \A i \in Idx : registry[i].ns < ns
  BY <1>1, NamespaceFacts DEF Inv, IInv
<1>5. ASSUME NEW i \in Idx, Settled(i)' PROVE Settled(i)
  <2>1. Depth[i] <= round \/ ~grew
    <3>1. CASE phase' = "skip" /\ round' = round + 1
      BY <1>1, <1>2, <1>3, <1>5, <3>1 DEF Settled, Emitting
    <3>2. CASE phase' = "emit" /\ ~NextRound
      BY <1>3, <3>2 DEF NextRound, MaxRounds
    <3> QED
      BY <1>1, <3>1, <3>2
  <2> QED
    BY <1>1, <1>3, <1>4, <2>1 DEF Settled
<1> QED
  BY <1>1, <1>2, <1>5, DeclaredSame DEF SettledInv

\* No step unsettles a struct, or loses sight of one.
LEMMA NextSettled ==
  ASSUME Inv, SettledInv, Shallow(registry), [Next]_vars
  PROVE  SettledInv' /\ Shallow(registry)'
<1>1. UNCHANGED registry
  BY DEF Next, vars, ArchDirect, ArchContainer, ArchDone, SkipNamespace, SkipRound, EmitNamespace, EmitDone
<1>2. Shallow(registry)'
  BY <1>1 DEF Shallow, Depths, ByValue, RefsOf
<1>3. Idx' = Idx /\ Depth' = Depth /\ RegistryOK
  BY <1>1, RegistrySame, DepthSame DEF Inv
<1>4. CASE ArchDirect \/ ArchContainer \/ ArchDone
  <2>1. round' = 0 /\ ns' = 1 /\ phase' \in {"contain", "skip"}
    BY <1>4 DEF Inv, IInv, SkippedInv, ArchDirect, ArchContainer, ArchDone
  <2>2. \A i \in Idx : Depth[i] \in Nat /\ registry[i].ns \in Nat \ {0}
    BY <1>3, RegistryFacts, DepthFacts DEF MaxRounds
  <2>3. ASSUME NEW i \in Idx, Settled(i)' PROVE i \in skipped' \/ Emits(i)'
    BY <1>1, <1>3, <2>1, <2>2, <2>3 DEF Settled, Emitting
  <2> QED
    BY <1>2, <1>3, <2>3 DEF SettledInv
<1>5. CASE EmitNamespace \/ EmitDone \/ UNCHANGED vars
  <2>1. UNCHANGED <<registry, archStructs, skipped, round, grew>> /\ ((phase' = phase /\ ns' = ns) \/ Emitting)
    BY <1>5 DEF EmitNamespace, EmitDone, vars, Emitting
  <2>2. \A i \in Idx : Settled(i)' => Settled(i)
    BY <1>3, <2>1 DEF Settled, Emitting
  <2> QED
    BY <1>2, <1>3, <2>1, <2>2, DeclaredSame DEF SettledInv
<1> QED
  BY <1>2, <1>4, <1>5, SkipSettles, RoundSettles DEF Next

Complete == Inv /\ SettledInv /\ Shallow(registry)

\* When the structs are as they have to be.
LEMMA CompleteCorrect ==
  ASSUME \A r \in Registries : Shallow(r)
  PROVE  Spec => []Complete
<1>1. Init => Complete
  <2> SUFFICES ASSUME Init PROVE Complete
    OBVIOUS
  <2>1. Inv
    BY InitInv
  <2>2. SettledInv
    BY DEF Init, SettledInv, Settled, Emitting
  <2> QED
    BY <2>1, <2>2 DEF Complete, Inv, RegistryOK
<1>2. Complete /\ [Next]_vars => Complete'
  BY NextInv, NextSettled DEF Complete
<1> QED
  BY <1>1, <1>2, PTL DEF Spec

\* A field names what it refers to, when the reference stands.
Named(t) == t.kind \in {"ref", "pointer"}

\* A declaration names only structs of the metadata, and none that is skipped.
LEMMA NamedFacts ==
  ASSUME NEW d, NEW i \in Idx, Listed(d, i), NEW ls, NEW structs, NEW en, NEW S, RegistryOK
  PROVE  LET m == Declare(d, ls, GoTypes(d, structs, en, S))
         IN  \A k \in DOMAIN m.fields : Named(m.fields[k]) => m.fields[k].to \in Idx \ S
<1> DEFINE m == Declare(d, ls, GoTypes(d, structs, en, S))
<1>1. ASSUME NEW k \in DOMAIN d.fields PROVE Named(fieldGoType(d.fields[k], structs, en, S)) => fieldGoType(d.fields[k], structs, en, S).to \in Idx \ S
  <2> DEFINE f == d.fields[k]
  <2>1. f.kind \in {"native", "pointer", "ref", "nested"} /\ f.to \in Nat /\ (f.kind = "ref" => f.to \in Idx) /\ (f.kind = "pointer" => (f.to = 0 \/ f.to \in Idx))
    <3>1. f.kind \in {"native", "pointer", "ref", "nested"} /\ f.to \in Nat
      BY FieldFacts
    <3>2. (f.kind = "ref" => f.to \in 1..(i - 1)) /\ (f.kind = "pointer" => f.to \in 0..Len(registry))
      BY DEF Listed
    <3>3. Len(registry) \in Nat /\ Idx = 1..Len(registry)
      BY RegistryFacts
    <3> HIDE DEF f
    <3> QED
      BY <3>1, <3>2, <3>3
  <2> HIDE DEF f
  <2>2. \A x, y : ~Named(GoMemory(x, y))
    BY DEF Named, GoMemory
  <2>3. \A l : ~Named(blob(l))
    BY DEF Named, blob, GoMemory, Unresolved
  <2>4. \A y, z : ~Named(GoNamed("nested", y, z))
    BY DEF Named, GoNamed
  <2>5. \A x, y, z : GoNamed(x, y, z).to = y
    BY DEF GoNamed
  <2>6. ~Named(Unresolved)
    BY DEF Named, Unresolved
  <2>7. Named(fieldGoType(f, structs, en, S)) => fieldGoType(f, structs, en, S).to \in Idx \ S
    <3>1. CASE f.kind = "native"
      BY <2>2, <3>1 DEF fieldGoType
    <3>2. CASE f.kind = "pointer"
      BY <2>1, <2>2, <2>5, <3>2 DEF fieldGoType, Degraded
    <3>3. CASE f.kind = "ref"
      BY <2>1, <2>3, <2>5, <3>3 DEF fieldGoType, Degraded
    <3>4. CASE f.kind = "nested"
      BY <2>4, <2>6, <3>4 DEF fieldGoType
    <3> QED
      BY <2>1, <3>1, <3>2, <3>3, <3>4
  <2> QED
    BY <2>7 DEF f
<1>2. m.fields = IF Opaque(d, ls) THEN <<blob(structLayoutOf(ls, d.union, d.pack))>> ELSE GoTypes(d, structs, en, S)
  BY DeclareIs
<1>3. CASE Opaque(d, ls)
  <2>1. \A x : DOMAIN <<x>> = {1} /\ <<x>>[1] = x
    OBVIOUS
  <2>2. \A l : ~Named(blob(l))
    BY DEF Named, blob, GoMemory, Unresolved
  <2>3. PICK b : b = blob(structLayoutOf(ls, d.union, d.pack))
    OBVIOUS
  <2>4. m.fields = <<b>> /\ ~Named(b)
    BY <1>2, <1>3, <2>2, <2>3
  <2> HIDE DEF m
  <2>5. \A k \in DOMAIN m.fields : ~Named(m.fields[k])
    BY <2>1, <2>4
  <2> QED
    BY <2>5 DEF m
<1>4. CASE ~Opaque(d, ls)
  <2>1. m.fields = GoTypes(d, structs, en, S)
    BY <1>2, <1>4
  <2> HIDE DEF m
  <2>2. \A k \in DOMAIN m.fields : Named(m.fields[k]) => m.fields[k].to \in Idx \ S
    BY <1>1, <2>1 DEF GoTypes
  <2> QED
    BY <2>2 DEF m
<1> QED
  BY <1>3, <1>4

\* What a declaration names of the nested types was emitted.
LEMMA NestedNamedFacts ==
  ASSUME NEW d, FieldKinds(d), NEW ls, NEW structs, NEW en, NEW S,
         NEW n \in NamedBy(Declare(d, ls, GoTypes(d, structs, en, S)), {"nested"})
  PROVE  n \in en /\ ~Opaque(d, ls)
<1> DEFINE g == GoTypes(d, structs, en, S)
           m == Declare(d, ls, g)
<1>1. PICK k \in DOMAIN m.fields : m.fields[k].kind = "nested" /\ m.fields[k].to = n
  BY DEF NamedBy
<1>2. m.fields = IF Opaque(d, ls) THEN <<blob(structLayoutOf(ls, d.union, d.pack))>> ELSE g
  BY DeclareIs
<1>3. \A l : blob(l).kind # "nested"
  BY DEF blob, GoMemory, Unresolved
<1> HIDE DEF m, g
<1>4. ~Opaque(d, ls)
  <2> SUFFICES ASSUME Opaque(d, ls) PROVE FALSE
    OBVIOUS
  <2>1. PICK b : b = blob(structLayoutOf(ls, d.union, d.pack))
    OBVIOUS
  <2>2. m.fields = <<b>> /\ b.kind # "nested"
    BY <1>2, <1>3, <2>1
  <2> QED
    BY <1>1, <2>2
<1>5. k \in DOMAIN d.fields /\ g[k] = fieldGoType(d.fields[k], structs, en, S) /\ g[k].kind = "nested" /\ g[k].to = n
  BY <1>1, <1>2, <1>4 DEF g, GoTypes
<1>6. n \in en
  <2> DEFINE f == d.fields[k]
  <2>1. f.kind \in {"native", "pointer", "ref", "nested"}
    BY <1>5 DEF FieldKinds
  <2>2. fieldGoType(f, structs, en, S).kind = "nested" /\ fieldGoType(f, structs, en, S).to = n
    BY <1>5
  <2> HIDE DEF f
  <2>3. /\ \A x, y : GoMemory(x, y).kind # "nested"
        /\ \A y, z : GoNamed("pointer", y, z).kind # "nested" /\ GoNamed("ref", y, z).kind # "nested"
        /\ \A x, y, z : GoNamed(x, y, z).to = y
        /\ Unresolved.kind # "nested"
    BY DEF GoMemory, GoNamed, Unresolved
  <2> QED
    BY <1>3, <2>1, <2>2, <2>3 DEF fieldGoType
<1> QED
  BY <1>4, <1>6

\* What building a nested type returns has, with a type in it, whatever building
\* that one's own nested types returned.
LEMMA SubsClosed ==
  ASSUME NEW def, Nesting(def), NEW structs, NEW S
  PROVE  LET sub == Subs(def, structs, S) IN
         \A t \in DOMAIN def.nested : \A p \in sub[t] : \A n \in Inner(def, p) :
           ~OneOf(def, structs, S, p, sub).opaque => sub[n] \subseteq sub[t]
<1> DEFINE sub == Subs(def, structs, S)
           I == DOMAIN def.nested
           Closed(t) == \A p \in sub[t] : \A n \in Inner(def, p) : ~OneOf(def, structs, S, p, sub).opaque => sub[n] \subseteq sub[t]
           T == {t \in Nat : t \in I => Closed(t)}
<1>1. I \subseteq Nat /\ \A n \in I : \A m \in Inner(def, n) : m \in I /\ m < n
  BY DEF Nesting
<1>2. \A n \in I : sub[n] = SubAt(def, structs, S, n, sub)
  BY SubsFacts
<1> HIDE DEF sub
<1>3. ASSUME NEW t \in Nat, \A m \in Nat : m < t => m \in T PROVE t \in T
  <2> SUFFICES ASSUME t \in I, NEW p \in sub[t], NEW n \in Inner(def, p), ~OneOf(def, structs, S, p, sub).opaque
               PROVE  sub[n] \subseteq sub[t]
    OBVIOUS
  <2> DEFINE one == OneOf(def, structs, S, t, sub)
             within == UNION {sub[m] : m \in Inner(def, t)}
  <2>1. sub[t] = Sub(t, one, within)
    BY <1>2 DEF SubAt
  <2>2. CASE p = t
    <3>1. sub[t] = (IF one.ok THEN {t} ELSE {}) \cup within
      BY <2>1, <2>2 DEF Sub
    <3> QED
      BY <2>2, <3>1
  <2>3. CASE p # t
    <3>1. p \in within /\ sub[t] = (IF one.ok THEN {t} ELSE {}) \cup within
      <4> HIDE DEF one, within
      <4> QED
        BY <2>1, <2>3 DEF Sub
    <3>2. PICK m \in Inner(def, t) : p \in sub[m]
      BY <3>1
    <3>3. m \in T /\ m \in I
      BY <1>1, <1>3, <3>2
    <3>4. sub[n] \subseteq sub[m]
      BY <3>2, <3>3
    <3> QED
      BY <3>1, <3>2, <3>4
  <2> QED
    BY <2>2, <2>3
<1>4. \A t \in Nat : t \in T
  <2> HIDE DEF T
  <2> QED
    BY <1>3, FromBelow
<1>5. \A t \in I : Closed(t)
  BY <1>1, <1>4
<1> QED
  BY <1>5 DEF sub

\* What one of a struct's declarations is, the struct's or a nested type's.
Declares(m, p, def, structs, S) ==
  \/ p = 0 /\ m = Declare(def, Fields(def, def, structs), GoTypes(def, structs, NestedEmitted(def, 0, Subs(def, structs, S)), S))
  \/ p \in DOMAIN def.nested
     /\ m = Declare(def.nested[p], Fields(def.nested[p], def, structs),
                    GoTypes(def.nested[p], structs, NestedEmitted(def, p, Subs(def, structs, S)), S))

\* The declarations of a tree, and the nested types that are declared.
LEMMA TreeDeclares ==
  ASSUME NEW def, Nesting(def), Kinds(def), NEW structs, NEW S
  PROVE  LET d == buildStructTree(def, structs, S) sub == Subs(def, structs, S) IN
         /\ DOMAIN d.nested = Kept(def, structs, S)
         /\ DOMAIN d.nested \subseteq DOMAIN def.nested
         /\ Declares(d.self, 0, def, structs, S)
         /\ \A n \in DOMAIN d.nested : d.nested[n] = OneOf(def, structs, S, n, sub) /\ Declares(d.nested[n], n, def, structs, S)
<1> DEFINE d == buildStructTree(def, structs, S)
           sub == Subs(def, structs, S)
           kept == Kept(def, structs, S)
<1>1. /\ d.self = Declare(def, Fields(def, def, structs), GoTypes(def, structs, NestedEmitted(def, 0, sub), S))
      /\ DOMAIN d.nested = kept /\ \A n \in kept : d.nested[n] = OneOf(def, structs, S, n, sub)
  BY TreeIs
<1>2. sub \in [DOMAIN def.nested -> SUBSET DOMAIN def.nested] /\ Inner(def, 0) \subseteq DOMAIN def.nested
  BY SubsFacts DEF Inner
<1>3. \A n \in DOMAIN def.nested : OneOf(def, structs, S, n, sub) =
        Declare(def.nested[n], Fields(def.nested[n], def, structs), GoTypes(def.nested[n], structs, NestedEmitted(def, n, sub), S))
  BY OneIs DEF OneOf, Kinds
<1>4. kept \subseteq DOMAIN def.nested
  BY <1>2 DEF Kept
<1> HIDE DEF d, sub
<1> HIDE DEF kept
<1>5. DOMAIN d.nested = kept /\ \A n \in kept : d.nested[n] = OneOf(def, structs, S, n, sub)
  BY <1>1
<1>6. Declares(d.self, 0, def, structs, S)
  BY <1>1 DEF Declares, sub
<1>7. \A n \in kept : Declares(d.nested[n], n, def, structs, S)
  BY <1>3, <1>4, <1>5 DEF Declares, sub
<1> QED
  BY <1>4, <1>5, <1>6, <1>7 DEF d, sub, kept

\* A nested type that holds no others returns itself or nothing.
LEMMA SubsAlone ==
  ASSUME NEW def, Nesting(def), NEW structs, NEW S, NEW n \in DOMAIN def.nested, Inner(def, n) = {}
  PROVE  Subs(def, structs, S)[n] \subseteq {n}
<1> DEFINE sub == Subs(def, structs, S)
<1>1. sub[n] = SubAt(def, structs, S, n, sub)
  BY SubsFacts
<1> HIDE DEF sub
<1>2. UNION {sub[m] : m \in Inner(def, n)} = {}
  OBVIOUS
<1>3. \A one : Sub(n, one, {}) \subseteq {n}
  BY DEF Sub
<1>4. SubAt(def, structs, S, n, sub) \subseteq {n}
  BY <1>2, <1>3 DEF SubAt
<1> QED
  BY <1>1, <1>4 DEF sub

\* A nested type that a tree names is declared in it, unless it holds others.
LEMMA NestedDeclared ==
  ASSUME NEW def, Nesting(def), Kinds(def), NEW structs, NEW S, NEW p, NEW n,
         p # 0 => p \in DOMAIN buildStructTree(def, structs, S).nested,
         NEW m, Declares(m, p, def, structs, S), n \in NamedBy(m, {"nested"})
  PROVE  n \in DOMAIN buildStructTree(def, structs, S).nested \/ Inner(def, n) # {}
<1> DEFINE d == buildStructTree(def, structs, S)
           sub == Subs(def, structs, S)
<1>1. 0 \notin DOMAIN def.nested
  BY DEF Nesting
<1>2. /\ DOMAIN d.nested = IF Opaque(def, Fields(def, def, structs)) THEN {} ELSE UNION {sub[x] : x \in Inner(def, 0)}
      /\ DOMAIN d.nested \subseteq DOMAIN def.nested
  BY TreeDeclares DEF Kept
<1>4. CASE p = 0
  <2>1. n \in NestedEmitted(def, 0, sub) /\ ~Opaque(def, Fields(def, def, structs))
    BY <1>1, <1>4, NestedNamedFacts DEF Declares, Kinds
  <2>2. n \in Inner(def, 0) /\ sub[n] # {} /\ sub[n] \subseteq DOMAIN d.nested
    BY <1>2, <2>1 DEF NestedEmitted
  <2> QED
    <3>1. n \in DOMAIN def.nested
      BY <2>2 DEF Inner
    <3>2. Inner(def, n) = {} => sub[n] \subseteq {n}
      BY <3>1, SubsAlone
    <3> HIDE DEF d, sub
    <3> QED
      BY <2>2, <3>2 DEF d
<1>5. CASE p # 0
  <2>1. p \in DOMAIN def.nested /\ p \in DOMAIN d.nested
    BY <1>2, <1>5
  <2>2. n \in NestedEmitted(def, p, sub) /\ ~Opaque(def.nested[p], Fields(def.nested[p], def, structs))
    BY <1>5, <2>1, NestedNamedFacts DEF Declares, Kinds
  <2>3. ~OneOf(def, structs, S, p, sub).opaque
    BY <2>1, <2>2, OneIs DEF OneOf, Kinds
  <2>4. n \in Inner(def, p) /\ sub[n] # {}
    BY <2>2 DEF NestedEmitted
  <2>5. PICK t \in Inner(def, 0) : p \in sub[t]
    BY <1>2, <2>1
  <2>6. t \in DOMAIN def.nested
    BY <2>5 DEF Inner
  <2>7. sub[n] \subseteq sub[t]
    BY <2>3, <2>4, <2>5, <2>6, SubsClosed
  <2>8. sub[t] \subseteq DOMAIN d.nested
    <3> HIDE DEF d, sub
    <3> QED
      BY <1>2, <2>1, <2>5
  <2> QED
    <3>1. n \in DOMAIN def.nested
      BY <2>4 DEF Inner
    <3>2. Inner(def, n) = {} => sub[n] \subseteq {n}
      BY <3>1, SubsAlone
    <3> HIDE DEF d, sub
    <3> QED
      BY <2>4, <2>7, <2>8, <3>2 DEF d
<1> QED
  BY <1>4, <1>5

\* What the declarations of a struct name is no skipped type, and a nested type
\* that is declared or holds others.
LEMMA NamesFacts ==
  ASSUME RegistryOK, NEW i \in Idx, NEW arch \in emitArches
  PROVE  /\ Names(Declared(i, arch)) \subseteq Idx \ skipped
         /\ \A n \in NestedNames(Declared(i, arch)) : n \in DOMAIN Declared(i, arch).nested \/ Inner(Definition(i, arch), n) # {}
<1> DEFINE a == Engine(i, arch)
           v == pickVariant(i, a)
           def == registry[i].variants[v]
           structs == layouts(a)
           d == Declared(i, arch)
<1>1. d = Built(i, arch, skipped)
  BY DeclaredIs
<1>2. v = 0 \/ v \in DOMAIN registry[i].variants
  BY PickFacts
<1>3. CASE v = 0
  <2>1. d = [ok |-> FALSE, nested |-> << >>]
    BY <1>1, <1>3 DEF Built
  <2> HIDE DEF d
  <2>2. Declarations(d) = {}
    BY <2>1 DEF Declarations
  <2>3. Names(d) = {} /\ NestedNames(d) = {}
    BY <2>2 DEF Names, NestedNames
  <2> QED
    BY <2>3 DEF d
<1>4. CASE v # 0
  <2>1. Listed(def, i) /\ (\A n \in DOMAIN def.nested : Listed(def.nested[n], i)) /\ Nesting(def) /\ Kinds(def)
    BY <1>2, <1>4, RegistryFacts, VariantKinds
  <2>2. d = buildStructTree(def, structs, skipped)
    BY <1>1, <1>4 DEF Built
  <2>3. def = Definition(i, arch)
    BY DEF Definition, Engine
  <2> HIDE DEF d, def, structs
  <2>4. /\ Declares(d.self, 0, def, structs, skipped)
        /\ \A n \in DOMAIN d.nested : Declares(d.nested[n], n, def, structs, skipped)
    BY <2>1, <2>2, TreeDeclares
  <2>5. ASSUME NEW m \in Declarations(d)
        PROVE  \E p : (p # 0 => p \in DOMAIN d.nested) /\ Declares(m, p, def, structs, skipped)
    BY <2>4 DEF Declarations
  <2>6. ASSUME NEW m, NEW p, Declares(m, p, def, structs, skipped)
        PROVE  NamedBy(m, {"ref", "pointer"}) \subseteq Idx \ skipped
    <3>1. PICK x, ls, en : Listed(x, i) /\ m = Declare(x, ls, GoTypes(x, structs, en, skipped))
      BY <2>1, <2>6 DEF Declares
    <3>2. \A k \in DOMAIN m.fields : Named(m.fields[k]) => m.fields[k].to \in Idx \ skipped
      BY <3>1, NamedFacts
    <3> QED
      BY <3>2 DEF NamedBy, Named
  <2>7. Names(d) \subseteq Idx \ skipped
    BY <2>5, <2>6 DEF Names
  <2>8. ASSUME NEW n \in NestedNames(d) PROVE n \in DOMAIN d.nested \/ Inner(def, n) # {}
    <3>1. PICK m \in Declarations(d) : n \in NamedBy(m, {"nested"})
      BY DEF NestedNames
    <3>2. PICK p : (p # 0 => p \in DOMAIN d.nested) /\ Declares(m, p, def, structs, skipped)
      BY <2>5
    <3> QED
      BY <2>1, <2>2, <3>1, <3>2, NestedDeclared
  <2> QED
    BY <2>3, <2>7, <2>8 DEF d
<1> QED
  BY <1>3, <1>4

\* At the end every struct has met its namespace: what is declared is what was built.
LEMMA DoneFacts ==
  ASSUME Inv, phase = "done"
  PROVE  \A arch \in emitArches :
           /\ DOMAIN emitted[arch] = Idx
           /\ There(arch) = {i \in Idx : Declared(i, arch).ok}
           /\ \A i \in Idx : emitted[arch][i] = Declared(i, arch)
<1>1. \A i \in Idx : registry[i].ns < ns
  BY NamespaceFacts DEF Inv, IInv, EmitInv
<1>2. \A arch \in emitArches : DOMAIN emitted[arch] = Idx /\ \A i \in Idx : emitted[arch][i] = Declared(i, arch)
  BY <1>1 DEF Inv, IInv, EmitInv, Emitting
<1>3. \A arch \in emitArches : There(arch) = {i \in Idx : Declared(i, arch).ok}
  BY <1>2 DEF There
<1> QED
  BY <1>2, <1>3

\* No declaration names a type that is not declared, but a nested type that holds
\* others, when no chain of structs is longer than computeSkippedTypes has rounds:
\* a struct that comes to be skipped is found before anything that embeds it is
\* emitted, and a nested type that fails without leaving others behind fails what
\* holds it.
THEOREM NothingUndefinedCorrect ==
  ASSUME \A r \in Registries : Shallow(r)
  PROVE  Spec => []NothingUndefined
<1>1. Complete => NothingUndefined
  <2> SUFFICES ASSUME Complete, phase = "done", NEW arch \in emitArches, NEW i \in DOMAIN emitted[arch]
               PROVE  LET d == emitted[arch][i] IN
                      /\ \A j \in Names(d) : j \in There(arch) \/ (j \in archStructs /\ j \in There(Other(arch)))
                      /\ \A n \in NestedNames(d) : n \in DOMAIN d.nested \/ Inner(Definition(i, arch), n) # {}
    BY DEF NothingUndefined
  <2> USE DEF Complete, Inv
  <2>1. i \in Idx /\ emitted[arch][i] = Declared(i, arch)
    BY DoneFacts
  <2>2. /\ Names(Declared(i, arch)) \subseteq Idx \ skipped
        /\ \A n \in NestedNames(Declared(i, arch)) : n \in DOMAIN Declared(i, arch).nested \/ Inner(Definition(i, arch), n) # {}
    BY <2>1, NamesFacts
  <2>3. ASSUME NEW j \in Idx \ skipped PROVE j \in There(arch) \/ (j \in archStructs /\ j \in There(Other(arch)))
    <3>1. PICK a \in emitArches : Declared(j, a).ok
      BY <2>3 DEF SettledInv, Settled, Emitting, Emits
    <3>2. j \in There(a)
      BY <3>1, DoneFacts
    <3>3. j \notin archStructs => j \in There(arch)
      BY <3>1, DoneFacts DEF Declared
    <3>4. a = arch \/ a = Other(arch)
      BY DEF emitArches, Other
    <3> QED
      BY <3>2, <3>3, <3>4
  <2> QED
    BY <2>1, <2>2, <2>3
<1> QED
  BY <1>1, CompleteCorrect, PTL

DoneDry == phase = "done" => DryRunPredicts

\* Under the same hypothesis the dry run predicts the emission.
LEMMA DryRunCorrect ==
  ASSUME \A r \in Registries : Shallow(r)
  PROVE  Spec => []DoneDry
<1>1. Complete => DoneDry
  <2> SUFFICES ASSUME Complete, phase = "done" PROVE DryRunPredicts
    BY DEF DoneDry
  <2> USE DEF Complete, Inv
  <2>1. \A i \in Idx : (\A arch \in emitArches : i \notin There(arch)) <=> ~Emits(i)
    BY DoneFacts DEF Emits
  <2>2. \A i \in Idx : i \in skipped <=> ~Emits(i)
    BY DEF SettledInv, Settled, Emitting, IInv, SkippedInv
  <2>3. skipped \subseteq Idx
    BY DEF IInv, TypeOK
  <2> QED
    BY <2>1, <2>2, <2>3 DEF DryRunPredicts
<1> QED
  BY <1>1, CompleteCorrect, PTL

-----------------------------------------------------------------------------
(* Alignment *)

Aligns == {1, 2, 4, 8}
Packs == {0, 1, 2, 4, 8, 16, 32, 64, 128}
Divides(a, x) == \E q \in Nat : x = a * q

\* roundUp finds the next multiple, which is the least.
LEMMA RoundFacts ==
  ASSUME NEW x \in Nat, NEW a \in Aligns
  PROVE  /\ roundUp(x, a) \in Nat /\ x <= roundUp(x, a) /\ roundUp(x, a) < x + a /\ Divides(a, roundUp(x, a))
         /\ Divides(a, x) => roundUp(x, a) = x
         /\ Least(x, a) = roundUp(x, a)
<1> DEFINE y == roundUp(x, a)
<1>1. y \in x..(x + a - 1) /\ y % a = 0 /\ y \in Nat /\ y = a * (y \div a) /\ y \div a \in Nat
  BY DEF roundUp, Aligns
<1>2. \A z \in x..(x + a - 1) : z % a = 0 => z = y
  BY DEF roundUp, Aligns
<1>3. \A q \in Nat : x = a * q => x \in x..(x + a - 1) /\ x % a = 0
  BY DEF Aligns
<1>4. Least(x, a) = y
  <2> HIDE DEF y
  <2> QED
    BY <1>1, <1>2 DEF Least
<1>5. Divides(a, x) => y = x
  <2> HIDE DEF y
  <2> QED
    BY <1>2, <1>3 DEF Divides
<1>6. y <= x + a - 1 /\ x <= y /\ Divides(a, y)
  <2>1. Divides(a, y)
    <3> HIDE DEF y
    <3> QED
      BY <1>1, Zenon DEF Divides
  <2> HIDE DEF y
  <2> QED
    BY <1>1, <2>1 DEF Aligns
<1>7. y < x + a
  <2> HIDE DEF y
  <2> QED
    BY <1>1, <1>6 DEF Aligns
<1> QED
  BY <1>1, <1>4, <1>5, <1>6, <1>7

\* The larger and the smaller of two.
LEMMA PairFacts ==
  ASSUME NEW a \in Nat, NEW b \in Nat
  PROVE  /\ Max({a, b}) = IF a < b THEN b ELSE a
         /\ Min({a, b}) = IF a < b THEN a ELSE b
<1>1. Min({a, b}) \in {a, b} /\ Min({a, b}) <= a /\ Min({a, b}) <= b
  BY LeastOf
<1>2. Max({a, b}) \in {a, b} /\ a <= Max({a, b}) /\ b <= Max({a, b})
  BY GreatestOf, a + b \in Nat, a <= a + b, b <= a + b
<1> QED
  BY <1>1, <1>2

-----------------------------------------------------------------------------
(* The layout engine *)

Shape == [ok : BOOLEAN, size : Nat, align : Aligns, offsets : Seq(Nat)]
\* Of a list of layouts: all are there, an alignment as the packing leaves it, the
\* largest, and the ends of the members.
AllOK(ls) == \A k \in 1..Len(ls) : ls[k].ok
AlignIn(ls, pack, k) == IF pack # 0 /\ pack < ls[k].align THEN pack ELSE ls[k].align
Most(ls, pack) == Max({1} \cup {AlignIn(ls, pack, k) : k \in 1..Len(ls)})
EndAt(ls, union, pack, k, before) ==
  IF k = 0 THEN 0
  ELSE IF union THEN Max({before, ls[k].size}) ELSE roundUp(before, AlignIn(ls, pack, k)) + ls[k].size
Ends(ls, union, pack) == CHOOSE end : end = [k \in 0..Len(ls) |-> EndAt(ls, union, pack, k, end[k - 1])]
OffsetIn(ls, union, pack, k) == IF union THEN 0 ELSE roundUp(Ends(ls, union, pack)[k - 1], AlignIn(ls, pack, k))

\* structLayoutOf, by its parts.
LEMMA LayoutIs ==
  ASSUME NEW ls, NEW union, NEW pack
  PROVE  structLayoutOf(ls, union, pack) =
           IF ~AllOK(ls) THEN NoLayout
           ELSE [ok |-> TRUE, size |-> roundUp(Ends(ls, union, pack)[Len(ls)], Most(ls, pack)), align |-> Most(ls, pack),
                 offsets |-> [k \in 1..Len(ls) |-> OffsetIn(ls, union, pack, k)]]
BY DEF structLayoutOf, AllOK, AlignIn, Most, EndAt, Ends, OffsetIn

\* The alignments of members are those of the model, and the largest is one.
LEMMA AlignFacts ==
  ASSUME NEW ls \in Seq(Shape), NEW pack \in Packs
  PROVE  /\ \A k \in 1..Len(ls) : AlignIn(ls, pack, k) \in Aligns /\ AlignIn(ls, pack, k) <= Most(ls, pack)
         /\ \A k \in 1..Len(ls) : AlignIn(ls, pack, k) = IF pack = 0 THEN ls[k].align ELSE Min({pack, ls[k].align})
         /\ Most(ls, pack) \in Aligns
<1>1. ASSUME NEW k \in 1..Len(ls)
      PROVE  AlignIn(ls, pack, k) \in Aligns /\ AlignIn(ls, pack, k) = IF pack = 0 THEN ls[k].align ELSE Min({pack, ls[k].align})
  <2>1. ls[k] \in Shape
    OBVIOUS
  <2>2. ls[k].align \in Aligns
    BY <2>1 DEF Shape
  <2>3. Min({pack, ls[k].align}) = IF pack < ls[k].align THEN pack ELSE ls[k].align
    <3>1. pack \in Nat /\ ls[k].align \in Nat
      BY <2>2 DEF Aligns, Packs
    <3> QED
      BY <3>1, PairFacts
  <2> DEFINE a == ls[k].align
  <2> HIDE DEF a
  <2>4. AlignIn(ls, pack, k) = IF pack # 0 /\ pack < a THEN pack ELSE a
    BY DEF AlignIn, a
  <2>5. (IF pack # 0 /\ pack < a THEN pack ELSE a) \in Aligns
    BY <2>2 DEF Aligns, Packs, a
  <2>6. (IF pack # 0 /\ pack < a THEN pack ELSE a) = IF pack = 0 THEN a ELSE Min({pack, a})
    BY <2>2, <2>3 DEF Aligns, Packs, a
  <2> QED
    BY <2>4, <2>5, <2>6 DEF a
<1> DEFINE S == {1} \cup {AlignIn(ls, pack, k) : k \in 1..Len(ls)}
<1>2. S \in SUBSET Aligns /\ S # {}
  BY <1>1 DEF Aligns
<1>3. Max(S) \in S /\ \A y \in S : y <= Max(S)
  <2> HIDE DEF S
  <2>1. S \in SUBSET Nat /\ 8 \in Nat /\ \A y \in S : y <= 8
    BY <1>2 DEF Aligns
  <2>2. S # {}
    BY <1>2
  <2> QED
    BY <2>1, <2>2, GreatestOf
<1> QED
  BY <1>1, <1>2, <1>3 DEF Most

\* The ends are numbers, each computed from the one before.
LEMMA EndFacts ==
  ASSUME NEW ls \in Seq(Shape), NEW union \in BOOLEAN, NEW pack \in Packs
  PROVE  /\ Ends(ls, union, pack) \in [0..Len(ls) -> Nat]
         /\ \A k \in 0..Len(ls) : Ends(ls, union, pack)[k] = EndAt(ls, union, pack, k, Ends(ls, union, pack)[k - 1])
<1> DEFINE n == Len(ls)
           I == 0..n
           H == [f \in [I -> Nat] |-> [k \in I |-> EndAt(ls, union, pack, k, f[k - 1])]]
<1>1. n \in Nat
  OBVIOUS
<1>2. ASSUME NEW k \in I, NEW b, k # 0 => b \in Nat PROVE EndAt(ls, union, pack, k, b) \in Nat
  <2>1. CASE k = 0
    BY <2>1 DEF EndAt
  <2>2. CASE k # 0
    <3>1. k \in 1..Len(ls) /\ ls[k] \in Shape /\ b \in Nat
      BY <1>2, <2>2
    <3>2. ls[k].size \in Nat
      BY <3>1 DEF Shape
    <3>3. Max({b, ls[k].size}) \in Nat
      BY <3>1, <3>2, PairFacts
    <3>4. roundUp(b, AlignIn(ls, pack, k)) \in Nat
      BY <3>1, AlignFacts, RoundFacts
    <3> QED
      BY <2>2, <3>2, <3>3, <3>4 DEF EndAt
  <2> QED
    BY <2>1, <2>2
<1>3. H \in [[I -> Nat] -> [I -> Nat]]
  <2>1. ASSUME NEW f \in [I -> Nat], NEW k \in I PROVE EndAt(ls, union, pack, k, f[k - 1]) \in Nat
    <3>1. k # 0 => f[k - 1] \in Nat
      BY <1>1
    <3> QED
      BY <1>2, <3>1
  <2> QED
    BY <2>1
<1>4. \A f, g \in [I -> Nat] : \A x \in I : (\A y \in I : y < x => f[y] = g[y]) => H[f][x] = H[g][x]
  <2> TAKE f, g \in [I -> Nat]
  <2> TAKE x \in I
  <2> HAVE \A y \in I : y < x => f[y] = g[y]
  <2>1. CASE x = 0
    BY <2>1 DEF EndAt
  <2>2. CASE x # 0
    <3>1. x - 1 \in I /\ x - 1 < x
      BY <1>1, <2>2
    <3>2. f[x - 1] = g[x - 1]
      BY <3>1
    <3> QED
      BY <3>2
  <2> QED
    BY <2>1, <2>2
<1>5. HasFixpoint(H, I, Nat)
  <2>1. I \in SUBSET (0..n) /\ 0 \in Nat
    OBVIOUS
  <2>2. Approximates(H, I, Nat)
    <3> HIDE DEF I, H
    <3> QED
      BY <1>3, <1>4 DEF Approximates
  <2> HIDE DEF I, H, n
  <2> QED
    BY <1>1, <2>1, <2>2, Recursion
<1>6. PICK f : f \in [I -> Nat] /\ f = [k \in I |-> EndAt(ls, union, pack, k, f[k - 1])]
  BY <1>5 DEF HasFixpoint
<1> DEFINE E == Ends(ls, union, pack)
<1>7. E = [k \in I |-> EndAt(ls, union, pack, k, E[k - 1])]
  BY <1>6 DEF Ends
<1>8. \A k \in I : E[k] = EndAt(ls, union, pack, k, E[k - 1])
  <2> HIDE DEF E
  <2> QED
    BY <1>7
<1>9. \A k \in I : E[k] \in Nat
  <2> DEFINE T == {k \in Nat : k \in I => E[k] \in Nat}
  <2>1. 0 \in T
    BY <1>2, <1>8
  <2>2. ASSUME NEW k \in T PROVE k + 1 \in T
    <3>1. SUFFICES ASSUME k + 1 \in I PROVE E[k + 1] \in Nat
      OBVIOUS
    <3>2. k \in I /\ (k + 1) - 1 = k
      BY <1>1, <3>1
    <3>3. E[k] \in Nat
      BY <3>2
    <3> HIDE DEF E, T, I
    <3> QED
      BY <1>2, <1>8, <3>1, <3>2, <3>3
  <2>3. T = Nat
    <3>1. T \in SUBSET Nat
      OBVIOUS
    <3> HIDE DEF T
    <3> QED
      BY <2>1, <2>2, <3>1, AllNaturals
  <2>4. ASSUME NEW k \in I PROVE E[k] \in Nat
    <3>1. k \in Nat
      BY <1>1
    <3>2. k \in T
      <4> HIDE DEF T
      <4> QED
        BY <2>3, <3>1
    <3> HIDE DEF E, I
    <3> QED
      BY <3>2
  <2> QED
    BY <2>4
<1> HIDE DEF E
<1>10. E \in [I -> Nat]
  BY <1>7, <1>9
<1> QED
  BY <1>8, <1>10 DEF E

\* What the engine computes is a layout, of a size that is a multiple of its alignment.
LEMMA LayoutFacts ==
  ASSUME NEW ls \in Seq(Shape), NEW union \in BOOLEAN, NEW pack \in Packs
  PROVE  LET l == structLayoutOf(ls, union, pack) IN
         /\ l \in Shape /\ Divides(l.align, l.size)
         /\ l.ok = AllOK(ls)
         /\ ~AllOK(ls) => l = NoLayout
         /\ AllOK(ls) => /\ l.size = roundUp(Ends(ls, union, pack)[Len(ls)], Most(ls, pack)) /\ l.align = Most(ls, pack)
                         /\ l.offsets = [k \in 1..Len(ls) |-> OffsetIn(ls, union, pack, k)]
<1> DEFINE l == structLayoutOf(ls, union, pack)
           s == roundUp(Ends(ls, union, pack)[Len(ls)], Most(ls, pack))
           o == [k \in 1..Len(ls) |-> OffsetIn(ls, union, pack, k)]
<1>1. l = IF ~AllOK(ls) THEN NoLayout ELSE [ok |-> TRUE, size |-> s, align |-> Most(ls, pack), offsets |-> o]
  BY LayoutIs
<1>2. Most(ls, pack) \in Aligns
  BY AlignFacts
<1>3. Ends(ls, union, pack) \in [0..Len(ls) -> Nat]
  BY EndFacts
<1>4. s \in Nat /\ Divides(Most(ls, pack), s)
  <2>1. Ends(ls, union, pack)[Len(ls)] \in Nat
    BY <1>3
  <2> QED
    BY <1>2, <2>1, RoundFacts
<1>5. o \in Seq(Nat)
  <2>1. ASSUME NEW k \in 1..Len(ls) PROVE OffsetIn(ls, union, pack, k) \in Nat
    <3>1. Ends(ls, union, pack)[k - 1] \in Nat
      BY <1>3
    <3>2. AlignIn(ls, pack, k) \in Aligns
      BY AlignFacts
    <3>3. roundUp(Ends(ls, union, pack)[k - 1], AlignIn(ls, pack, k)) \in Nat
      BY <3>1, <3>2, RoundFacts
    <3> QED
      BY <3>3 DEF OffsetIn
  <2>2. Len(ls) \in Nat
    OBVIOUS
  <2> QED
    BY <2>1, <2>2
<1>6. NoLayout \in Shape /\ Divides(NoLayout.align, NoLayout.size) /\ NoLayout.ok = FALSE
  BY DEF NoLayout, Shape, Aligns, Divides
<1> HIDE DEF l, s, o
<1>7. AllOK(ls) \in BOOLEAN
  BY DEF AllOK
<1>8. CASE AllOK(ls)
  <2>1. l = [ok |-> TRUE, size |-> s, align |-> Most(ls, pack), offsets |-> o]
    BY <1>1, <1>8
  <2>2. l \in Shape /\ l.ok = TRUE /\ l.size = s /\ l.align = Most(ls, pack) /\ l.offsets = o
    BY <1>2, <1>4, <1>5, <2>1 DEF Shape
  <2>3. AllOK(ls) = TRUE
    BY <1>7, <1>8
  <2> QED
    BY <1>4, <1>8, <2>2, <2>3 DEF l, s, o
<1>9. CASE ~AllOK(ls)
  <2>1. l = NoLayout
    BY <1>1, <1>9
  <2>2. AllOK(ls) = FALSE
    BY <1>7, <1>9
  <2> QED
    BY <1>6, <1>9, <2>1, <2>2 DEF l
<1> QED
  BY <1>8, <1>9

-----------------------------------------------------------------------------
(* The engine does what C does *)

\* Every offset is the least its alignment allows after the member before.
Low(ls, pack, k) == IF pack = 0 THEN ls[k].align ELSE Min({pack, ls[k].align})
PlacedAt(ls, union, pack, k, before) ==
  IF k = 1 \/ union THEN 0 ELSE Least(before + ls[k - 1].size, Low(ls, pack, k))
Placed(ls, union, pack) == CHOOSE offset : offset = [k \in 1..Len(ls) |-> PlacedAt(ls, union, pack, k, offset[k - 1])]
Lowest(ls, pack) == Max({1} \cup {Low(ls, pack, k) : k \in 1..Len(ls)})
LastIn(ls, union, pack) == Max({0} \cup {Placed(ls, union, pack)[k] + ls[k].size : k \in 1..Len(ls)})

\* Place, by its parts.
LEMMA PlaceIs ==
  ASSUME NEW ls, NEW union, NEW pack
  PROVE  Place(ls, union, pack) =
           IF ~AllOK(ls) THEN NoLayout
           ELSE [ok |-> TRUE, size |-> Least(LastIn(ls, union, pack), Lowest(ls, pack)), align |-> Lowest(ls, pack),
                 offsets |-> [k \in 1..Len(ls) |-> Placed(ls, union, pack)[k]]]
BY DEF Place, AllOK, Low, PlacedAt, Placed, Lowest, LastIn

\* The offsets of the reference definition exist, each from the one before.
LEMMA LowFacts ==
  ASSUME NEW ls \in Seq(Shape), NEW pack \in Packs
  PROVE  /\ \A k \in 1..Len(ls) : Low(ls, pack, k) = AlignIn(ls, pack, k)
         /\ Lowest(ls, pack) = Most(ls, pack)
<1>1. \A k \in 1..Len(ls) : Low(ls, pack, k) = AlignIn(ls, pack, k)
  BY AlignFacts DEF Low
<1>2. {Low(ls, pack, k) : k \in 1..Len(ls)} = {AlignIn(ls, pack, k) : k \in 1..Len(ls)}
  BY <1>1
<1> QED
  BY <1>1, <1>2 DEF Lowest, Most

\* The engine's offsets do, too: each from the end of the member before.
LEMMA OffsetSteps ==
  ASSUME NEW ls \in Seq(Shape), NEW union \in BOOLEAN, NEW pack \in Packs, NEW k \in 1..Len(ls)
  PROVE  LET off(j) == OffsetIn(ls, union, pack, j) IN
         /\ off(k) \in Nat /\ ls[k].size \in Nat /\ (union => off(k) = 0)
         /\ Ends(ls, union, pack)[k] = IF union THEN Max({Ends(ls, union, pack)[k - 1], ls[k].size}) ELSE off(k) + ls[k].size
         /\ ~union => Ends(ls, union, pack)[k - 1] <= off(k)
         /\ off(k) = PlacedAt(ls, union, pack, k, off(k - 1))
<1> DEFINE E == Ends(ls, union, pack)
           off(j) == OffsetIn(ls, union, pack, j)
<1>1. Len(ls) \in Nat /\ k \in Nat /\ k # 0 /\ k - 1 \in 0..Len(ls) /\ k \in 0..Len(ls)
  OBVIOUS
<1>2. E \in [0..Len(ls) -> Nat] /\ \A j \in 0..Len(ls) : E[j] = EndAt(ls, union, pack, j, E[j - 1])
  BY EndFacts
<1> HIDE DEF E
<1>3. AlignIn(ls, pack, k) \in Aligns /\ Low(ls, pack, k) = AlignIn(ls, pack, k) /\ E[k - 1] \in Nat
  BY <1>1, <1>2, AlignFacts, LowFacts
<1>4. ls[k].size \in Nat
  <2>1. ls[k] \in Shape
    OBVIOUS
  <2> QED
    BY <2>1 DEF Shape
<1>5. off(k) = IF union THEN 0 ELSE roundUp(E[k - 1], AlignIn(ls, pack, k))
  BY DEF OffsetIn, E
<1>6. /\ roundUp(E[k - 1], AlignIn(ls, pack, k)) \in Nat /\ E[k - 1] <= roundUp(E[k - 1], AlignIn(ls, pack, k))
      /\ Least(E[k - 1], Low(ls, pack, k)) = roundUp(E[k - 1], AlignIn(ls, pack, k))
  BY <1>3, RoundFacts
<1>7. E[k] = IF union THEN Max({E[k - 1], ls[k].size}) ELSE off(k) + ls[k].size
  BY <1>1, <1>2, <1>5 DEF EndAt
<1>8. off(k) = PlacedAt(ls, union, pack, k, off(k - 1))
  <2>1. CASE union
    BY <1>5, <2>1 DEF PlacedAt
  <2>2. CASE ~union /\ k = 1
    <3>1. E[k - 1] = 0
      BY <1>1, <1>2, <2>2 DEF EndAt
    <3>2. Divides(AlignIn(ls, pack, k), 0)
      BY <1>3 DEF Divides, Aligns
    <3>3. roundUp(0, AlignIn(ls, pack, k)) = 0
      BY <1>3, <3>2, RoundFacts
    <3> QED
      BY <1>5, <2>2, <3>1, <3>3 DEF PlacedAt
  <2>3. CASE ~union /\ k # 1
    <3>1. k - 1 \in 0..Len(ls) /\ k - 1 # 0
      BY <1>1, <2>3
    <3>2. E[k - 1] = off(k - 1) + ls[k - 1].size
      BY <1>2, <2>3, <3>1 DEF EndAt, OffsetIn, E
    <3> QED
      BY <1>5, <1>6, <2>3, <3>2 DEF PlacedAt
  <2> QED
    BY <2>1, <2>2, <2>3
<1> HIDE DEF off
<1>9. off(k) \in Nat /\ (union => off(k) = 0) /\ (~union => E[k - 1] <= off(k))
  BY <1>5, <1>6
<1> QED
  BY <1>4, <1>7, <1>8, <1>9 DEF E, off

\* So the offsets are the same.
LEMMA PlacedFacts ==
  ASSUME NEW ls \in Seq(Shape), NEW union \in BOOLEAN, NEW pack \in Packs
  PROVE  \A k \in 1..Len(ls) : Placed(ls, union, pack)[k] = OffsetIn(ls, union, pack, k)
<1> DEFINE n == Len(ls)
           off(k) == OffsetIn(ls, union, pack, k)
           O == [k \in 1..n |-> off(k)]
           P == Placed(ls, union, pack)
<1>1. n \in Nat
  OBVIOUS
<1>2. \A k \in 1..n : off(k) = PlacedAt(ls, union, pack, k, off(k - 1))
  BY OffsetSteps
<1>3. \A k \in 1..n : PlacedAt(ls, union, pack, k, off(k - 1)) = PlacedAt(ls, union, pack, k, O[k - 1])
  <2> TAKE k \in 1..n
  <2>1. CASE k = 1
    BY <2>1 DEF PlacedAt
  <2>2. CASE k # 1
    <3>1. k - 1 \in 1..n
      BY <1>1, <2>2
    <3>2. O[k - 1] = off(k - 1)
      BY <3>1
    <3> QED
      BY <3>2
  <2> QED
    BY <2>1, <2>2
<1>4. O = [k \in 1..n |-> PlacedAt(ls, union, pack, k, O[k - 1])]
  BY <1>2, <1>3
<1>5. P = [k \in 1..n |-> PlacedAt(ls, union, pack, k, P[k - 1])]
  <2> HIDE DEF O, off
  <2> QED
    BY <1>4 DEF Placed
<1> HIDE DEF P, off
<1>6. \A k \in 1..n : P[k] = PlacedAt(ls, union, pack, k, P[k - 1])
  BY <1>5
<1> DEFINE T == {k \in Nat : k \in 1..n => P[k] = off(k)}
<1>7. 0 \in T
  OBVIOUS
<1>8. ASSUME NEW k \in T PROVE k + 1 \in T
  <2>1. SUFFICES ASSUME k + 1 \in 1..n PROVE P[k + 1] = off(k + 1)
    OBVIOUS
  <2>2. (k + 1) - 1 = k /\ k \in Nat
    OBVIOUS
  <2>3. P[k + 1] = PlacedAt(ls, union, pack, k + 1, P[k]) /\ off(k + 1) = PlacedAt(ls, union, pack, k + 1, off(k))
    <3> HIDE DEF T
    <3> QED
      BY <1>2, <1>6, <2>1, <2>2
  <2>4. CASE k = 0
    BY <2>3, <2>4 DEF PlacedAt
  <2>5. CASE k # 0
    <3>1. k \in 1..n
      BY <1>1, <2>1, <2>2, <2>5
    <3>2. P[k] = off(k)
      BY <3>1
    <3> QED
      BY <2>3, <3>2
  <2> QED
    BY <2>4, <2>5
<1>9. T = Nat
  <2>1. T \in SUBSET Nat
    OBVIOUS
  <2> HIDE DEF T
  <2> QED
    BY <1>7, <1>8, <2>1, AllNaturals
<1>10. ASSUME NEW k \in 1..n PROVE P[k] = off(k)
  <2>1. k \in Nat
    BY <1>1
  <2>2. k \in T
    <3> HIDE DEF T
    <3> QED
      BY <1>9, <2>1
  <2> QED
    BY <2>2
<1> QED
  BY <1>10 DEF P, off

\* The end of the last member is the last end.
LEMMA LastFacts ==
  ASSUME NEW ls \in Seq(Shape), NEW union \in BOOLEAN, NEW pack \in Packs
  PROVE  LastIn(ls, union, pack) = Ends(ls, union, pack)[Len(ls)]
<1> DEFINE n == Len(ls)
           E == Ends(ls, union, pack)
           over(k) == OffsetIn(ls, union, pack, k) + ls[k].size
<1>1. n \in Nat
  OBVIOUS
<1>2. E \in [0..n -> Nat] /\ E[0] = 0
  BY EndFacts DEF EndAt
<1>3. ASSUME NEW k \in 1..n
      PROVE  /\ over(k) \in Nat /\ E[k - 1] <= E[k] /\ over(k) <= E[k]
             /\ E[k] = over(k) \/ E[k] = E[k - 1]
  <2> DEFINE off == OffsetIn(ls, union, pack, k)
             s == ls[k].size
  <2>1. /\ off \in Nat /\ s \in Nat /\ (union => off = 0)
        /\ E[k] = IF union THEN Max({E[k - 1], s}) ELSE off + s
        /\ ~union => E[k - 1] <= off
    BY OffsetSteps
  <2>2. k - 1 \in 0..n /\ E[k - 1] \in Nat
    BY <1>1, <1>2
  <2>3. Max({E[k - 1], s}) = IF E[k - 1] < s THEN s ELSE E[k - 1]
    BY <2>1, <2>2, PairFacts
  <2>4. over(k) = off + s
    OBVIOUS
  <2> HIDE DEF over, off, s, E, n
  <2> QED
    BY <2>1, <2>2, <2>3, <2>4
<1> HIDE DEF over, E
<1> DEFINE good(k) == (\A j \in 1..k : over(j) <= E[k]) /\ (E[k] = 0 \/ \E j \in 1..k : E[k] = over(j))
           T == {k \in Nat : k \in 0..n => good(k)}
<1>4. 0 \in T
  BY <1>2
<1>5. ASSUME NEW k \in T PROVE k + 1 \in T
  <2>1. SUFFICES ASSUME k + 1 \in 1..n PROVE good(k + 1)
    BY <1>1
  <2>2. k \in Nat /\ (k + 1) - 1 = k /\ k \in 0..n
    BY <1>1, <2>1
  <2>3. good(k)
    BY <2>2
  <2>4. E[k] \in Nat /\ E[k + 1] \in Nat
    BY <1>1, <1>2, <2>1, <2>2
  <2>5. over(k + 1) \in Nat /\ E[k] <= E[k + 1] /\ over(k + 1) <= E[k + 1] /\ (E[k + 1] = over(k + 1) \/ E[k + 1] = E[k])
    BY <1>3, <2>1, <2>2
  <2>6. \A j \in 1..(k + 1) : j \in 1..k \/ j = k + 1
    BY <2>2
  <2>7. \A j \in 1..k : over(j) \in Nat /\ j \in 1..(k + 1)
    BY <1>1, <1>3, <2>1, <2>2
  <2> HIDE DEF T
  <2>8. \A j \in 1..(k + 1) : over(j) <= E[k + 1]
    BY <2>3, <2>4, <2>5, <2>6, <2>7
  <2>9. E[k + 1] = 0 \/ \E j \in 1..(k + 1) : E[k + 1] = over(j)
    <3>1. k + 1 \in 1..(k + 1)
      BY <2>2
    <3> QED
      BY <2>3, <2>5, <2>7, <3>1
  <2> QED
    BY <2>8, <2>9
<1>6. T = Nat
  <2>1. T \in SUBSET Nat
    OBVIOUS
  <2> HIDE DEF T
  <2> QED
    BY <1>4, <1>5, <2>1, AllNaturals
<1>7. good(n)
  <2>1. n \in T
    <3> HIDE DEF T, n
    <3> QED
      BY <1>1, <1>6
  <2>2. n \in 0..n
    BY <1>1
  <2> HIDE DEF n, good
  <2> QED
    BY <2>1, <2>2
<1> DEFINE S == {0} \cup {over(k) : k \in 1..n}
<1>8. S \in SUBSET Nat /\ S # {} /\ E[n] \in Nat
  BY <1>1, <1>2, <1>3
<1>9. E[n] \in S /\ \A y \in S : y <= E[n]
  <2>1. \A y \in S : y = 0 \/ \E j \in 1..n : y = over(j)
    OBVIOUS
  <2>2. \A j \in 1..n : over(j) \in S
    OBVIOUS
  <2>3. 0 \in S
    OBVIOUS
  <2> HIDE DEF S
  <2> QED
    BY <1>7, <1>8, <2>1, <2>2, <2>3
<1>10. Max(S) = E[n]
  <2> HIDE DEF S, n
  <2>1. Max(S) \in S /\ \A y \in S : y <= Max(S)
    BY <1>8, <1>9, GreatestOf
  <2>2. Max(S) \in Nat /\ Max(S) <= E[n] /\ E[n] <= Max(S)
    BY <1>8, <1>9, <2>1
  <2> QED
    BY <1>8, <2>2
<1>11. LastIn(ls, union, pack) = Max(S)
  <2>1. \A k \in 1..n : Placed(ls, union, pack)[k] + ls[k].size = over(k)
    BY PlacedFacts DEF over
  <2>2. {Placed(ls, union, pack)[k] + ls[k].size : k \in 1..n} = {over(k) : k \in 1..n}
    BY <2>1
  <2> QED
    BY <2>2 DEF LastIn
<1> QED
  BY <1>10, <1>11 DEF E

\* structLayoutOf is the reference definition of a C layout: the engine's running
\* end of the fields and C's offsets agree, packed or not, union or not.
LEMMA EngineIsC ==
  ASSUME NEW ls \in Seq(Shape), NEW union \in BOOLEAN, NEW pack \in Packs
  PROVE  Place(ls, union, pack) = structLayoutOf(ls, union, pack)
<1> DEFINE e == Ends(ls, union, pack)[Len(ls)]
<1>1. Lowest(ls, pack) = Most(ls, pack) /\ Most(ls, pack) \in Aligns
  BY LowFacts, AlignFacts
<1>2. LastIn(ls, union, pack) = e /\ e \in Nat
  <2>1. Len(ls) \in 0..Len(ls)
    OBVIOUS
  <2> QED
    BY <2>1, LastFacts, EndFacts
<1>3. Least(e, Most(ls, pack)) = roundUp(e, Most(ls, pack))
  BY <1>1, <1>2, RoundFacts
<1>4. [k \in 1..Len(ls) |-> Placed(ls, union, pack)[k]] = [k \in 1..Len(ls) |-> OffsetIn(ls, union, pack, k)]
  BY PlacedFacts
<1> HIDE DEF e
<1>5. Place(ls, union, pack) =
        IF ~AllOK(ls) THEN NoLayout
        ELSE [ok |-> TRUE, size |-> roundUp(e, Most(ls, pack)), align |-> Most(ls, pack),
              offsets |-> [k \in 1..Len(ls) |-> OffsetIn(ls, union, pack, k)]]
  BY <1>1, <1>2, <1>3, <1>4, PlaceIs
<1> QED
  BY <1>5, LayoutIs DEF e

-----------------------------------------------------------------------------
(* The layouts of the structs *)

\* An array is laid out like its element, and larger.
LEMMA ArrayFacts ==
  ASSUME NEW l \in Shape, NEW n \in Nat \ {0}
  PROVE  /\ ArrayOf(l, n) \in Shape /\ ArrayOf(l, n).ok = l.ok /\ ArrayOf(l, n).size = n * l.size
         /\ ArrayOf(l, n).align = l.align /\ ArrayOf(l, n).offsets = l.offsets
         /\ Divides(l.align, l.size) => Divides(ArrayOf(l, n).align, ArrayOf(l, n).size)
<1>1. /\ l.ok \in BOOLEAN /\ l.size \in Nat /\ l.align \in Aligns /\ l.offsets \in Seq(Nat)
      /\ l = [ok |-> l.ok, size |-> l.size, align |-> l.align, offsets |-> l.offsets]
  BY DEF Shape
<1>2. n * l.size \in Nat
  BY <1>1
<1>3. ArrayOf(l, n) = [ok |-> l.ok, size |-> n * l.size, align |-> l.align, offsets |-> l.offsets]
  BY <1>1 DEF ArrayOf
<1>4. ArrayOf(l, n) \in Shape
  BY <1>1, <1>2, <1>3 DEF Shape
<1>5. ASSUME Divides(l.align, l.size) PROVE Divides(l.align, n * l.size)
  <2>1. PICK q \in Nat : l.size = l.align * q
    BY <1>5 DEF Divides
  <2>2. n * q \in Nat
    OBVIOUS
  <2>3. n * (l.align * q) = l.align * (n * q)
    <3>1. l.align \in Nat
      BY <1>1 DEF Aligns
    <3> DEFINE a == l.align
    <3> HIDE DEF a
    <3>2. a \in Nat
      BY <3>1 DEF a
    <3>3. n * (a * q) = a * (n * q)
      BY <3>2
    <3> QED
      BY <3>3 DEF a
  <2> QED
    BY <2>1, <2>2, <2>3 DEF Divides
<1> QED
  BY <1>3, <1>4, <1>5

\* Layouts of scalars and pointers are layouts.
LEMMA MemoryFacts ==
  ASSUME NEW size \in Nat, NEW align \in Aligns
  PROVE  /\ Layout(size, align) \in Shape /\ Layout(size, align).ok = TRUE /\ Layout(size, align).size = size
         /\ Layout(size, align).align = align /\ Layout(size, align).offsets = << >>
         /\ wordLayout \in Shape /\ NoLayout \in Shape /\ NoLayout.ok = FALSE
BY DEF Layout, wordLayout, NoLayout, Shape, Aligns

\* A field has the layout of its type, as an array.
OneLayout(f, structs, nested) ==
  CASE f.kind = "native"  -> Layout(f.size, f.align)
    [] f.kind = "pointer" -> wordLayout
    [] f.kind = "ref"     -> structs[f.to]
    [] f.kind = "nested"  -> nested[f.to]

\* The structs before i have layouts.
Before(structs, i) == \A j \in 1..(i - 1) : structs[j] \in Shape
\* ... and the nested types that the fields name.
Inside(d, nested) == \A k \in DOMAIN d.fields : d.fields[k].kind = "nested" => nested[d.fields[k].to] \in Shape

\* A field has the layout of one of its elements, so many times.
LEMMA FieldLayoutFacts ==
  ASSUME NEW d, NEW i, Listed(d, i), NEW structs, Before(structs, i), NEW nested, Inside(d, nested)
  PROVE  /\ \A k \in DOMAIN d.fields : /\ OneLayout(d.fields[k], structs, nested) \in Shape
                                       /\ fieldLayout(d.fields[k], structs, nested) = ArrayOf(OneLayout(d.fields[k], structs, nested), d.fields[k].len)
                                       /\ fieldLayout(d.fields[k], structs, nested) \in Shape
         /\ fieldLayouts(d, structs, nested) \in Seq(Shape)
         /\ Len(fieldLayouts(d, structs, nested)) = Len(d.fields)
         /\ \A k \in DOMAIN d.fields : fieldLayouts(d, structs, nested)[k] = fieldLayout(d.fields[k], structs, nested)
<1>1. ASSUME NEW k \in DOMAIN d.fields PROVE /\ OneLayout(d.fields[k], structs, nested) \in Shape
                                             /\ fieldLayout(d.fields[k], structs, nested) = ArrayOf(OneLayout(d.fields[k], structs, nested), d.fields[k].len)
                                             /\ fieldLayout(d.fields[k], structs, nested) \in Shape
  <2> DEFINE f == d.fields[k]
  <2>1. f.kind \in {"native", "pointer", "ref", "nested"} /\ f.size \in Nat /\ f.len \in Nat \ {0}
    BY FieldFacts
  <2>2. (f.kind = "native" => f.align \in Aligns) /\ (f.kind = "ref" => structs[f.to] \in Shape) /\ (f.kind = "nested" => nested[f.to] \in Shape)
    BY DEF Listed, Before, Inside, Aligns
  <2> HIDE DEF f
  <2>3. OneLayout(f, structs, nested) \in Shape
    <3>1. CASE f.kind = "native"
      <4>1. Layout(f.size, f.align) \in Shape
        BY <2>1, <2>2, <3>1, MemoryFacts
      <4> QED
        BY <3>1, <4>1 DEF OneLayout
    <3>2. CASE f.kind = "pointer"
      <4>1. wordLayout \in Shape
        BY MemoryFacts DEF Aligns
      <4> QED
        BY <3>2, <4>1 DEF OneLayout
    <3>3. CASE f.kind = "ref"
      BY <2>2, <3>3 DEF OneLayout
    <3>4. CASE f.kind = "nested"
      BY <2>2, <3>4 DEF OneLayout
    <3> QED
      BY <2>1, <3>1, <3>2, <3>3, <3>4
  <2>4. fieldLayout(f, structs, nested) = ArrayOf(OneLayout(f, structs, nested), f.len)
    BY DEF fieldLayout, OneLayout
  <2>5. fieldLayout(f, structs, nested) \in Shape
    BY <2>1, <2>3, <2>4, ArrayFacts
  <2> QED
    BY <2>3, <2>4, <2>5 DEF f
<1>2. d.fields \in Seq(Field)
  BY DEF Listed
<1>3. fieldLayouts(d, structs, nested) = [k \in DOMAIN d.fields |-> fieldLayout(d.fields[k], structs, nested)]
  BY DEF fieldLayouts
<1>4. DOMAIN d.fields = 1..Len(d.fields) /\ Len(d.fields) \in Nat
  BY <1>2
<1>5. fieldLayouts(d, structs, nested) \in Seq(Shape)
  BY <1>1, <1>3, <1>4
<1>6. Len(fieldLayouts(d, structs, nested)) = Len(d.fields)
  BY <1>3, <1>4
<1> QED
  BY <1>1, <1>3, <1>5, <1>6

\* What a variant's layout is computed from.
VariantOK(def, i) == Listed(def, i) /\ Nesting(def) /\ \A n \in DOMAIN def.nested : Listed(def.nested[n], i)

\* Every variant is as a layout needs it.
LEMMA VariantFacts ==
  ASSUME RegistryOK, NEW i \in Idx, NEW v \in DOMAIN registry[i].variants
  PROVE  VariantOK(registry[i].variants[v], i)
BY RegistryFacts DEF VariantOK

\* What a nested type's layout is, given those of the earlier ones.
NestedAt(def, structs, n, nested) ==
  structLayoutOf(fieldLayouts(def.nested[n], structs, nested), def.nested[n].union, def.nested[n].pack)
\* The nested types before the one numbered n have layouts.
Earlier(def, n, nested) == \A m \in DOMAIN def.nested : m < n => nested[m] \in Shape

\* A nested type has a layout when the structs before i and the types nested in it
\* have, and C's is the same.
LEMMA NestedLayoutFacts ==
  ASSUME NEW def, NEW i, VariantOK(def, i), NEW structs, Before(structs, i), NEW n \in DOMAIN def.nested, NEW nested, Earlier(def, n, nested)
  PROVE  /\ NestedAt(def, structs, n, nested) \in Shape
         /\ Divides(NestedAt(def, structs, n, nested).align, NestedAt(def, structs, n, nested).size)
         /\ Place(fieldLayouts(def.nested[n], structs, nested), def.nested[n].union, def.nested[n].pack) = NestedAt(def, structs, n, nested)
         /\ Inside(def.nested[n], nested)
<1> DEFINE d == def.nested[n]
<1>1. Listed(d, i) /\ Inside(d, nested)
  <2>1. n \in Nat /\ Inner(def, n) \subseteq 1..(n - 1) /\ Inner(def, n) \subseteq DOMAIN def.nested
    BY DEF VariantOK, Nesting, Inner
  <2>2. \A m \in Inner(def, n) : nested[m] \in Shape
    BY <2>1 DEF Earlier
  <2> QED
    BY <2>2 DEF VariantOK, Nesting, Inside
<1>2. d.union \in BOOLEAN /\ d.pack \in Packs
  BY <1>1 DEF Listed, Packs
<1> HIDE DEF d
<1>3. fieldLayouts(d, structs, nested) \in Seq(Shape)
  BY <1>1, FieldLayoutFacts
<1>4. LET l == structLayoutOf(fieldLayouts(d, structs, nested), d.union, d.pack) IN
      /\ l \in Shape /\ Divides(l.align, l.size) /\ Place(fieldLayouts(d, structs, nested), d.union, d.pack) = l
  BY <1>2, <1>3, LayoutFacts, EngineIsC
<1> QED
  BY <1>1, <1>4 DEF d, NestedAt

\* A layout of a list of fields goes by the layouts that the fields name.
LEMMA MembersAgree ==
  ASSUME NEW d, NEW i, Listed(d, i), NEW s, NEW t, NEW m, NEW m2,
         \A k \in DOMAIN d.fields : /\ d.fields[k].kind = "ref" => s[d.fields[k].to] = t[d.fields[k].to]
                                    /\ d.fields[k].kind = "nested" => m[d.fields[k].to] = m2[d.fields[k].to]
  PROVE  fieldLayouts(d, s, m) = fieldLayouts(d, t, m2)
<1>1. \A k \in DOMAIN d.fields : fieldLayout(d.fields[k], s, m) = fieldLayout(d.fields[k], t, m2)
  <2> TAKE k \in DOMAIN d.fields
  <2>1. d.fields[k].kind \in {"native", "pointer", "ref", "nested"}
    BY FieldFacts
  <2> QED
    BY <2>1 DEF fieldLayout
<1> QED
  BY <1>1 DEF fieldLayouts

\* It depends on the structs before i only, ...
Agree(s, t, i) == \A j \in 1..(i - 1) : s[j] = t[j]

\* ... and a nested type's on the types nested in it as well.
LEMMA NestedAgrees ==
  ASSUME NEW def, NEW i, VariantOK(def, i), NEW s, NEW t, Agree(s, t, i), NEW n \in DOMAIN def.nested,
         NEW f, NEW g, \A m \in DOMAIN def.nested : m < n => f[m] = g[m]
  PROVE  fieldLayouts(def.nested[n], s, f) = fieldLayouts(def.nested[n], t, g)
<1> DEFINE d == def.nested[n]
<1>1. n \in Nat /\ Inner(def, n) \subseteq 1..(n - 1) /\ Inner(def, n) \subseteq DOMAIN def.nested
  BY DEF VariantOK, Nesting, Inner
<1>2. \A m \in Inner(def, n) : f[m] = g[m]
  BY <1>1
<1>3. Listed(d, i) /\ \A k \in DOMAIN d.fields : d.fields[k].kind = "nested" => d.fields[k].to \in Inner(def, n)
  BY DEF VariantOK, Nesting
<1> HIDE DEF d
<1>4. \A k \in DOMAIN d.fields : d.fields[k].kind = "ref" => s[d.fields[k].to] = t[d.fields[k].to]
  BY <1>3 DEF Listed, Agree
<1>5. fieldLayouts(d, s, f) = fieldLayouts(d, t, g)
  BY <1>2, <1>3, <1>4, MembersAgree
<1> QED
  BY <1>5 DEF d

\* The engine's recursion over the nested types ends, ...
LEMMA NestedsFacts ==
  ASSUME NEW def, NEW i, VariantOK(def, i), NEW structs, Before(structs, i)
  PROVE  /\ nestedLayouts(def, structs) \in [DOMAIN def.nested -> Shape]
         /\ \A n \in DOMAIN def.nested :
              /\ nestedLayouts(def, structs)[n] = NestedAt(def, structs, n, nestedLayouts(def, structs))
              /\ nestedLayouts(def, structs)[n] \in Shape
              /\ Divides(nestedLayouts(def, structs)[n].align, nestedLayouts(def, structs)[n].size)
              /\ Inside(def.nested[n], nestedLayouts(def, structs))
         /\ Inside(def, nestedLayouts(def, structs))
<1> DEFINE I == DOMAIN def.nested
           C == nestedLayouts(def, structs)
           H == [f \in [I -> Shape] |-> [n \in I |-> NestedAt(def, structs, n, f)]]
<1>1. Len(def.nested) \in Nat /\ I = 1..Len(def.nested)
  BY DEF VariantOK, Nesting
<1>2. \A f \in [I -> Shape] : \A n \in I : NestedAt(def, structs, n, f) \in Shape
  BY NestedLayoutFacts DEF Earlier
<1>3. ASSUME NEW f, NEW g, NEW x \in I, \A y \in I : y < x => f[y] = g[y]
      PROVE  NestedAt(def, structs, x, f) = NestedAt(def, structs, x, g)
  <2>1. Agree(structs, structs, i)
    BY DEF Agree
  <2>2. fieldLayouts(def.nested[x], structs, f) = fieldLayouts(def.nested[x], structs, g)
    BY <1>3, <2>1, NestedAgrees
  <2> QED
    BY <2>2 DEF NestedAt
<1>4. HasFixpoint(H, I, Shape)
  <2>1. \A f \in [I -> Shape] : [n \in I |-> NestedAt(def, structs, n, f)] \in [I -> Shape]
    BY <1>2
  <2>2. \A f, g \in [I -> Shape] : \A x \in I : (\A y \in I : y < x => f[y] = g[y]) =>
          [n \in I |-> NestedAt(def, structs, n, f)][x] = [n \in I |-> NestedAt(def, structs, n, g)][x]
    BY <1>3
  <2>3. Approximates(H, I, Shape)
    BY <2>1, <2>2 DEF Approximates
  <2>4. I \in SUBSET (0..Len(def.nested)) /\ NoLayout \in Shape
    BY <1>1 DEF NoLayout, Shape, Aligns
  <2> HIDE DEF H, I
  <2> QED
    BY <1>1, <2>3, <2>4, Recursion
<1>5. PICK f : f \in [I -> Shape] /\ f = [n \in I |-> NestedAt(def, structs, n, f)]
  BY <1>4 DEF HasFixpoint
<1>6. C = CHOOSE layout : layout = [n \in I |-> NestedAt(def, structs, n, layout)]
  BY DEF nestedLayouts, NestedAt
<1>7. C = [n \in I |-> NestedAt(def, structs, n, C)]
  <2> HIDE DEF C, I
  <2> QED
    BY <1>5, <1>6
<1> HIDE DEF C, H
<1>8. /\ C = [n \in I |-> C[n]]
      /\ \A n \in I : C[n] = NestedAt(def, structs, n, C)
  <2> HIDE DEF I
  <2> QED
    BY <1>7
<1> DEFINE T == {n \in Nat : n \in I => C[n] \in Shape}
<1>9. ASSUME NEW n \in Nat, \A m \in Nat : m < n => m \in T PROVE n \in T
  <2> SUFFICES ASSUME n \in I PROVE C[n] \in Shape
    OBVIOUS
  <2>1. Earlier(def, n, C)
    BY <1>1, <1>9 DEF Earlier
  <2> QED
    BY <1>8, <2>1, NestedLayoutFacts
<1>10. \A n \in Nat : n \in T
  <2> HIDE DEF T
  <2> QED
    BY <1>9, FromBelow
<1>11. \A n \in I : C[n] \in Shape
  BY <1>1, <1>10
<1> HIDE DEF T
<1>12. \A n \in I : Earlier(def, n, C)
  BY <1>11 DEF Earlier
<1>13. \A n \in I : Divides(C[n].align, C[n].size) /\ Inside(def.nested[n], C)
  BY <1>8, <1>12, NestedLayoutFacts
<1>14. Inside(def, C)
  BY <1>11 DEF VariantOK, Nesting, Inside, Inner
<1>15. C \in [I -> Shape]
  <2> HIDE DEF I
  <2> QED
    BY <1>8, <1>11
<1> QED
  BY <1>8, <1>11, <1>13, <1>14, <1>15 DEF C

\* ... and so does C's, with the same layouts.
LEMMA CNestedIs ==
  ASSUME NEW def, NEW i, VariantOK(def, i), NEW structs, Before(structs, i)
  PROVE  CNested(def, structs) = nestedLayouts(def, structs)
<1> DEFINE I == DOMAIN def.nested
           E == nestedLayouts(def, structs)
           C == CNested(def, structs)
           p(n, f) == Place(fieldLayouts(def.nested[n], structs, f), def.nested[n].union, def.nested[n].pack)
<1>1. Len(def.nested) \in Nat /\ I = 1..Len(def.nested)
  BY DEF VariantOK, Nesting
<1>2. E \in [I -> Shape] /\ \A n \in I : E[n] = NestedAt(def, structs, n, E)
  BY NestedsFacts
<1>3. ASSUME NEW f, NEW n \in I, Earlier(def, n, f) PROVE p(n, f) = NestedAt(def, structs, n, f)
  BY <1>3, NestedLayoutFacts
<1>4. C = CHOOSE layout : layout = [n \in I |-> p(n, layout)]
  BY DEF CNested
<1> HIDE DEF C, E, p
<1>5. \A n \in I : Earlier(def, n, E)
  BY <1>2 DEF Earlier
<1>6. \A n \in I : E[n] = p(n, E)
  BY <1>2, <1>3, <1>5
<1>7. E = [n \in I |-> p(n, E)]
  <2>1. E = [n \in I |-> E[n]]
    BY <1>2
  <2> HIDE DEF I
  <2> QED
    BY <1>6, <2>1
<1>8. C = [n \in I |-> p(n, C)]
  <2> HIDE DEF I
  <2> QED
    BY <1>4, <1>7
<1> DEFINE T == {n \in Nat : n \in I => C[n] = E[n]}
<1>9. ASSUME NEW n \in Nat, \A m \in Nat : m < n => m \in T PROVE n \in T
  <2> SUFFICES ASSUME n \in I PROVE C[n] = E[n]
    OBVIOUS
  <2>1. \A m \in I : m < n => C[m] = E[m]
    BY <1>1, <1>9
  <2>2. Agree(structs, structs, i)
    BY DEF Agree
  <2>3. fieldLayouts(def.nested[n], structs, C) = fieldLayouts(def.nested[n], structs, E)
    BY <2>1, <2>2, NestedAgrees
  <2>4. p(n, C) = p(n, E)
    BY <2>3 DEF p
  <2>5. C[n] = p(n, C)
    <3> HIDE DEF I
    <3> QED
      BY <1>8
  <2> QED
    BY <1>6, <2>4, <2>5
<1>10. \A n \in Nat : n \in T
  <2> HIDE DEF T
  <2> QED
    BY <1>9, FromBelow
<1>11. \A n \in I : C[n] = E[n]
  BY <1>1, <1>10
<1>12. C = [n \in I |-> C[n]] /\ E = [n \in I |-> E[n]]
  <2> HIDE DEF I
  <2> QED
    BY <1>2, <1>8
<1>13. C = E
  <2> HIDE DEF I
  <2> QED
    BY <1>11, <1>12
<1> QED
  BY <1>13 DEF C, E

LayoutFrom(def, structs) == structLayoutOf(Fields(def, def, structs), def.union, def.pack)

\* So has the variant itself, the engine's and C's alike.
LEMMA VariantLayoutFacts ==
  ASSUME NEW def, NEW i, VariantOK(def, i), NEW structs, Before(structs, i)
  PROVE  /\ LayoutFrom(def, structs) \in Shape /\ Divides(LayoutFrom(def, structs).align, LayoutFrom(def, structs).size)
         /\ Place(fieldLayouts(def, structs, CNested(def, structs)), def.union, def.pack) = LayoutFrom(def, structs)
         /\ Fields(def, def, structs) \in Seq(Shape)
<1>1. Inside(def, nestedLayouts(def, structs))
  BY NestedsFacts
<1>2. Fields(def, def, structs) \in Seq(Shape)
  BY <1>1, FieldLayoutFacts DEF VariantOK, Fields
<1>3. def.union \in BOOLEAN /\ def.pack \in Packs
  BY DEF VariantOK, Listed, Packs
<1>4. fieldLayouts(def, structs, CNested(def, structs)) = Fields(def, def, structs)
  BY CNestedIs DEF Fields
<1> DEFINE ls == Fields(def, def, structs)
           l == structLayoutOf(ls, def.union, def.pack)
<1>5. l \in Shape /\ Divides(l.align, l.size) /\ Place(ls, def.union, def.pack) = l
  <2> HIDE DEF ls
  <2> QED
    BY <1>2, <1>3, LayoutFacts, EngineIsC DEF ls
<1> QED
  BY <1>2, <1>4, <1>5 DEF LayoutFrom

\* The layouts of the nested types depend on the structs before i only, ...
LEMMA NestedsAgree ==
  ASSUME NEW def, NEW i, VariantOK(def, i), NEW s, NEW t, Before(s, i), Before(t, i), Agree(s, t, i)
  PROVE  nestedLayouts(def, s) = nestedLayouts(def, t)
<1> DEFINE I == DOMAIN def.nested
           A == nestedLayouts(def, s)
           B == nestedLayouts(def, t)
           T == {n \in Nat : n \in I => A[n] = B[n]}
<1>1. Len(def.nested) \in Nat /\ I = 1..Len(def.nested)
  BY DEF VariantOK, Nesting
<1>2. A \in [I -> Shape] /\ B \in [I -> Shape] /\ \A n \in I : A[n] = NestedAt(def, s, n, A) /\ B[n] = NestedAt(def, t, n, B)
  BY NestedsFacts
<1> HIDE DEF A, B
<1>3. ASSUME NEW n \in Nat, \A m \in Nat : m < n => m \in T PROVE n \in T
  <2> SUFFICES ASSUME n \in I PROVE A[n] = B[n]
    OBVIOUS
  <2>1. \A m \in I : m < n => A[m] = B[m]
    BY <1>1, <1>3
  <2>2. fieldLayouts(def.nested[n], s, A) = fieldLayouts(def.nested[n], t, B)
    <3> HIDE DEF T
    <3>1. \A m \in DOMAIN def.nested : m < n => A[m] = B[m]
      BY <2>1
    <3>2. n \in DOMAIN def.nested
      OBVIOUS
    <3> HIDE DEF I
    <3> QED
      BY <3>1, <3>2, NestedAgrees
  <2> QED
    BY <1>2, <2>2 DEF NestedAt
<1>4. \A n \in Nat : n \in T
  <2> HIDE DEF T
  <2> QED
    BY <1>3, FromBelow
<1>5. \A n \in I : A[n] = B[n]
  BY <1>1, <1>4
<1>6. A = B
  <2> HIDE DEF I
  <2>1. A = [n \in I |-> A[n]] /\ B = [n \in I |-> B[n]]
    BY <1>2
  <2> QED
    BY <1>5, <2>1
<1> QED
  BY <1>6 DEF A, B

\* ... so the variant's does, ...
LEMMA LayoutAgrees ==
  ASSUME NEW def, NEW i, VariantOK(def, i), NEW s, NEW t, Before(s, i), Before(t, i), Agree(s, t, i)
  PROVE  LayoutFrom(def, s) = LayoutFrom(def, t)
<1>1. nestedLayouts(def, s) = nestedLayouts(def, t)
  BY NestedsAgree
<1> DEFINE m == nestedLayouts(def, t)
<1>2. \A k \in DOMAIN def.fields : def.fields[k].kind = "ref" => s[def.fields[k].to] = t[def.fields[k].to]
  BY DEF VariantOK, Listed, Agree
<1>3. fieldLayouts(def, s, m) = fieldLayouts(def, t, m)
  <2> HIDE DEF m
  <2> QED
    BY <1>2, MembersAgree DEF VariantOK
<1> QED
  BY <1>1, <1>3 DEF LayoutFrom, Fields

\* ... and so does the layout that the engine gives a struct.
EngineAt(i, arch, structs) ==
  LET v == pickVariant(i, arch) IN IF v = 0 THEN NoLayout ELSE LayoutFrom(registry[i].variants[v], structs)

\* What the engine computes for a struct is a layout, from the structs before it.
LEMMA EngineAtFacts ==
  ASSUME RegistryOK, NEW i \in Idx, NEW arch
  PROVE  /\ \A s : Before(s, i) => EngineAt(i, arch, s) \in Shape /\ Divides(EngineAt(i, arch, s).align, EngineAt(i, arch, s).size)
         /\ \A s, t : Before(s, i) /\ Before(t, i) /\ Agree(s, t, i) => EngineAt(i, arch, s) = EngineAt(i, arch, t)
<1> DEFINE v == pickVariant(i, arch)
           def == registry[i].variants[v]
<1>1. v # 0 => VariantOK(def, i)
  BY PickFacts, VariantFacts
<1>2. NoLayout \in Shape /\ Divides(NoLayout.align, NoLayout.size)
  BY DEF NoLayout, Shape, Aligns, Divides
<1>3. \A s : EngineAt(i, arch, s) = IF v = 0 THEN NoLayout ELSE LayoutFrom(def, s)
  BY DEF EngineAt
<1> HIDE DEF v, def
<1>4. ASSUME NEW s, Before(s, i) PROVE EngineAt(i, arch, s) \in Shape /\ Divides(EngineAt(i, arch, s).align, EngineAt(i, arch, s).size)
  BY <1>1, <1>2, <1>3, <1>4, VariantLayoutFacts
<1>5. ASSUME NEW s, NEW t, Before(s, i), Before(t, i), Agree(s, t, i) PROVE EngineAt(i, arch, s) = EngineAt(i, arch, t)
  BY <1>1, <1>3, <1>5, LayoutAgrees
<1> QED
  BY <1>4, <1>5

\* So every struct has one.
LEMMA LayoutsFacts ==
  ASSUME RegistryOK, NEW arch
  PROVE  /\ layouts(arch) \in [Idx -> Shape]
         /\ \A i \in Idx : /\ layouts(arch)[i] = EngineAt(i, arch, layouts(arch))
                           /\ Divides(layouts(arch)[i].align, layouts(arch)[i].size)
                           /\ Before(layouts(arch), i)
<1> DEFINE L == layouts(arch)
           H == [f \in [Idx -> Shape] |-> [i \in Idx |-> EngineAt(i, arch, f)]]
<1>1. Len(registry) \in Nat /\ Idx = 1..Len(registry)
  BY RegistryFacts
<1>2. \A f \in [Idx -> Shape] : \A i \in Idx : Before(f, i)
  BY <1>1 DEF Before
<1>3. HasFixpoint(H, Idx, Shape)
  <2>1. H \in [[Idx -> Shape] -> [Idx -> Shape]]
    BY <1>2, EngineAtFacts
  <2>2. ASSUME NEW f \in [Idx -> Shape], NEW g \in [Idx -> Shape], NEW x \in Idx, \A y \in Idx : y < x => f[y] = g[y]
        PROVE  H[f][x] = H[g][x]
    <3>1. Agree(f, g, x)
      BY <1>1, <2>2 DEF Agree
    <3>2. EngineAt(x, arch, f) = EngineAt(x, arch, g)
      BY <1>2, <3>1, EngineAtFacts
    <3> QED
      BY <3>2
  <2>3. Approximates(H, Idx, Shape)
    <3> HIDE DEF H
    <3> QED
      BY <2>1, <2>2 DEF Approximates
  <2>4. Idx \in SUBSET (0..Len(registry)) /\ NoLayout \in Shape
    BY <1>1 DEF NoLayout, Shape, Aligns
  <2> HIDE DEF H
  <2> QED
    BY <1>1, <2>3, <2>4, Recursion
<1>4. PICK f : f \in [Idx -> Shape] /\ f = [i \in Idx |-> EngineAt(i, arch, f)]
  BY <1>3 DEF HasFixpoint
<1>5. L = CHOOSE layout : layout = [i \in Idx |-> EngineAt(i, arch, layout)]
  BY DEF layouts, EngineAt, LayoutFrom, Fields
<1>6. L = [i \in Idx |-> EngineAt(i, arch, L)]
  <2> HIDE DEF L
  <2> QED
    BY <1>4, <1>5
<1> HIDE DEF L
<1>7. \A i \in Idx : L[i] = EngineAt(i, arch, L)
  BY <1>6
<1> DEFINE T == {i \in Nat : i \in Idx => L[i] \in Shape /\ Divides(L[i].align, L[i].size) /\ Before(L, i)}
<1>8. ASSUME NEW i \in Nat, \A m \in Nat : m < i => m \in T PROVE i \in T
  <2> SUFFICES ASSUME i \in Idx PROVE L[i] \in Shape /\ Divides(L[i].align, L[i].size) /\ Before(L, i)
    OBVIOUS
  <2>1. ASSUME NEW j \in 1..(i - 1) PROVE L[j] \in Shape
    <3>1. j \in Nat /\ j < i /\ j \in Idx
      BY <1>1
    <3> QED
      BY <1>8, <3>1
  <2>2. Before(L, i)
    BY <2>1 DEF Before
  <2> QED
    BY <1>7, <2>2, EngineAtFacts
<1>9. \A i \in Nat : i \in T
  <2> HIDE DEF T
  <2> QED
    BY <1>8, FromBelow
<1>10. \A i \in Idx : i \in Nat
  BY <1>1
<1>11. \A i \in Idx : L[i] \in Shape /\ Divides(L[i].align, L[i].size) /\ Before(L, i)
  BY <1>9, <1>10
<1>12. L \in [Idx -> Shape]
  BY <1>6, <1>11
<1> QED
  BY <1>7, <1>11, <1>12 DEF L

\* C's layouts, struct by struct, are the engine's.
CAt(i, arch, before) ==
  LET v == pickVariant(i, arch) def == registry[i].variants[v]
  IN  IF v = 0 THEN NoLayout ELSE Place(fieldLayouts(def, before, CNested(def, before)), def.union, def.pack)

\* C's layout of a struct is the engine's, given the same structs before it.
LEMMA CAtFacts ==
  ASSUME RegistryOK, NEW i \in Idx, NEW arch, NEW before, Before(before, i)
  PROVE  CAt(i, arch, before) = EngineAt(i, arch, before)
<1> DEFINE v == pickVariant(i, arch)
           def == registry[i].variants[v]
<1>1. CASE v = 0
  BY <1>1 DEF CAt, EngineAt
<1>2. CASE v # 0
  <2>1. VariantOK(def, i)
    BY <1>2, PickFacts, VariantFacts
  <2>2. CAt(i, arch, before) = Place(fieldLayouts(def, before, CNested(def, before)), def.union, def.pack)
    BY <1>2 DEF CAt
  <2>3. EngineAt(i, arch, before) = LayoutFrom(def, before)
    BY <1>2 DEF EngineAt
  <2> HIDE DEF def
  <2> QED
    BY <2>1, <2>2, <2>3, VariantLayoutFacts
<1> QED
  BY <1>1, <1>2

\* The layouts of layoutOf are the Windows headers', for every struct of any
\* metadata: the sequence that CLayouts appends to is the function layouts chooses.
LEMMA CIsEngine ==
  ASSUME RegistryOK, NEW arch
  PROVE  CLayouts(arch) = layouts(arch)
<1> DEFINE n == Len(registry)
           L == layouts(arch)
           F == [i \in 0..n |-> [j \in 1..i |-> L[j]]]
           U == CHOOSE upTo : upTo = [i \in 0..n |-> IF i = 0 THEN << >> ELSE Append(upTo[i - 1], CAt(i, arch, upTo[i - 1]))]
<1>1. n \in Nat /\ Idx = 1..n
  BY RegistryFacts
<1>2. L \in [Idx -> Shape] /\ \A i \in Idx : L[i] = EngineAt(i, arch, L)
  BY LayoutsFacts
<1>3. CLayouts(arch) = U[n]
  BY DEF CLayouts, CAt
<1> HIDE DEF L, n
<1>4. ASSUME NEW i \in 0..n PROVE F[i] \in Seq(Shape) /\ Len(F[i]) = i /\ \A j \in 1..i : F[i][j] = L[j]
  BY <1>1, <1>2
<1>5. ASSUME NEW i \in 1..n PROVE F[i] = Append(F[i - 1], CAt(i, arch, F[i - 1]))
  <2>1. i - 1 \in 0..n /\ i \in Idx /\ i \in 0..n
    BY <1>1
  <2> DEFINE b == F[i - 1]
  <2>2. b \in Seq(Shape) /\ Len(b) = i - 1 /\ \A j \in 1..(i - 1) : b[j] = L[j]
    <3> HIDE DEF F
    <3> QED
      BY <1>4, <2>1
  <2> HIDE DEF b
  <2>3. Before(b, i) /\ Agree(b, L, i)
    BY <2>2 DEF Before, Agree
  <2>4. CAt(i, arch, b) = L[i]
    BY <1>2, <2>1, <2>3, CAtFacts, EngineAtFacts, LayoutsFacts DEF L
  <2>5. Append(b, L[i]) = [j \in 1..i |-> L[j]]
    <3>1. L[i] \in Shape
      BY <1>2, <2>1
    <3> DEFINE x == L[i]
    <3>2. x \in Shape /\ x = L[i]
      BY <3>1
    <3> HIDE DEF x
    <3>3. DOMAIN Append(b, x) = 1..i
      BY <2>1, <2>2, <3>2
    <3>4. \A j \in 1..i : Append(b, x)[j] = L[j]
      BY <2>1, <2>2, <3>2
    <3>5. Append(b, x) = [j \in 1..i |-> Append(b, x)[j]]
      BY <2>2, <3>2, <3>3
    <3> QED
      BY <3>2, <3>4, <3>5
  <2> QED
    BY <2>1, <2>4, <2>5 DEF b
<1>6. F[0] = << >>
  BY <1>1
<1>7. F = [i \in 0..n |-> IF i = 0 THEN << >> ELSE Append(F[i - 1], CAt(i, arch, F[i - 1]))]
  <2> DEFINE G == [i \in 0..n |-> IF i = 0 THEN << >> ELSE Append(F[i - 1], CAt(i, arch, F[i - 1]))]
  <2>1. \A i \in 0..n : F[i] = G[i]
    <3> TAKE i \in 0..n
    <3>1. i = 0 \/ i \in 1..n
      BY <1>1
    <3> HIDE DEF F
    <3> QED
      BY <1>5, <1>6, <3>1
  <2>2. F = [i \in 0..n |-> F[i]] /\ G = [i \in 0..n |-> G[i]]
    OBVIOUS
  <2> HIDE DEF F, G
  <2>3. F = G
    BY <2>1, <2>2
  <2> QED
    BY <2>3 DEF G
<1>8. U = [i \in 0..n |-> IF i = 0 THEN << >> ELSE Append(U[i - 1], CAt(i, arch, U[i - 1]))]
  <2> HIDE DEF F
  <2> QED
    BY <1>7
<1> HIDE DEF U, F
<1> DEFINE T == {i \in Nat : i \in 0..n => U[i] = F[i]}
<1>9. 0 \in T
  BY <1>1, <1>6, <1>8
<1>10. ASSUME NEW i \in T PROVE i + 1 \in T
  <2>1. SUFFICES ASSUME i + 1 \in 0..n PROVE U[i + 1] = F[i + 1]
    OBVIOUS
  <2>2. i \in Nat /\ i \in 0..n /\ (i + 1) - 1 = i /\ i + 1 \in 1..n /\ i + 1 # 0
    BY <1>1, <2>1
  <2>3. U[i] = F[i]
    BY <2>2
  <2> HIDE DEF T
  <2>4. U[i + 1] = Append(U[i], CAt(i + 1, arch, U[i]))
    BY <1>8, <2>1, <2>2
  <2>5. F[i + 1] = Append(F[i], CAt(i + 1, arch, F[i]))
    BY <1>5, <2>2
  <2> QED
    BY <2>3, <2>4, <2>5
<1>11. T = Nat
  <2>1. T \in SUBSET Nat
    OBVIOUS
  <2> HIDE DEF T
  <2> QED
    BY <1>9, <1>10, <2>1, AllNaturals
<1>12. U[n] = F[n]
  <2>1. n \in T /\ n \in 0..n
    <3> HIDE DEF T
    <3> QED
      BY <1>1, <1>11
  <2> QED
    BY <2>1
<1>13. F[n] = L
  <2>1. F[n] = [j \in 1..n |-> L[j]]
    BY <1>1 DEF F
  <2>2. L = [j \in Idx |-> L[j]]
    BY <1>2
  <2> QED
    BY <1>1, <2>1, <2>2
<1> QED
  BY <1>3, <1>12, <1>13 DEF L

-----------------------------------------------------------------------------
(* A struct that is emitted once has the same layout on both architectures *)

\* A list of members that are all there: what the fields are of is.
LEMMA OkFacts ==
  ASSUME NEW d, NEW i, Listed(d, i), NEW s, Before(s, i), NEW m, Inside(d, m), AllOK(fieldLayouts(d, s, m))
  PROVE  \A k \in DOMAIN d.fields : /\ d.fields[k].kind = "ref" => s[d.fields[k].to].ok
                                    /\ d.fields[k].kind = "nested" => m[d.fields[k].to].ok
<1> TAKE k \in DOMAIN d.fields
<1>1. /\ fieldLayouts(d, s, m)[k] = ArrayOf(OneLayout(d.fields[k], s, m), d.fields[k].len)
      /\ OneLayout(d.fields[k], s, m) \in Shape /\ Len(fieldLayouts(d, s, m)) = Len(d.fields)
  BY FieldLayoutFacts
<1>2. k \in 1..Len(d.fields)
  BY DEF Listed
<1>3. fieldLayouts(d, s, m)[k].ok
  BY <1>1, <1>2 DEF AllOK
<1>4. OneLayout(d.fields[k], s, m).ok
  BY <1>1, <1>3, ArrayFacts, FieldFacts
<1>5. d.fields[k].kind = "ref" => OneLayout(d.fields[k], s, m) = s[d.fields[k].to]
  BY DEF OneLayout
<1>6. d.fields[k].kind = "nested" => OneLayout(d.fields[k], s, m) = m[d.fields[k].to]
  BY DEF OneLayout
<1> QED
  BY <1>4, <1>5, <1>6

\* Some field leads to an architecture-specific struct.
ArchIn(d, e) == \E k \in DOMAIN d.fields :
  \/ d.fields[k].kind = "ref" /\ d.fields[k].to \in archStructs
  \/ d.fields[k].kind = "nested" /\ e[d.fields[k].to]
EmbedsIn(def) == CHOOSE e : e = [n \in DOMAIN def.nested |-> ArchIn(def.nested[n], e)]

\* computeArchStructs looks into the nested types, of any depth.
LEMMA EmbedsArchIs ==
  ASSUME NEW def, Nesting(def)
  PROVE  /\ embedsArchStruct(def) = ArchIn(def, EmbedsIn(def))
         /\ \A n \in DOMAIN def.nested : EmbedsIn(def)[n] = ArchIn(def.nested[n], EmbedsIn(def))
<1> DEFINE I == DOMAIN def.nested
           E == EmbedsIn(def)
           H == [f \in [I -> BOOLEAN] |-> [n \in I |-> ArchIn(def.nested[n], f)]]
<1>1. embedsArchStruct(def) = ArchIn(def, E)
  BY DEF embedsArchStruct, ArchIn, EmbedsIn
<1>2. HasFixpoint(H, I, BOOLEAN)
  <2>1. H \in [[I -> BOOLEAN] -> [I -> BOOLEAN]]
    BY DEF ArchIn
  <2>2. ASSUME NEW f, NEW g, NEW n \in I, \A m \in Inner(def, n) : f[m] = g[m] PROVE ArchIn(def.nested[n], f) = ArchIn(def.nested[n], g)
    BY <2>2 DEF ArchIn, Nesting
  <2>3. \A f, g \in [I -> BOOLEAN] : \A n \in I : (\A m \in Inner(def, n) : f[m] = g[m]) => H[f][n] = H[g][n]
    BY <2>2
  <2> HIDE DEF H
  <2> QED
    BY <2>1, <2>3, NestedRecursion
<1>3. PICK f : f = [n \in I |-> ArchIn(def.nested[n], f)]
  BY <1>2 DEF HasFixpoint
<1>4. E = [n \in I |-> ArchIn(def.nested[n], E)]
  <2> HIDE DEF I
  <2> QED
    BY <1>3 DEF EmbedsIn, I
<1>5. \A n \in I : E[n] = ArchIn(def.nested[n], E)
  <2> HIDE DEF E, I
  <2> QED
    BY <1>4
<1> QED
  BY <1>1, <1>5

\* Structs with layouts, none of them architecture-specific.
SharedRefs(d, i, s) ==
  \A k \in DOMAIN d.fields : d.fields[k].kind = "ref" =>
    d.fields[k].to \in 1..(i - 1) /\ d.fields[k].to \notin archStructs /\ s[d.fields[k].to].ok

\* A list of fields with a layout, that leads to no architecture-specific struct.
LEMMA ListCalm ==
  ASSUME NEW d, NEW i, Listed(d, i), NEW s, Before(s, i), NEW m, Inside(d, m), NEW e, ~ArchIn(d, e),
         structLayoutOf(fieldLayouts(d, s, m), d.union, d.pack).ok
  PROVE  /\ SharedRefs(d, i, s)
         /\ \A k \in DOMAIN d.fields : d.fields[k].kind = "nested" => m[d.fields[k].to].ok /\ ~e[d.fields[k].to]
<1>1. d.union \in BOOLEAN /\ d.pack \in Packs
  BY DEF Listed, Packs
<1>2. AllOK(fieldLayouts(d, s, m))
  <2> DEFINE ls == fieldLayouts(d, s, m)
  <2>1. ls \in Seq(Shape)
    BY FieldLayoutFacts
  <2>2. structLayoutOf(ls, d.union, d.pack).ok
    OBVIOUS
  <2> HIDE DEF ls
  <2>3. AllOK(ls)
    BY <1>1, <2>1, <2>2, LayoutFacts
  <2> QED
    BY <2>3 DEF ls
<1>3. \A k \in DOMAIN d.fields : /\ d.fields[k].kind = "ref" => s[d.fields[k].to].ok
                                 /\ d.fields[k].kind = "nested" => m[d.fields[k].to].ok
  BY <1>2, OkFacts
<1>4. \A k \in DOMAIN d.fields : /\ d.fields[k].kind = "ref" => d.fields[k].to \notin archStructs /\ d.fields[k].to \in 1..(i - 1)
                                 /\ d.fields[k].kind = "nested" => ~e[d.fields[k].to]
  BY DEF ArchIn, Listed
<1>5. SharedRefs(d, i, s)
  BY <1>3, <1>4 DEF SharedRefs
<1> QED
  BY <1>3, <1>4, <1>5

\* The nested types with a layout that lead to no architecture-specific struct.
Calm(def, s) == {n \in DOMAIN def.nested : nestedLayouts(def, s)[n].ok /\ ~EmbedsIn(def)[n]}
CalmFields(d, i, def, s) ==
  SharedRefs(d, i, s) /\ \A k \in DOMAIN d.fields : d.fields[k].kind = "nested" => d.fields[k].to \in Calm(def, s)

\* The layout of a variant is the same from two lists of structs that agree where
\* the first has a layout, unless it embeds architecture-specific ones.
LEMMA VariantShared ==
  ASSUME NEW def, NEW i, VariantOK(def, i), ~embedsArchStruct(def), NEW s, NEW t, Before(s, i), Before(t, i),
         \A j \in 1..(i - 1) : j \notin archStructs /\ s[j].ok => t[j] = s[j], LayoutFrom(def, s).ok
  PROVE  /\ LayoutFrom(def, t) = LayoutFrom(def, s) /\ CalmFields(def, i, def, s)
         /\ \A n \in Calm(def, s) : nestedLayouts(def, t)[n] = nestedLayouts(def, s)[n] /\ CalmFields(def.nested[n], i, def, s)
<1> DEFINE ms == nestedLayouts(def, s)
           mt == nestedLayouts(def, t)
           E == EmbedsIn(def)
           Q == Calm(def, s)
           I == DOMAIN def.nested
<1>1. Nesting(def) /\ Listed(def, i) /\ Inside(def, ms)
  BY NestedsFacts DEF VariantOK
<1>2. ~ArchIn(def, E) /\ \A n \in I : E[n] = ArchIn(def.nested[n], E)
  BY <1>1, EmbedsArchIs
<1>3. /\ \A n \in I : ms[n] = NestedAt(def, s, n, ms) /\ Inside(def.nested[n], ms) /\ Listed(def.nested[n], i)
      /\ \A n \in I : mt[n] = NestedAt(def, t, n, mt)
  BY NestedsFacts DEF VariantOK
<1>4. Q = {n \in I : ms[n].ok /\ ~E[n]}
  BY DEF Calm
<1>5. structLayoutOf(fieldLayouts(def, s, ms), def.union, def.pack).ok
  BY DEF LayoutFrom, Fields
<1> HIDE DEF ms, mt, E, Q
<1>6. SharedRefs(def, i, s) /\ \A k \in DOMAIN def.fields : def.fields[k].kind = "nested" => def.fields[k].to \in Q
  <2>1. /\ SharedRefs(def, i, s)
        /\ \A k \in DOMAIN def.fields : def.fields[k].kind = "nested" => ms[def.fields[k].to].ok /\ ~E[def.fields[k].to]
    BY <1>1, <1>2, <1>5, ListCalm
  <2>2. \A k \in DOMAIN def.fields : def.fields[k].kind = "nested" => def.fields[k].to \in I
    BY <1>1 DEF Nesting, Inner
  <2> QED
    BY <1>4, <2>1, <2>2
<1>7. ASSUME NEW n \in Q
      PROVE  SharedRefs(def.nested[n], i, s) /\ \A k \in DOMAIN def.nested[n].fields : def.nested[n].fields[k].kind = "nested" => def.nested[n].fields[k].to \in Q \cap Inner(def, n)
  <2> DEFINE d == def.nested[n]
  <2>1. n \in I /\ ms[n].ok /\ ~ArchIn(d, E)
    BY <1>2, <1>4, <1>7
  <2>2. structLayoutOf(fieldLayouts(d, s, ms), d.union, d.pack).ok /\ Inside(d, ms) /\ Listed(d, i)
    BY <1>3, <2>1 DEF NestedAt
  <2>3. \A k \in DOMAIN d.fields : d.fields[k].kind = "nested" => d.fields[k].to \in Inner(def, n) /\ d.fields[k].to \in I
    BY <1>1, <2>1 DEF Nesting, Inner
  <2> HIDE DEF d
  <2>4. /\ SharedRefs(d, i, s)
        /\ \A k \in DOMAIN d.fields : d.fields[k].kind = "nested" => ms[d.fields[k].to].ok /\ ~E[d.fields[k].to]
    BY <2>1, <2>2, ListCalm
  <2>5. \A k \in DOMAIN d.fields : d.fields[k].kind = "nested" => d.fields[k].to \in Q \cap Inner(def, n)
    BY <1>4, <2>3, <2>4
  <2> QED
    BY <2>4, <2>5 DEF d
<1>8. ASSUME NEW d, Listed(d, i), SharedRefs(d, i, s), \A k \in DOMAIN d.fields : d.fields[k].kind = "nested" => ms[d.fields[k].to] = mt[d.fields[k].to]
      PROVE  fieldLayouts(d, s, ms) = fieldLayouts(d, t, mt)
  <2>1. \A k \in DOMAIN d.fields : d.fields[k].kind = "ref" => s[d.fields[k].to] = t[d.fields[k].to]
    BY <1>8 DEF SharedRefs
  <2> QED
    BY <1>8, <2>1, MembersAgree
<1> DEFINE T == {n \in I : n \in Q => mt[n] = ms[n]}
<1>9. ASSUME NEW n \in I, \A m \in Inner(def, n) : m \in T PROVE n \in T
  <2> SUFFICES ASSUME n \in Q PROVE mt[n] = ms[n]
    OBVIOUS
  <2>1. \A k \in DOMAIN def.nested[n].fields : def.nested[n].fields[k].kind = "nested" => ms[def.nested[n].fields[k].to] = mt[def.nested[n].fields[k].to]
    BY <1>7, <1>9
  <2>2. fieldLayouts(def.nested[n], s, ms) = fieldLayouts(def.nested[n], t, mt)
    BY <1>3, <1>7, <1>8, <2>1
  <2> QED
    BY <1>3, <2>2 DEF NestedAt
<1>10. \A n \in I : n \in T
  <2> HIDE DEF T
  <2> QED
    BY <1>1, <1>9, FromInside
<1>11. \A n \in Q : n \in I /\ mt[n] = ms[n]
  BY <1>4, <1>10
<1>12. fieldLayouts(def, s, ms) = fieldLayouts(def, t, mt)
  BY <1>1, <1>6, <1>8, <1>11
<1>13. LayoutFrom(def, t) = LayoutFrom(def, s)
  BY <1>12 DEF LayoutFrom, Fields, ms, mt
<1> QED
  BY <1>6, <1>7, <1>11, <1>13 DEF CalmFields, Q, ms, mt

\* What is emitted once: a struct outside archStructs that amd64 has a layout of has
\* the same on the other architecture. computeArchStructs has followed every
\* embedding.
LEMMA SharedLayout ==
  ASSUME Inv, phase \notin {"arch", "contain"}, NEW arch \in emitArches
  PROVE  \A i \in Idx : i \notin archStructs /\ layouts("amd64")[i].ok => layouts(arch)[i] = layouts("amd64")[i]
<1> DEFINE A == layouts("amd64")
           B == layouts("arm64")
           T == {i \in Nat : i \in Idx /\ i \notin archStructs /\ A[i].ok => B[i] = A[i]}
<1>1. Len(registry) \in Nat /\ Idx = 1..Len(registry)
  BY RegistryFacts DEF Inv
<1>2. \A i \in Idx : /\ A[i] = EngineAt(i, "amd64", A) /\ B[i] = EngineAt(i, "arm64", B)
                     /\ Before(A, i) /\ Before(B, i)
  BY LayoutsFacts DEF Inv
<1> HIDE DEF A, B
<1>3. ASSUME NEW i \in Nat, \A m \in Nat : m < i => m \in T PROVE i \in T
  <2> SUFFICES ASSUME i \in Idx, i \notin archStructs, A[i].ok PROVE B[i] = A[i]
    OBVIOUS
  <2> DEFINE v == pickVariant(i, "amd64")
             def == registry[i].variants[v]
  <2>1. v # 0
    <3>1. NoLayout.ok = FALSE
      BY DEF NoLayout
    <3> QED
      BY <1>2, <3>1 DEF EngineAt
  <2>2. pickVariant(i, "arm64") # 0
    BY <2>1 DEF pickVariant
  <2>3. pickVariant(i, "arm64") = v
    BY <2>1, <2>2 DEF Inv, IInv, ArchInv
  <2>4. ~embedsArchStruct(def)
    <3>1. ~Inherits(i)
      BY DEF Inv, IInv, ArchInv
    <3> QED
      BY <2>1, <3>1 DEF Inherits, emitArches
  <2>5. A[i] = LayoutFrom(def, A) /\ B[i] = LayoutFrom(def, B)
    BY <1>2, <2>1, <2>3 DEF EngineAt
  <2>6. VariantOK(def, i)
    BY <2>1, PickFacts, VariantFacts DEF Inv
  <2>7. \A j \in 1..(i - 1) : j \notin archStructs /\ A[j].ok => B[j] = A[j]
    <3> TAKE j \in 1..(i - 1)
    <3>1. j \in Nat /\ j < i /\ j \in Idx
      BY <1>1
    <3> QED
      BY <1>3, <3>1
  <2> HIDE DEF def
  <2> QED
    BY <1>2, <2>4, <2>5, <2>6, <2>7, VariantShared
<1>4. \A i \in Nat : i \in T
  <2> HIDE DEF T
  <2> QED
    BY <1>3, FromBelow
<1>5. \A i \in Idx : i \notin archStructs /\ A[i].ok => B[i] = A[i]
  BY <1>1, <1>4
<1> QED
  BY <1>5 DEF emitArches, A, B

-----------------------------------------------------------------------------
(* What Go lays out *)

\* Go's layout fits C's.
Fits(g, c) == c.ok /\ g.size = c.size /\ g.align = c.align

\* Go's layout of a nested type; none when it is not declared.
NgAt(nested, n) == IF n \in DOMAIN nested THEN nested[n] ELSE NoLayout

\* A type with a layout: of memory, or of what it names.
Laid(t, structs, nested) ==
  /\ t.kind \in {"memory", "pointer", "ref", "nested", "none"} /\ t.len \in Nat \ {0}
  /\ t.kind = "memory" => t.size \in Nat /\ t.align \in Aligns
  /\ t.kind = "ref" => structs[t.to] \in Shape
  /\ t.kind = "nested" => NgAt(nested, t.to) \in Shape

OneType(t, structs, nested) ==
  CASE t.kind = "memory"  -> Layout(t.size, t.align)
    [] t.kind = "pointer" -> wordLayout
    [] t.kind = "ref"     -> structs[t.to]
    [] t.kind = "nested"  -> NgAt(nested, t.to)
    [] OTHER              -> NoLayout

\* TypeLayout, by its parts.
LEMMA TypeIs == \A t, structs, nested : TypeLayout(t, structs, nested) = ArrayOf(OneType(t, structs, nested), t.len)
BY DEF TypeLayout, OneType, NgAt

\* The Go layout of one type.
LEMMA LaidFacts ==
  ASSUME NEW t, NEW structs, NEW nested, Laid(t, structs, nested)
  PROVE  /\ OneType(t, structs, nested) \in Shape
         /\ TypeLayout(t, structs, nested) = ArrayOf(OneType(t, structs, nested), t.len)
         /\ TypeLayout(t, structs, nested) \in Shape
         /\ t.kind = "memory" => OneType(t, structs, nested) = Layout(t.size, t.align)
         /\ t.kind = "pointer" => OneType(t, structs, nested) = wordLayout
         /\ t.kind = "ref" => OneType(t, structs, nested) = structs[t.to]
         /\ t.kind = "nested" => OneType(t, structs, nested) = NgAt(nested, t.to)
<1>1. wordLayout \in Shape /\ NoLayout \in Shape
  BY MemoryFacts DEF Aligns
<1>2. /\ t.kind = "memory" => OneType(t, structs, nested) = Layout(t.size, t.align)
      /\ t.kind = "pointer" => OneType(t, structs, nested) = wordLayout
      /\ t.kind = "ref" => OneType(t, structs, nested) = structs[t.to]
      /\ t.kind = "nested" => OneType(t, structs, nested) = NgAt(nested, t.to)
      /\ t.kind = "none" => OneType(t, structs, nested) = NoLayout
  BY DEF OneType
<1>3. OneType(t, structs, nested) \in Shape
  <2>1. t.kind = "memory" => Layout(t.size, t.align) \in Shape
    BY MemoryFacts DEF Laid
  <2> QED
    BY <1>1, <1>2, <2>1 DEF Laid
<1>4. TypeLayout(t, structs, nested) = ArrayOf(OneType(t, structs, nested), t.len)
  BY TypeIs
<1>5. ArrayOf(OneType(t, structs, nested), t.len) \in Shape
  BY <1>3, ArrayFacts DEF Laid
<1> QED
  BY <1>2, <1>3, <1>4, <1>5

\* A blob is as large and as aligned as what it stands for.
LEMMA BlobFacts ==
  ASSUME NEW l \in Shape, Divides(l.align, l.size)
  PROVE  /\ Solid(l) => blob(l) = GoMemory(l.size, l.align)
         /\ ~Solid(l) => blob(l) = Unresolved
         /\ \A structs, nested : Laid(blob(l), structs, nested)
<1>1. l.size \in Nat /\ l.align \in Aligns
  BY DEF Shape
<1> DEFINE element == IF l.align \in {2, 4, 8} THEN l.align ELSE 1
<1>2. element = l.align
  BY <1>1 DEF Aligns
<1>3. (l.size \div l.align) * l.align = l.size
  <2> DEFINE a == l.align
             s == l.size
  <2> HIDE DEF a, s
  <2>1. PICK q \in Nat : s = a * q
    BY DEF Divides, a, s
  <2>2. a \in {1, 2, 4, 8} /\ s \in Nat
    BY <1>1 DEF a, s, Aligns
  <2>3. (s \div a) * a = s
    BY <2>1, <2>2
  <2> QED
    BY <2>3 DEF a, s
<1>4. blob(l) = IF Solid(l) THEN GoMemory(l.size, l.align) ELSE Unresolved
  BY <1>2, <1>3 DEF blob, Solid
<1>5. \A structs, nested : Laid(GoMemory(l.size, l.align), structs, nested) /\ Laid(Unresolved, structs, nested)
  BY <1>1 DEF Laid, GoMemory, Unresolved
<1> QED
  BY <1>4, <1>5

\* The structs a declaration was computed from, and those Go has laid out.
Sound(s, i) == Before(s, i) /\ \A j \in 1..(i - 1) : Divides(s[j].align, s[j].size)

\* The type of a field can be laid out when the structs before it can.
LEMMA TypesLaid ==
  ASSUME NEW d, NEW i, Listed(d, i), NEW s, Sound(s, i), NEW en, NEW S, NEW L, Before(L, i), NEW ng, \A n \in en : NgAt(ng, n) \in Shape,
         NEW k \in DOMAIN d.fields
  PROVE  Laid(fieldGoType(d.fields[k], s, en, S), L, ng)
<1> DEFINE f == d.fields[k]
<1>1. /\ f.kind \in {"native", "pointer", "ref", "nested"} /\ f.size \in Nat /\ f.len \in Nat \ {0}
      /\ f.size * f.len \in Nat /\ 8 * f.len \in Nat
  BY FieldFacts
<1>2. (f.kind = "native" => f.align \in Aligns) /\ (f.kind = "ref" => f.to \in 1..(i - 1))
  BY DEF Listed, Aligns
<1> HIDE DEF f
<1>3. CASE f.kind = "native"
  <2>1. fieldGoType(f, s, en, S) = GoMemory(f.size * f.len, f.align)
    BY <1>3 DEF fieldGoType
  <2>2. Laid(GoMemory(f.size * f.len, f.align), L, ng)
    BY <1>1, <1>2, <1>3 DEF Laid, GoMemory
  <2> QED
    BY <2>1, <2>2 DEF f
<1>4. CASE f.kind = "pointer"
  <2>1. fieldGoType(f, s, en, S) = GoMemory(8 * f.len, 8) \/ fieldGoType(f, s, en, S) = GoNamed("pointer", f.to, f.len)
    BY <1>4 DEF fieldGoType
  <2>2. Laid(GoMemory(8 * f.len, 8), L, ng) /\ Laid(GoNamed("pointer", f.to, f.len), L, ng)
    BY <1>1 DEF Laid, GoMemory, GoNamed, Aligns
  <2> QED
    BY <2>1, <2>2 DEF f
<1>5. CASE f.kind = "nested"
  <2>1. fieldGoType(f, s, en, S) = IF f.to \in en THEN GoNamed("nested", f.to, f.len) ELSE Unresolved
    BY <1>5 DEF fieldGoType
  <2>2. f.to \in en => Laid(GoNamed("nested", f.to, f.len), L, ng)
    BY <1>1 DEF Laid, GoNamed
  <2>3. Laid(Unresolved, L, ng)
    BY DEF Laid, Unresolved
  <2> QED
    BY <2>1, <2>2, <2>3 DEF f
<1>6. CASE f.kind = "ref"
  <2>1. fieldGoType(f, s, en, S) = IF Degraded(f, S) THEN blob(ArrayOf(s[f.to], f.len)) ELSE GoNamed("ref", f.to, f.len)
    BY <1>6 DEF fieldGoType
  <2>2. s[f.to] \in Shape /\ Divides(s[f.to].align, s[f.to].size) /\ L[f.to] \in Shape
    BY <1>2, <1>6 DEF Sound, Before
  <2>3. ArrayOf(s[f.to], f.len) \in Shape /\ Divides(ArrayOf(s[f.to], f.len).align, ArrayOf(s[f.to], f.len).size)
    BY <1>1, <2>2, ArrayFacts
  <2>4. Laid(blob(ArrayOf(s[f.to], f.len)), L, ng)
    BY <2>3, BlobFacts
  <2>5. Laid(GoNamed("ref", f.to, f.len), L, ng)
    BY <1>1, <2>2 DEF Laid, GoNamed
  <2> QED
    BY <2>1, <2>4, <2>5 DEF f
<1> QED
  BY <1>1, <1>3, <1>4, <1>5, <1>6

\* A field that the declaration has fits the field in C when what it names does.
LEMMA FieldMatches ==
  ASSUME NEW d, NEW i, Listed(d, i), NEW s, Sound(s, i), NEW m, Inside(d, m),
         NEW en, NEW S, NEW L, Before(L, i), NEW ng, \A n \in en : NgAt(ng, n) \in Shape, NEW k \in DOMAIN d.fields,
         fieldGoType(d.fields[k], s, en, S) # Unresolved, TypeLayout(fieldGoType(d.fields[k], s, en, S), L, ng).ok,
         d.fields[k].kind = "ref" /\ ~Degraded(d.fields[k], S) /\ L[d.fields[k].to].ok => Fits(L[d.fields[k].to], s[d.fields[k].to]),
         d.fields[k].kind = "nested" /\ d.fields[k].to \in en /\ NgAt(ng, d.fields[k].to).ok => Fits(NgAt(ng, d.fields[k].to), m[d.fields[k].to])
  PROVE  Fits(TypeLayout(fieldGoType(d.fields[k], s, en, S), L, ng), fieldLayout(d.fields[k], s, m))
<1>a. PICK f : f = d.fields[k]
  OBVIOUS
<1>b. PICK t : t = fieldGoType(f, s, en, S)
  OBVIOUS
<1>c. PICK o : o = OneType(t, L, ng)
  OBVIOUS
<1>d. PICK c : c = OneLayout(f, s, m)
  OBVIOUS
<1>1. /\ f.kind \in {"native", "pointer", "ref", "nested"} /\ f.size \in Nat /\ f.len \in Nat \ {0}
      /\ f.size * f.len \in Nat /\ 8 * f.len \in Nat
  BY <1>a, FieldFacts
<1>2. (f.kind = "native" => f.align \in Aligns) /\ (f.kind = "ref" => f.to \in 1..(i - 1))
  BY <1>a DEF Listed, Aligns
<1>3. Laid(t, L, ng)
  BY <1>a, <1>b, TypesLaid
<1>4. c \in Shape /\ fieldLayout(f, s, m) = ArrayOf(c, f.len)
  BY <1>a, <1>d, FieldLayoutFacts DEF Sound
<1>5. TypeLayout(t, L, ng).ok /\ t # Unresolved
  BY <1>a, <1>b
<1>6. f.kind = "ref" /\ ~Degraded(f, S) /\ L[f.to].ok => Fits(L[f.to], s[f.to])
  BY <1>a
<1>7. f.kind = "nested" /\ f.to \in en /\ NgAt(ng, f.to).ok => Fits(NgAt(ng, f.to), m[f.to])
  BY <1>a
<1>8. /\ o \in Shape /\ TypeLayout(t, L, ng) = ArrayOf(o, t.len) /\ t.len \in Nat \ {0}
      /\ t.kind = "memory" => o = Layout(t.size, t.align)
      /\ t.kind = "pointer" => o = wordLayout
      /\ t.kind = "ref" => o = L[t.to]
      /\ t.kind = "nested" => o = NgAt(ng, t.to)
  BY <1>3, <1>c, LaidFacts DEF Laid
<1>9. o.ok
  BY <1>5, <1>8, ArrayFacts
<1>e. /\ \A x, y : GoMemory(x, y).kind = "memory" /\ GoMemory(x, y).size = x /\ GoMemory(x, y).align = y /\ GoMemory(x, y).len = 1
      /\ \A x, y, z : GoNamed(x, y, z).kind = x /\ GoNamed(x, y, z).to = y /\ GoNamed(x, y, z).len = z
  BY DEF GoMemory, GoNamed
<1>10. ASSUME f.kind = "native" PROVE Fits(ArrayOf(o, t.len), ArrayOf(c, f.len))
  <2>1. t = GoMemory(f.size * f.len, f.align) /\ c = Layout(f.size, f.align)
    BY <1>b, <1>d, <1>10 DEF fieldGoType, OneLayout
  <2>2. t.len = 1 /\ o = Layout(f.size * f.len, f.align)
    BY <1>8, <1>e, <2>1
  <2>3. o.size = f.size * f.len /\ o.align = f.align /\ c.ok = TRUE /\ c.size = f.size /\ c.align = f.align
    BY <1>1, <1>2, <1>10, <2>1, <2>2, MemoryFacts
  <2>4. /\ ArrayOf(o, 1).size = 1 * (f.size * f.len) /\ ArrayOf(o, 1).align = f.align
        /\ ArrayOf(c, f.len).ok = TRUE /\ ArrayOf(c, f.len).size = f.len * f.size /\ ArrayOf(c, f.len).align = f.align
    <3>1. ArrayOf(o, 1).size = 1 * o.size /\ ArrayOf(o, 1).align = o.align
      BY <1>8, ArrayFacts
    <3>2. PICK n : n = f.len
      OBVIOUS
    <3>3. ArrayOf(c, n).size = n * c.size /\ ArrayOf(c, n).align = c.align /\ ArrayOf(c, n).ok = c.ok
      BY <1>1, <1>4, <3>2, ArrayFacts
    <3> QED
      BY <2>3, <3>1, <3>2, <3>3, Zenon
  <2>5. 1 * (f.size * f.len) = f.len * f.size
    BY <1>1
  <2> QED
    BY <2>2, <2>4, <2>5 DEF Fits
<1>11. ASSUME f.kind = "pointer" PROVE Fits(ArrayOf(o, t.len), ArrayOf(c, f.len))
  <2>1. c = wordLayout
    BY <1>d, <1>11 DEF OneLayout
  <2>2. wordLayout \in Shape /\ wordLayout.ok = TRUE /\ wordLayout.size = 8 /\ wordLayout.align = 8
    BY DEF wordLayout, Layout, Shape, Aligns
  <2>3. t = GoMemory(8 * f.len, 8) \/ t = GoNamed("pointer", f.to, f.len)
    BY <1>b, <1>11 DEF fieldGoType
  <2>4. ArrayOf(c, f.len).ok = TRUE /\ ArrayOf(c, f.len).size = f.len * 8 /\ ArrayOf(c, f.len).align = 8
    BY <1>1, <2>1, <2>2, ArrayFacts
  <2>5. CASE t = GoMemory(8 * f.len, 8)
    <3>1. t.len = 1 /\ o = Layout(8 * f.len, 8)
      BY <1>8, <1>e, <2>5
    <3>2. o.size = 8 * f.len /\ o.align = 8
      BY <1>1, <3>1, MemoryFacts DEF Aligns
    <3>3. ArrayOf(o, 1).size = 1 * (8 * f.len) /\ ArrayOf(o, 1).align = 8
      BY <1>8, <3>2, ArrayFacts
    <3>4. 1 * (8 * f.len) = f.len * 8
      BY <1>1
    <3> QED
      BY <2>4, <3>1, <3>3, <3>4 DEF Fits
  <2>6. CASE t = GoNamed("pointer", f.to, f.len)
    <3>1. t.len = f.len /\ o = wordLayout
      BY <1>8, <1>e, <2>6
    <3> QED
      BY <2>1, <2>4, <3>1 DEF Fits
  <2> QED
    BY <2>3, <2>5, <2>6
<1>12. ASSUME Fits(o, c), t.len = f.len PROVE Fits(ArrayOf(o, t.len), ArrayOf(c, f.len))
  <2>1. PICK n : n = f.len
    OBVIOUS
  <2>2. n \in Nat \ {0} /\ t.len = n
    BY <1>1, <1>12, <2>1
  <2>3. ArrayOf(o, n).size = n * o.size /\ ArrayOf(o, n).align = o.align
    BY <1>8, <2>2, ArrayFacts
  <2>4. ArrayOf(c, n).size = n * c.size /\ ArrayOf(c, n).align = c.align /\ ArrayOf(c, n).ok = c.ok
    BY <1>4, <2>2, ArrayFacts
  <2> QED
    BY <1>12, <2>1, <2>2, <2>3, <2>4, Zenon DEF Fits
<1>13. ASSUME f.kind = "nested" PROVE Fits(ArrayOf(o, t.len), ArrayOf(c, f.len))
  <2>1. t = GoNamed("nested", f.to, f.len) /\ f.to \in en /\ c = m[f.to]
    BY <1>5, <1>b, <1>d, <1>13 DEF fieldGoType, OneLayout
  <2>2. t.len = f.len /\ o = NgAt(ng, f.to)
    BY <1>8, <1>e, <2>1
  <2> QED
    BY <1>7, <1>9, <1>12, <1>13, <2>1, <2>2
<1>14. ASSUME f.kind = "ref", ~Degraded(f, S) PROVE Fits(ArrayOf(o, t.len), ArrayOf(c, f.len))
  <2>1. t = GoNamed("ref", f.to, f.len) /\ c = s[f.to]
    BY <1>b, <1>d, <1>14 DEF fieldGoType, OneLayout
  <2>2. t.len = f.len /\ o = L[f.to]
    BY <1>8, <1>e, <2>1
  <2> QED
    BY <1>6, <1>9, <1>12, <1>14, <2>1, <2>2
<1>15. ASSUME f.kind = "ref", Degraded(f, S) PROVE Fits(ArrayOf(o, t.len), ArrayOf(c, f.len))
  <2>1. PICK a : a = ArrayOf(c, f.len)
    OBVIOUS
  <2>2. t = blob(a) /\ c = s[f.to]
    BY <1>b, <1>d, <1>15, <2>1 DEF fieldGoType, OneLayout
  <2>3. Divides(c.align, c.size)
    BY <1>2, <1>15, <2>2 DEF Sound
  <2>4. a \in Shape /\ Divides(a.align, a.size)
    BY <1>1, <1>4, <2>1, <2>3, ArrayFacts
  <2>5. Solid(a) /\ t = GoMemory(a.size, a.align)
    BY <1>5, <2>2, <2>4, BlobFacts
  <2>6. t.len = 1 /\ o = Layout(a.size, a.align)
    BY <1>8, <1>e, <2>5
  <2>7. a.size \in Nat /\ a.align \in Aligns /\ a.ok
    BY <2>4, <2>5 DEF Shape, Solid
  <2>8. o.size = a.size /\ o.align = a.align
    BY <2>6, <2>7, MemoryFacts
  <2>9. ArrayOf(o, 1).size = 1 * a.size /\ ArrayOf(o, 1).align = a.align
    BY <1>8, <2>8, ArrayFacts
  <2>10. 1 * a.size = a.size
    BY <2>7
  <2> QED
    BY <2>1, <2>6, <2>7, <2>9, <2>10 DEF Fits
<1>16. Fits(ArrayOf(o, t.len), ArrayOf(c, f.len))
  BY <1>1, <1>10, <1>11, <1>13, <1>14, <1>15
<1> QED
  BY <1>4, <1>8, <1>16, <1>a, <1>b

\* A struct of one member is that member.
LEMMA SingleLayout ==
  ASSUME NEW x \in Shape, x.ok, Divides(x.align, x.size)
  PROVE  Fits(structLayoutOf(<<x>>, FALSE, 0), x) /\ <<x>> \in Seq(Shape)
<1> DEFINE ls == <<x>>
<1>1. ls \in Seq(Shape) /\ Len(ls) = 1 /\ ls[1] = x
  OBVIOUS
<1>2. x.align \in Aligns /\ x.size \in Nat
  BY DEF Shape
<1> HIDE DEF ls
<1>3. 0 \in Packs /\ FALSE \in BOOLEAN
  BY DEF Packs
<1>4. AllOK(ls)
  BY <1>1 DEF AllOK
<1>5. AlignIn(ls, 0, 1) = x.align
  BY <1>1 DEF AlignIn
<1>6. Most(ls, 0) = x.align
  <2>1. {1} \cup {AlignIn(ls, 0, k) : k \in 1..Len(ls)} = {1, x.align}
    BY <1>1, <1>5
  <2>2. Max({1, x.align}) = IF 1 < x.align THEN x.align ELSE 1
    BY <1>2, PairFacts DEF Aligns
  <2>3. (IF 1 < x.align THEN x.align ELSE 1) = x.align
    BY <1>2 DEF Aligns
  <2> QED
    BY <2>1, <2>2, <2>3 DEF Most
<1>7. Ends(ls, FALSE, 0)[1] = x.size
  <2>1. 0 \in 0..Len(ls) /\ 1 \in 0..Len(ls) /\ 1 - 1 = 0
    BY <1>1
  <2>2. Ends(ls, FALSE, 0)[0] = 0
    BY <1>1, <1>3, <2>1, EndFacts DEF EndAt
  <2>a. \A k \in 0..Len(ls) : Ends(ls, FALSE, 0)[k] = EndAt(ls, FALSE, 0, k, Ends(ls, FALSE, 0)[k - 1])
    BY <1>1, <1>3, EndFacts
  <2>3. Ends(ls, FALSE, 0)[1] = EndAt(ls, FALSE, 0, 1, 0)
    <3>1. \A k : k = 1 => k - 1 = 0
      OBVIOUS
    <3>2. PICK k : k = 1
      OBVIOUS
    <3>3. Ends(ls, FALSE, 0)[k] = EndAt(ls, FALSE, 0, k, Ends(ls, FALSE, 0)[k - 1])
      BY <2>1, <2>a, <3>2
    <3>4. k - 1 = 0
      BY <3>1, <3>2
    <3> QED
      BY <2>2, <3>2, <3>3, <3>4, Zenon
  <2>4. EndAt(ls, FALSE, 0, 1, 0) = roundUp(0, x.align) + x.size
    BY <1>1, <1>5 DEF EndAt
  <2>5. roundUp(0, x.align) = 0
    <3>1. Divides(x.align, 0)
      BY <1>2 DEF Divides, Aligns
    <3> QED
      BY <1>2, <3>1, RoundFacts
  <2>6. 0 + x.size = x.size
    BY <1>2
  <2> QED
    BY <2>3, <2>4, <2>5, <2>6, Zenon
<1>8. roundUp(x.size, x.align) = x.size
  BY <1>2, RoundFacts
<1>9. structLayoutOf(ls, FALSE, 0).size = x.size /\ structLayoutOf(ls, FALSE, 0).align = x.align
  <2>1. /\ structLayoutOf(ls, FALSE, 0).size = roundUp(Ends(ls, FALSE, 0)[Len(ls)], Most(ls, 0))
        /\ structLayoutOf(ls, FALSE, 0).align = Most(ls, 0)
    BY <1>1, <1>3, <1>4, LayoutFacts
  <2> QED
    BY <1>1, <1>6, <1>7, <1>8, <2>1, Zenon
<1> QED
  BY <1>1, <1>9 DEF Fits, ls

\* Only the sizes and alignments of the members matter.
LEMMA FitsAll ==
  ASSUME NEW g \in Seq(Shape), NEW c \in Seq(Shape), Len(g) = Len(c), AllOK(g),
         \A k \in 1..Len(g) : Fits(g[k], c[k])
  PROVE  structLayoutOf(g, FALSE, 0) = structLayoutOf(c, FALSE, 0) /\ AllOK(c)
<1>1. PICK n : n = Len(g)
  OBVIOUS
<1>2. n \in Nat /\ n = Len(g) /\ n = Len(c)
  BY <1>1
<1>3. 0 \in Packs /\ FALSE \in BOOLEAN
  BY DEF Packs
<1>4. AllOK(c)
  BY DEF AllOK, Fits
<1>5. \A k \in 1..n : g[k].size = c[k].size /\ AlignIn(g, 0, k) = AlignIn(c, 0, k)
  BY <1>2 DEF Fits, AlignIn
<1>6. Most(g, 0) = Most(c, 0)
  <2>1. {AlignIn(g, 0, k) : k \in 1..n} = {AlignIn(c, 0, k) : k \in 1..n}
    BY <1>5
  <2> QED
    BY <1>2, <2>1 DEF Most
<1> DEFINE E == Ends(g, FALSE, 0)
           F == Ends(c, FALSE, 0)
           T == {k \in Nat : k \in 0..n => E[k] = F[k]}
<1>7. \A k \in 0..n : E[k] = EndAt(g, FALSE, 0, k, E[k - 1]) /\ F[k] = EndAt(c, FALSE, 0, k, F[k - 1])
  BY <1>2, <1>3, EndFacts
<1> HIDE DEF E, F
<1>8. 0 \in T
  BY <1>2, <1>7 DEF EndAt
<1>9. ASSUME NEW k \in T PROVE k + 1 \in T
  <2>1. SUFFICES ASSUME k + 1 \in 0..n PROVE E[k + 1] = F[k + 1]
    OBVIOUS
  <2>2. k \in Nat /\ k \in 0..n /\ k + 1 \in 1..n /\ (k + 1) - 1 = k /\ k + 1 # 0
    BY <1>2, <2>1
  <2>3. E[k] = F[k]
    BY <2>2
  <2> HIDE DEF T
  <2>4. E[k + 1] = EndAt(g, FALSE, 0, k + 1, E[k]) /\ F[k + 1] = EndAt(c, FALSE, 0, k + 1, F[k])
    BY <1>7, <2>1, <2>2
  <2>5. EndAt(g, FALSE, 0, k + 1, E[k]) = EndAt(c, FALSE, 0, k + 1, E[k])
    BY <1>5, <2>2 DEF EndAt
  <2> QED
    BY <2>3, <2>4, <2>5
<1>10. T = Nat
  <2>1. T \in SUBSET Nat
    OBVIOUS
  <2> HIDE DEF T
  <2> QED
    BY <1>8, <1>9, <2>1, AllNaturals
<1>11. \A k \in 0..n : E[k] = F[k]
  <2> TAKE k \in 0..n
  <2>1. k \in Nat
    BY <1>2
  <2>2. k \in T
    <3> HIDE DEF T
    <3> QED
      BY <1>10, <2>1
  <2> QED
    BY <2>2
<1>12. \A k \in 1..n : OffsetIn(g, FALSE, 0, k) = OffsetIn(c, FALSE, 0, k)
  <2> TAKE k \in 1..n
  <2>1. k - 1 \in 0..n
    BY <1>2
  <2> QED
    BY <1>5, <1>11, <2>1 DEF OffsetIn, E, F
<1>13. [k \in 1..n |-> OffsetIn(g, FALSE, 0, k)] = [k \in 1..n |-> OffsetIn(c, FALSE, 0, k)]
  BY <1>12
<1>14. E[n] = F[n]
  BY <1>2, <1>11
<1> QED
  BY <1>2, <1>4, <1>6, <1>13, <1>14, LayoutIs DEF E, F

\* A declaration that Go can lay out fits the struct, or the nested type, in C; it
\* has C's offsets unless it is a blob.
Matches(g, c, opaque) == g.ok => Fits(g, c) /\ (~opaque => g.offsets = c.offsets)

\* One declaration, opaque or field by field, matches what it declares.
LEMMA DeclMatches ==
  ASSUME NEW d, NEW i, Listed(d, i), NEW s, Sound(s, i), NEW m, Inside(d, m),
         NEW en, NEW S, NEW L, Before(L, i), NEW ng, \A n \in en : NgAt(ng, n) \in Shape,
         \A k \in DOMAIN d.fields :
           /\ d.fields[k].kind = "ref" /\ ~Degraded(d.fields[k], S) /\ L[d.fields[k].to].ok => Fits(L[d.fields[k].to], s[d.fields[k].to])
           /\ d.fields[k].kind = "nested" /\ d.fields[k].to \in en /\ NgAt(ng, d.fields[k].to).ok => Fits(NgAt(ng, d.fields[k].to), m[d.fields[k].to])
  PROVE  LET ls == fieldLayouts(d, s, m)
             D == Declare(d, ls, GoTypes(d, s, en, S))
         IN  /\ DeclLayout(D, L, ng) \in Shape
             /\ D.ok => Matches(DeclLayout(D, L, ng), structLayoutOf(ls, d.union, d.pack), D.opaque)
<1>a. PICK ls : ls = fieldLayouts(d, s, m)
  OBVIOUS
<1>b. PICK ts : ts = GoTypes(d, s, en, S)
  OBVIOUS
<1>c. PICK D : D = Declare(d, ls, ts)
  OBVIOUS
<1>d. PICK c : c = structLayoutOf(ls, d.union, d.pack)
  OBVIOUS
<1>1. d.union \in BOOLEAN /\ d.pack \in Packs /\ 0 \in Packs /\ FALSE \in BOOLEAN
  BY DEF Listed, Packs
<1>2. /\ ls \in Seq(Shape) /\ Len(ls) = Len(d.fields)
      /\ \A k \in DOMAIN d.fields : ls[k] = fieldLayout(d.fields[k], s, m) /\ ls[k] \in Shape
  BY <1>a, FieldLayoutFacts DEF Sound
<1>3. Len(d.fields) \in Nat /\ DOMAIN d.fields = 1..Len(d.fields)
  BY DEF Listed
<1>4. c \in Shape /\ Divides(c.align, c.size) /\ c.ok = AllOK(ls)
  BY <1>1, <1>2, <1>d, LayoutFacts
<1>5. /\ D.opaque = Opaque(d, ls) /\ D.fields = IF Opaque(d, ls) THEN <<blob(c)>> ELSE ts
      /\ D.ok <=> Resolved(d, ls, ts)
  BY <1>c, <1>d, DeclareIs
<1>6. CASE Opaque(d, ls)
  <2>1. PICK b : b = blob(c)
    OBVIOUS
  <2>2. D.fields = <<b>> /\ D.opaque = TRUE
    BY <1>5, <1>6, <2>1 DEF Opaque
  <2>3. Laid(b, L, ng) /\ (Solid(c) => b = GoMemory(c.size, c.align))
    BY <1>4, <2>1, BlobFacts
  <2>4. PICK x : x = TypeLayout(b, L, ng)
    OBVIOUS
  <2>5. x \in Shape
    BY <2>3, <2>4, LaidFacts
  <2>6. [k \in DOMAIN D.fields |-> TypeLayout(D.fields[k], L, ng)] = <<x>>
    BY <2>2, <2>4
  <2>7. DeclLayout(D, L, ng) = structLayoutOf(<<x>>, FALSE, 0) /\ DeclLayout(D, L, ng) \in Shape
    <3>1. <<x>> \in Seq(Shape)
      BY <2>5
    <3>2. DeclLayout(D, L, ng) = Place(<<x>>, FALSE, 0)
      BY <2>6 DEF DeclLayout
    <3>3. PICK xs : xs = <<x>>
      OBVIOUS
    <3>4. xs \in Seq(Shape)
      BY <3>1, <3>3
    <3>5. Place(xs, FALSE, 0) = structLayoutOf(xs, FALSE, 0) /\ structLayoutOf(xs, FALSE, 0) \in Shape
      BY <1>1, <3>4, EngineIsC, LayoutFacts
    <3> QED
      BY <3>2, <3>3, <3>5
  <2>8. ASSUME D.ok PROVE Fits(DeclLayout(D, L, ng), c)
    <3>1. Solid(c)
      BY <1>5, <1>6, <1>d, <2>8 DEF Resolved
    <3>2. c.size \in Nat /\ c.align \in Aligns /\ c.ok
      BY <1>4, <3>1 DEF Solid, Shape
    <3>3. b = GoMemory(c.size, c.align)
      BY <2>3, <3>1
    <3>4. b.kind = "memory" /\ b.len = 1 /\ b.size = c.size /\ b.align = c.align
      BY <3>3 DEF GoMemory
    <3>5. PICK y : y = Layout(c.size, c.align)
      OBVIOUS
    <3>6. y \in Shape /\ y.ok = TRUE /\ y.size = c.size /\ y.align = c.align
      BY <3>2, <3>5, MemoryFacts
    <3>7. x = ArrayOf(y, 1)
      <4>1. OneType(b, L, ng) = y
        BY <2>3, <3>4, <3>5, LaidFacts
      <4> QED
        BY <2>3, <2>4, <3>4, <4>1, LaidFacts
    <3>8. x.ok = TRUE /\ x.size = 1 * c.size /\ x.align = c.align
      <4>1. x.ok = y.ok /\ x.size = 1 * y.size /\ x.align = y.align
        BY <3>6, <3>7, ArrayFacts
      <4> QED
        BY <3>6, <4>1
    <3>9. 1 * c.size = c.size
      BY <3>2
    <3>10. Divides(x.align, x.size)
      BY <1>4, <3>8, <3>9
    <3>11. Fits(structLayoutOf(<<x>>, FALSE, 0), x)
      BY <2>5, <3>8, <3>10, SingleLayout
    <3> QED
      BY <2>7, <3>2, <3>8, <3>9, <3>11 DEF Fits
  <2>9. DeclLayout(D, L, ng) \in Shape /\ (D.ok => Matches(DeclLayout(D, L, ng), c, D.opaque))
    BY <2>2, <2>7, <2>8 DEF Matches
  <2> QED
    BY <2>9, <1>a, <1>b, <1>c, <1>d
<1>7. CASE ~Opaque(d, ls)
  <2>1. D.fields = ts /\ D.opaque = FALSE
    BY <1>5, <1>7 DEF Opaque
  <2>2. ts = [k \in DOMAIN d.fields |-> fieldGoType(d.fields[k], s, en, S)]
    BY <1>b DEF GoTypes
  <2>3. PICK gl : gl = [k \in DOMAIN d.fields |-> TypeLayout(ts[k], L, ng)]
    OBVIOUS
  <2>4. ASSUME NEW k \in DOMAIN d.fields PROVE gl[k] \in Shape /\ gl[k] = TypeLayout(fieldGoType(d.fields[k], s, en, S), L, ng)
    <3>1. Laid(fieldGoType(d.fields[k], s, en, S), L, ng)
      BY TypesLaid
    <3> QED
      BY <2>2, <2>3, <3>1, LaidFacts
  <2>5. gl \in Seq(Shape) /\ Len(gl) = Len(ls)
    <3>1. PICK n : n = Len(d.fields)
      OBVIOUS
    <3>2. n \in Nat /\ DOMAIN d.fields = 1..n /\ Len(ls) = n
      BY <1>2, <1>3, <3>1
    <3>3. gl = [k \in 1..n |-> gl[k]]
      BY <2>3, <3>2
    <3>4. \A k \in 1..n : gl[k] \in Shape
      BY <2>4, <3>2
    <3>5. gl \in [1..n -> Shape]
      BY <3>3, <3>4
    <3> QED
      BY <3>2, <3>5
  <2>6. DeclLayout(D, L, ng) = structLayoutOf(gl, FALSE, 0) /\ DeclLayout(D, L, ng) \in Shape
    <3>1. [k \in DOMAIN D.fields |-> TypeLayout(D.fields[k], L, ng)] = gl
      BY <2>1, <2>2, <2>3
    <3> QED
      BY <1>1, <2>5, <3>1, EngineIsC, LayoutFacts DEF DeclLayout
  <2>7. ASSUME D.ok, DeclLayout(D, L, ng).ok PROVE Fits(DeclLayout(D, L, ng), c) /\ DeclLayout(D, L, ng).offsets = c.offsets
    <3>1. AllOK(gl)
      BY <1>1, <2>5, <2>6, <2>7, LayoutFacts
    <3>2. \A k \in DOMAIN d.fields : fieldGoType(d.fields[k], s, en, S) # Unresolved
      BY <1>5, <1>7, <2>2, <2>7 DEF Resolved
    <3>3. ASSUME NEW k \in 1..Len(gl) PROVE Fits(gl[k], ls[k])
      <4>1. k \in DOMAIN d.fields
        BY <1>2, <1>3, <2>5
      <4>2. gl[k].ok
        BY <3>1 DEF AllOK
      <4>3. Fits(TypeLayout(fieldGoType(d.fields[k], s, en, S), L, ng), fieldLayout(d.fields[k], s, m))
        BY <2>4, <3>2, <4>1, <4>2, FieldMatches
      <4> QED
        BY <1>2, <2>4, <4>1, <4>3
    <3>4. PICK natural : natural = structLayoutOf(ls, FALSE, 0)
      OBVIOUS
    <3>5. DeclLayout(D, L, ng) = natural /\ AllOK(ls)
      BY <1>2, <2>5, <2>6, <3>1, <3>3, <3>4, FitsAll
    <3>6. natural.ok /\ c.ok
      BY <1>1, <1>2, <1>4, <3>4, <3>5, LayoutFacts
    <3>7. d.union = FALSE
      BY <1>1, <1>7 DEF Opaque
    <3>8. sameLayout(c, natural)
      BY <1>7, <1>d, <3>4, <3>6, <3>7 DEF Opaque
    <3> QED
      BY <3>5, <3>6, <3>8 DEF sameLayout, Fits
  <2>8. DeclLayout(D, L, ng) \in Shape /\ (D.ok => Matches(DeclLayout(D, L, ng), c, D.opaque))
    BY <2>1, <2>6, <2>7 DEF Matches
  <2> QED
    BY <2>8, <1>a, <1>b, <1>c, <1>d
<1> QED
  BY <1>6, <1>7

\* The types of a declaration can be laid out after the structs before i and the
\* nested types en.
Orderly(D, i, en) ==
  /\ \E n \in Nat : DOMAIN D.fields = 1..n
  /\ \A k \in DOMAIN D.fields :
       /\ D.fields[k].kind = "ref" => D.fields[k].to \in 1..(i - 1)
       /\ D.fields[k].kind = "nested" => D.fields[k].to \in en
       /\ \A L, ng : Before(L, i) /\ (\A n \in en : NgAt(ng, n) \in Shape) => Laid(D.fields[k], L, ng)

\* Every declaration is like that.
LEMMA DeclTypes ==
  ASSUME NEW d, NEW i, Listed(d, i), NEW s, Sound(s, i), NEW m, Inside(d, m), NEW en, NEW S
  PROVE  Orderly(Declare(d, fieldLayouts(d, s, m), GoTypes(d, s, en, S)), i, en)
<1>a. PICK ls : ls = fieldLayouts(d, s, m)
  OBVIOUS
<1>b. PICK ts : ts = GoTypes(d, s, en, S)
  OBVIOUS
<1>c. PICK D : D = Declare(d, ls, ts)
  OBVIOUS
<1>d. PICK c : c = structLayoutOf(ls, d.union, d.pack)
  OBVIOUS
<1>1. d.union \in BOOLEAN /\ d.pack \in Packs
  BY DEF Listed, Packs
<1>2. ls \in Seq(Shape)
  BY <1>a, FieldLayoutFacts DEF Sound
<1>3. Len(d.fields) \in Nat /\ DOMAIN d.fields = 1..Len(d.fields)
  BY DEF Listed
<1>4. c \in Shape /\ Divides(c.align, c.size)
  BY <1>1, <1>2, <1>d, LayoutFacts
<1>5. D.fields = IF Opaque(d, ls) THEN <<blob(c)>> ELSE ts
  BY <1>c, <1>d, DeclareIs
<1>6. CASE Opaque(d, ls)
  <2>1. PICK b : b = blob(c)
    OBVIOUS
  <2>2. D.fields = <<b>>
    BY <1>5, <1>6, <2>1
  <2>3. \A L, ng : Laid(b, L, ng)
    BY <1>4, <2>1, BlobFacts
  <2>4. b.kind # "ref" /\ b.kind # "nested"
    BY <2>1 DEF blob, GoMemory, Unresolved
  <2>5. DOMAIN D.fields = 1..1 /\ \A k \in DOMAIN D.fields : D.fields[k] = b
    BY <2>2
  <2>6. \E n \in Nat : DOMAIN D.fields = 1..n
    BY <2>5
  <2> QED
    BY <2>3, <2>4, <2>5, <2>6, <1>a, <1>b, <1>c DEF Orderly
<1>7. CASE ~Opaque(d, ls)
  <2>1. D.fields = [k \in DOMAIN d.fields |-> fieldGoType(d.fields[k], s, en, S)]
    BY <1>5, <1>7, <1>b DEF GoTypes
  <2>2. \E n \in Nat : DOMAIN D.fields = 1..n
    BY <1>3, <2>1
  <2>3. ASSUME NEW k \in DOMAIN d.fields
        PROVE  LET t == fieldGoType(d.fields[k], s, en, S) IN
               /\ t.kind = "ref" => t.to \in 1..(i - 1)
               /\ t.kind = "nested" => t.to \in en
               /\ \A L, ng : Before(L, i) /\ (\A n \in en : NgAt(ng, n) \in Shape) => Laid(t, L, ng)
    <3>1. PICK f : f = d.fields[k]
      OBVIOUS
    <3>2. f.kind \in {"native", "pointer", "ref", "nested"} /\ (f.kind = "ref" => f.to \in 1..(i - 1))
      BY <3>1, FieldFacts DEF Listed
    <3>3. PICK t : t = fieldGoType(f, s, en, S)
      OBVIOUS
    <3>4. \A L, ng : Before(L, i) /\ (\A n \in en : NgAt(ng, n) \in Shape) => Laid(t, L, ng)
      BY <3>1, <3>3, TypesLaid
    <3>e. /\ \A x, y : GoMemory(x, y).kind = "memory" /\ Unresolved.kind = "none"
          /\ \A x, y, z : GoNamed(x, y, z).kind = x /\ GoNamed(x, y, z).to = y
          /\ \A l : blob(l).kind \in {"memory", "none"}
      BY DEF GoMemory, GoNamed, Unresolved, blob
    <3>5. (t.kind = "ref" => t.to \in 1..(i - 1)) /\ (t.kind = "nested" => t.to \in en)
      <4>1. CASE f.kind = "native"
        BY <3>3, <3>e, <4>1 DEF fieldGoType
      <4>2. CASE f.kind = "pointer"
        BY <3>3, <3>e, <4>2 DEF fieldGoType
      <4>3. CASE f.kind = "nested"
        BY <3>3, <3>e, <4>3 DEF fieldGoType
      <4>4. CASE f.kind = "ref"
        <5>1. t.kind = "ref" => t.to = f.to
          BY <3>3, <3>e, <4>4 DEF fieldGoType
        <5>2. t.kind # "nested"
          BY <3>3, <3>e, <4>4 DEF fieldGoType
        <5> QED
          BY <3>2, <4>4, <5>1, <5>2
      <4> QED
        BY <3>2, <4>1, <4>2, <4>3, <4>4
    <3> QED
      BY <3>1, <3>3, <3>4, <3>5
  <2>4. \A k \in DOMAIN D.fields : k \in DOMAIN d.fields /\ D.fields[k] = fieldGoType(d.fields[k], s, en, S)
    BY <2>1
  <2> QED
    BY <2>2, <2>3, <2>4, <1>a, <1>b, <1>c DEF Orderly
<1> QED
  BY <1>6, <1>7

\* Of a declaration of types that can be laid out.
LEMMA LaidDecl ==
  ASSUME NEW D, NEW n \in Nat, DOMAIN D.fields = 1..n, NEW L, NEW ng, \A k \in DOMAIN D.fields : Laid(D.fields[k], L, ng)
  PROVE  DeclLayout(D, L, ng) \in Shape
<1>1. PICK g : g = [k \in 1..n |-> TypeLayout(D.fields[k], L, ng)]
  OBVIOUS
<1>2. \A k \in 1..n : g[k] \in Shape
  BY <1>1, LaidFacts
<1>3. g \in Seq(Shape)
  BY <1>1, <1>2
<1>4. DeclLayout(D, L, ng) = Place(g, FALSE, 0)
  BY <1>1 DEF DeclLayout
<1>5. FALSE \in BOOLEAN /\ 0 \in Packs
  BY DEF Packs
<1>6. Place(g, FALSE, 0) = structLayoutOf(g, FALSE, 0)
  BY <1>3, <1>5, EngineIsC
<1>7. structLayoutOf(g, FALSE, 0) \in Shape
  BY <1>3, <1>5, LayoutFacts
<1> QED
  BY <1>4, <1>6, <1>7

\* One declaration's layout depends on the structs before i, ...
LEMMA DeclFacts ==
  ASSUME NEW d, NEW i, Listed(d, i), NEW s, Sound(s, i), NEW m, Inside(d, m), NEW en, NEW S
  PROVE  LET D == Declare(d, fieldLayouts(d, s, m), GoTypes(d, s, en, S)) IN
         /\ \A L, ng : Before(L, i) /\ (\A n \in en : NgAt(ng, n) \in Shape) => DeclLayout(D, L, ng) \in Shape
         /\ \A L, L2, ng, ng2 : Agree(L, L2, i) /\ (\A n \in en : NgAt(ng, n) = NgAt(ng2, n)) => DeclLayout(D, L, ng) = DeclLayout(D, L2, ng2)
<1>1. PICK D : D = Declare(d, fieldLayouts(d, s, m), GoTypes(d, s, en, S))
  OBVIOUS
<1>2. /\ \E n \in Nat : DOMAIN D.fields = 1..n
      /\ \A k \in DOMAIN D.fields :
           /\ D.fields[k].kind = "ref" => D.fields[k].to \in 1..(i - 1)
           /\ D.fields[k].kind = "nested" => D.fields[k].to \in en
           /\ \A L, ng : Before(L, i) /\ (\A n \in en : NgAt(ng, n) \in Shape) => Laid(D.fields[k], L, ng)
  BY <1>1, DeclTypes DEF Orderly
<1>3. ASSUME NEW L, NEW ng, Before(L, i), \A n \in en : NgAt(ng, n) \in Shape PROVE DeclLayout(D, L, ng) \in Shape
  BY <1>2, <1>3, LaidDecl
<1>4. ASSUME NEW L, NEW L2, NEW ng, NEW ng2, Agree(L, L2, i), \A n \in en : NgAt(ng, n) = NgAt(ng2, n)
      PROVE  DeclLayout(D, L, ng) = DeclLayout(D, L2, ng2)
  <2>1. ASSUME NEW k \in DOMAIN D.fields PROVE TypeLayout(D.fields[k], L, ng) = TypeLayout(D.fields[k], L2, ng2)
    <3>1. D.fields[k].kind = "ref" => L[D.fields[k].to] = L2[D.fields[k].to]
      BY <1>2, <1>4 DEF Agree
    <3>2. D.fields[k].kind = "nested" => NgAt(ng, D.fields[k].to) = NgAt(ng2, D.fields[k].to)
      BY <1>2, <1>4
    <3>3. OneType(D.fields[k], L, ng) = OneType(D.fields[k], L2, ng2)
      BY <3>1, <3>2 DEF OneType
    <3> QED
      BY <3>3, TypeIs
  <2> QED
    BY <2>1 DEF DeclLayout
<1> QED
  BY <1>1, <1>3, <1>4

\* The declarations of a struct and of its nested types.
SelfOf(def, s, S) == Declare(def, Fields(def, def, s), GoTypes(def, s, NestedEmitted(def, 0, Subs(def, s, S)), S))
OneAt(def, s, S, n) ==
  Declare(def.nested[n], Fields(def.nested[n], def, s), GoTypes(def.nested[n], s, NestedEmitted(def, n, Subs(def, s, S)), S))

\* What building a nested type returns is there.
LEMMA SubsOK ==
  ASSUME NEW def, Nesting(def), Kinds(def), NEW s, NEW S
  PROVE  \A n \in DOMAIN def.nested : \A p \in Subs(def, s, S)[n] : OneAt(def, s, S, p).ok
<1> DEFINE sub == Subs(def, s, S)
           T == {n \in DOMAIN def.nested : \A p \in sub[n] : OneAt(def, s, S, p).ok}
<1>1. \A n \in DOMAIN def.nested : sub[n] = SubAt(def, s, S, n, sub)
  BY SubsFacts
<1>2. \A n \in DOMAIN def.nested : OneOf(def, s, S, n, sub) = OneAt(def, s, S, n)
  BY OneIs DEF OneOf, OneAt, Kinds
<1> HIDE DEF sub
<1>3. ASSUME NEW n \in DOMAIN def.nested, \A m \in Inner(def, n) : m \in T PROVE n \in T
  <2>1. \A p \in UNION {sub[m] : m \in Inner(def, n)} : OneAt(def, s, S, p).ok
    BY <1>3
  <2>2. \A p \in sub[n] : (p = n /\ OneAt(def, s, S, n).ok) \/ p \in UNION {sub[m] : m \in Inner(def, n)}
    BY <1>1, <1>2 DEF SubAt, Sub
  <2> QED
    BY <2>1, <2>2
<1>4. \A n \in DOMAIN def.nested : n \in T
  <2> HIDE DEF T
  <2> QED
    BY <1>3, FromInside
<1> QED
  BY <1>4 DEF sub

\* Go's layouts of the nested types that are declared, one from another, ...
GoNestedAt(def, s, S, L, n, ng) == DeclLayout(OneAt(def, s, S, n), L, ng)
GoNested(def, s, S, L) == CHOOSE ng : ng = [n \in Kept(def, s, S) |-> GoNestedAt(def, s, S, L, n, ng)]

\* buildStructTree, by its parts.
LEMMA TreeParts ==
  ASSUME NEW def, Nesting(def), Kinds(def), NEW s, NEW S
  PROVE  LET D == buildStructTree(def, s, S) IN
         /\ D.ok = SelfOf(def, s, S).ok /\ D.self = SelfOf(def, s, S)
         /\ \A L : TreeLayout(D, L) = DeclLayout(SelfOf(def, s, S), L, GoNested(def, s, S, L))
         /\ Kept(def, s, S) \subseteq DOMAIN def.nested
         /\ \A n \in Kept(def, s, S) : OneAt(def, s, S, n).ok
<1>1. PICK D : D = buildStructTree(def, s, S)
  OBVIOUS
<1>2. PICK kept : kept = Kept(def, s, S)
  OBVIOUS
<1>3. D.self = SelfOf(def, s, S) /\ D.ok = D.self.ok
  BY <1>1, TreeIs DEF SelfOf
<1>4. DOMAIN D.nested = kept /\ kept \subseteq DOMAIN def.nested /\ \A n \in kept : D.nested[n] = OneOf(def, s, S, n, Subs(def, s, S))
  BY <1>1, <1>2, TreeDeclares
<1>5. \A n \in kept : D.nested[n] = OneAt(def, s, S, n)
  BY <1>4, OneIs DEF OneOf, OneAt, Kinds
<1>6. ASSUME NEW L PROVE TreeLayout(D, L) = DeclLayout(SelfOf(def, s, S), L, GoNested(def, s, S, L))
  <2>1. \A ng : [n \in DOMAIN D.nested |-> DeclLayout(D.nested[n], L, ng)] = [n \in kept |-> GoNestedAt(def, s, S, L, n, ng)]
    BY <1>4, <1>5 DEF GoNestedAt
  <2>2. (CHOOSE ng : ng = [n \in DOMAIN D.nested |-> DeclLayout(D.nested[n], L, ng)]) = GoNested(def, s, S, L)
    BY <1>2, <2>1 DEF GoNested
  <2>3. TreeLayout(D, L) = DeclLayout(D.self, L, CHOOSE ng : ng = [n \in DOMAIN D.nested |-> DeclLayout(D.nested[n], L, ng)])
    BY DEF TreeLayout
  <2> QED
    BY <1>3, <2>2, <2>3
<1>7. \A n \in kept : OneAt(def, s, S, n).ok
  <2>1. \A n \in kept : \E m \in Inner(def, 0) : n \in Subs(def, s, S)[m]
    BY <1>2 DEF Kept
  <2> QED
    BY <2>1, SubsOK DEF Inner
<1> QED
  BY <1>1, <1>2, <1>3, <1>4, <1>6, <1>7

\* A nested type's declaration names those nested in it only.
LEMMA OneOrderly ==
  ASSUME NEW def, NEW i, VariantOK(def, i), NEW s, Sound(s, i), NEW S, NEW n \in DOMAIN def.nested
  PROVE  /\ \A L, ng : Before(L, i) /\ (\A m \in Inner(def, n) : NgAt(ng, m) \in Shape) => GoNestedAt(def, s, S, L, n, ng) \in Shape
         /\ \A L, L2, ng, ng2 : Agree(L, L2, i) /\ (\A m \in Inner(def, n) : NgAt(ng, m) = NgAt(ng2, m))
              => GoNestedAt(def, s, S, L, n, ng) = GoNestedAt(def, s, S, L2, n, ng2)
<1>1. PICK d : d = def.nested[n]
  OBVIOUS
<1>2. PICK en : en = NestedEmitted(def, n, Subs(def, s, S))
  OBVIOUS
<1>3. PICK m : m = nestedLayouts(def, s)
  OBVIOUS
<1>4. PICK D : D = OneAt(def, s, S, n)
  OBVIOUS
<1>5. Listed(d, i) /\ Inside(d, m)
  BY <1>1, <1>3, NestedsFacts DEF VariantOK, Sound
<1>6. en \subseteq Inner(def, n)
  BY <1>2 DEF NestedEmitted
<1>7. D = Declare(d, fieldLayouts(d, s, m), GoTypes(d, s, en, S))
  BY <1>1, <1>2, <1>3, <1>4 DEF OneAt, Fields
<1>8. /\ \A L, ng : Before(L, i) /\ (\A x \in en : NgAt(ng, x) \in Shape) => DeclLayout(D, L, ng) \in Shape
      /\ \A L, L2, ng, ng2 : Agree(L, L2, i) /\ (\A x \in en : NgAt(ng, x) = NgAt(ng2, x)) => DeclLayout(D, L, ng) = DeclLayout(D, L2, ng2)
  BY <1>5, <1>7, DeclFacts
<1> QED
  BY <1>4, <1>6, <1>8 DEF GoNestedAt

\* ... are layouts, from the structs before i.
LEMMA GoNestedFacts ==
  ASSUME NEW def, NEW i, VariantOK(def, i), NEW s, Sound(s, i), NEW S, Kept(def, s, S) \subseteq DOMAIN def.nested
  PROVE  /\ \A L : Before(L, i) =>
              /\ GoNested(def, s, S, L) \in [Kept(def, s, S) -> Shape]
              /\ \A n \in Kept(def, s, S) : GoNested(def, s, S, L)[n] = GoNestedAt(def, s, S, L, n, GoNested(def, s, S, L))
         /\ \A L, L2 : Agree(L, L2, i) => GoNested(def, s, S, L) = GoNested(def, s, S, L2)
<1>1. PICK I : I = Kept(def, s, S)
  OBVIOUS
<1>2. I \subseteq DOMAIN def.nested /\ Len(def.nested) \in Nat /\ I \in SUBSET (0..Len(def.nested))
  BY <1>1 DEF VariantOK, Nesting
<1>3. \A n \in I : \A m \in Inner(def, n) : m < n /\ m \in Nat
  BY <1>2 DEF VariantOK, Nesting
<1>n. NoLayout \in Shape
  BY DEF NoLayout, Shape, Aligns
<1>4. ASSUME NEW L, Before(L, i)
      PROVE  /\ GoNested(def, s, S, L) \in [I -> Shape]
             /\ \A n \in I : GoNested(def, s, S, L)[n] = GoNestedAt(def, s, S, L, n, GoNested(def, s, S, L))
  <2> DEFINE H == [f \in [I -> Shape] |-> [n \in I |-> GoNestedAt(def, s, S, L, n, f)]]
  <2>1. ASSUME NEW f \in [I -> Shape], NEW n \in I PROVE GoNestedAt(def, s, S, L, n, f) \in Shape
    <3>1. \A m : NgAt(f, m) \in Shape
      BY <1>n DEF NgAt
    <3> QED
      BY <1>2, <1>4, <3>1, OneOrderly
  <2>2. ASSUME NEW f \in [I -> Shape], NEW g \in [I -> Shape], NEW n \in I, \A m \in I : m < n => f[m] = g[m]
        PROVE  GoNestedAt(def, s, S, L, n, f) = GoNestedAt(def, s, S, L, n, g)
    <3>1. \A m \in Inner(def, n) : NgAt(f, m) = NgAt(g, m)
      BY <1>3, <2>2 DEF NgAt
    <3>2. Agree(L, L, i)
      BY DEF Agree
    <3> QED
      BY <1>2, <3>1, <3>2, OneOrderly
  <2>3. Approximates(H, I, Shape)
    <3>1. \A f \in [I -> Shape] : [n \in I |-> GoNestedAt(def, s, S, L, n, f)] \in [I -> Shape]
      BY <2>1
    <3>2. \A f, g \in [I -> Shape] : \A x \in I : (\A y \in I : y < x => f[y] = g[y]) =>
            [n \in I |-> GoNestedAt(def, s, S, L, n, f)][x] = [n \in I |-> GoNestedAt(def, s, S, L, n, g)][x]
      BY <2>2
    <3> QED
      BY <3>1, <3>2 DEF Approximates
  <2>4. HasFixpoint(H, I, Shape)
    <3> HIDE DEF H
    <3> QED
      BY <1>2, <1>n, <2>3, Recursion
  <2>5. PICK f : f \in [I -> Shape] /\ f = [n \in I |-> GoNestedAt(def, s, S, L, n, f)]
    BY <2>4 DEF HasFixpoint
  <2>6. PICK C : C = GoNested(def, s, S, L)
    OBVIOUS
  <2>7. C = [n \in I |-> GoNestedAt(def, s, S, L, n, C)]
    BY <1>1, <2>5, <2>6 DEF GoNested
  <2>8. \A n \in I : C[n] = GoNestedAt(def, s, S, L, n, C)
    BY <2>7
  <2>9. C = [n \in I |-> C[n]] /\ DOMAIN C = I
    BY <2>7
  <2> DEFINE T == {n \in Nat : n \in I => C[n] \in Shape}
  <2>10. ASSUME NEW n \in Nat, \A m \in Nat : m < n => m \in T PROVE n \in T
    <3> SUFFICES ASSUME n \in I PROVE C[n] \in Shape
      OBVIOUS
    <3>1. \A m \in Inner(def, n) : m \in I => C[m] \in Shape
      BY <1>3, <2>10
    <3>2. \A m \in Inner(def, n) : NgAt(C, m) \in Shape
      BY <1>n, <2>9, <3>1 DEF NgAt
    <3> QED
      BY <1>2, <1>4, <2>8, <3>2, OneOrderly
  <2>11. \A n \in Nat : n \in T
    <3> HIDE DEF T
    <3> QED
      BY <2>10, FromBelow
  <2>12. \A n \in I : C[n] \in Shape
    BY <1>2, <2>11
  <2>13. C \in [I -> Shape]
    BY <2>9, <2>12
  <2> QED
    BY <2>6, <2>8, <2>13
<1>5. ASSUME NEW L, NEW L2, Agree(L, L2, i) PROVE GoNested(def, s, S, L) = GoNested(def, s, S, L2)
  <2>1. \A ng : \A n \in I : GoNestedAt(def, s, S, L, n, ng) = GoNestedAt(def, s, S, L2, n, ng)
    BY <1>2, <1>5, OneOrderly
  <2>2. \A ng : [n \in I |-> GoNestedAt(def, s, S, L, n, ng)] = [n \in I |-> GoNestedAt(def, s, S, L2, n, ng)]
    BY <2>1
  <2> QED
    BY <1>1, <2>2 DEF GoNested
<1> QED
  BY <1>1, <1>4, <1>5

\* What a struct has declared.
TreeGo(def, s, S, L) == DeclLayout(SelfOf(def, s, S), L, GoNested(def, s, S, L))

\* Go's layout of a struct is one, from the structs before i.
LEMMA TreeFacts ==
  ASSUME NEW def, NEW i, VariantOK(def, i), NEW s, Sound(s, i), NEW S, Kept(def, s, S) \subseteq DOMAIN def.nested
  PROVE  /\ \A L : Before(L, i) => TreeGo(def, s, S, L) \in Shape
         /\ \A L, L2 : Agree(L, L2, i) => TreeGo(def, s, S, L) = TreeGo(def, s, S, L2)
<1>1. PICK en : en = NestedEmitted(def, 0, Subs(def, s, S))
  OBVIOUS
<1>2. PICK m : m = nestedLayouts(def, s)
  OBVIOUS
<1>3. PICK D : D = SelfOf(def, s, S)
  OBVIOUS
<1>4. Listed(def, i) /\ Inside(def, m)
  BY <1>2, NestedsFacts DEF VariantOK, Sound
<1>5. D = Declare(def, fieldLayouts(def, s, m), GoTypes(def, s, en, S))
  BY <1>1, <1>2, <1>3 DEF SelfOf, Fields
<1>6. /\ \A L, ng : Before(L, i) /\ (\A n \in en : NgAt(ng, n) \in Shape) => DeclLayout(D, L, ng) \in Shape
      /\ \A L, L2, ng, ng2 : Agree(L, L2, i) /\ (\A n \in en : NgAt(ng, n) = NgAt(ng2, n)) => DeclLayout(D, L, ng) = DeclLayout(D, L2, ng2)
  BY <1>4, <1>5, DeclFacts
<1>7. ASSUME NEW L, Before(L, i) PROVE TreeGo(def, s, S, L) \in Shape
  <2>1. PICK ng : ng = GoNested(def, s, S, L)
    OBVIOUS
  <2>2. ng \in [Kept(def, s, S) -> Shape]
    BY <1>7, <2>1, GoNestedFacts
  <2>3. NoLayout \in Shape
    BY DEF NoLayout, Shape, Aligns
  <2>4. \A n \in en : NgAt(ng, n) \in Shape
    BY <2>2, <2>3 DEF NgAt
  <2> QED
    BY <1>3, <1>6, <1>7, <2>1, <2>4 DEF TreeGo
<1>8. ASSUME NEW L, NEW L2, Agree(L, L2, i) PROVE TreeGo(def, s, S, L) = TreeGo(def, s, S, L2)
  <2>1. GoNested(def, s, S, L) = GoNested(def, s, S, L2)
    BY <1>8, GoNestedFacts
  <2> QED
    BY <1>3, <1>6, <1>8, <2>1 DEF TreeGo
<1> QED
  BY <1>7, <1>8

\* The nested types that can be part of a struct's layout, and the structs whose
\* layouts the struct's takes in.
Reach(def) == {n \in DOMAIN def.nested : embedsArchStruct(def) \/ ~EmbedsIn(def)[n]}
Embeds(def, j) == j \in RefsOf(def) \/ \E n \in Reach(def) : j \in RefsOf(def.nested[n])

\* The fields of those lead nowhere else, and to no architecture-specific struct
\* unless the struct is one.
LEMMA ReachFacts ==
  ASSUME NEW def, Nesting(def)
  PROVE  /\ \A k \in DOMAIN def.fields : def.fields[k].kind = "nested" => def.fields[k].to \in Reach(def)
         /\ \A n \in Reach(def) : \A k \in DOMAIN def.nested[n].fields :
              def.nested[n].fields[k].kind = "nested" => def.nested[n].fields[k].to \in Reach(def)
         /\ ~embedsArchStruct(def) => \A j : Embeds(def, j) => j \notin archStructs
<1> DEFINE E == EmbedsIn(def)
<1>1. /\ embedsArchStruct(def) = ArchIn(def, E)
      /\ \A n \in DOMAIN def.nested : E[n] = ArchIn(def.nested[n], E)
  BY EmbedsArchIs
<1>2. /\ \A k \in DOMAIN def.fields : def.fields[k].kind = "nested" => def.fields[k].to \in DOMAIN def.nested
      /\ \A n \in DOMAIN def.nested : \A k \in DOMAIN def.nested[n].fields :
           def.nested[n].fields[k].kind = "nested" => def.nested[n].fields[k].to \in DOMAIN def.nested
  BY DEF Nesting, Inner
<1>3. Reach(def) = {n \in DOMAIN def.nested : embedsArchStruct(def) \/ ~E[n]}
  BY DEF Reach
<1> HIDE DEF E
<1>4. CASE embedsArchStruct(def)
  BY <1>2, <1>3, <1>4
<1>5. CASE ~embedsArchStruct(def)
  <2>1. ~ArchIn(def, E) /\ \A n \in Reach(def) : n \in DOMAIN def.nested /\ ~ArchIn(def.nested[n], E)
    BY <1>1, <1>3, <1>5
  <2>2. \A d : ~ArchIn(d, E) =>
          /\ \A k \in DOMAIN d.fields : d.fields[k].kind = "nested" => ~E[d.fields[k].to]
          /\ \A j \in RefsOf(d) : j \notin archStructs
    BY DEF ArchIn, RefsOf
  <2>3. \A k \in DOMAIN def.fields : def.fields[k].kind = "nested" => def.fields[k].to \in Reach(def)
    BY <1>2, <1>3, <2>1, <2>2
  <2>4. \A n \in Reach(def) : \A k \in DOMAIN def.nested[n].fields :
          def.nested[n].fields[k].kind = "nested" => def.nested[n].fields[k].to \in Reach(def)
    BY <1>2, <1>3, <2>1, <2>2
  <2>5. \A j : Embeds(def, j) => j \notin archStructs
    BY <2>1, <2>2 DEF Embeds
  <2> QED
    BY <2>3, <2>4, <2>5
<1> QED
  BY <1>4, <1>5

\* A declared nested type fits the nested type in C when what it embeds fits.
LEMMA NestedMatches ==
  ASSUME NEW def, NEW i, VariantOK(def, i), Kinds(def), NEW s, Sound(s, i), NEW S, NEW L, Before(L, i),
         \A j : Embeds(def, j) /\ L[j].ok => Fits(L[j], s[j])
  PROVE  \A n \in Reach(def) : NgAt(GoNested(def, s, S, L), n).ok => Fits(NgAt(GoNested(def, s, S, L), n), nestedLayouts(def, s)[n])
<1>1. PICK m : m = nestedLayouts(def, s)
  OBVIOUS
<1>2. PICK ng : ng = GoNested(def, s, S, L)
  OBVIOUS
<1>3. PICK kept : kept = Kept(def, s, S)
  OBVIOUS
<1>4. Nesting(def) /\ kept \subseteq DOMAIN def.nested /\ \A n \in kept : OneAt(def, s, S, n).ok
  BY <1>3, TreeParts DEF VariantOK
<1>5. ng \in [kept -> Shape] /\ \A n \in kept : ng[n] = GoNestedAt(def, s, S, L, n, ng)
  BY <1>2, <1>3, <1>4, GoNestedFacts
<1>6. \A n \in DOMAIN def.nested : m[n] = NestedAt(def, s, n, m) /\ Inside(def.nested[n], m)
  BY <1>1, NestedsFacts DEF Sound
<1>7. NoLayout \in Shape /\ NoLayout.ok = FALSE
  BY DEF NoLayout, Shape, Aligns
<1>8. \A n : NgAt(ng, n) \in Shape /\ (NgAt(ng, n).ok => n \in kept)
  BY <1>5, <1>7 DEF NgAt
<1> DEFINE T == {n \in DOMAIN def.nested : n \in Reach(def) /\ NgAt(ng, n).ok => Fits(NgAt(ng, n), m[n])}
<1>9. ASSUME NEW n \in DOMAIN def.nested, \A x \in Inner(def, n) : x \in T PROVE n \in T
  <2> SUFFICES ASSUME n \in Reach(def), NgAt(ng, n).ok PROVE Fits(NgAt(ng, n), m[n])
    OBVIOUS
  <2>1. n \in kept
    BY <1>8
  <2>2. PICK d : d = def.nested[n]
    OBVIOUS
  <2>3. PICK en : en = NestedEmitted(def, n, Subs(def, s, S))
    OBVIOUS
  <2>4. PICK D : D = OneAt(def, s, S, n)
    OBVIOUS
  <2>5. Listed(d, i) /\ Inside(d, m)
    BY <1>6, <2>2 DEF VariantOK
  <2>6. D = Declare(d, fieldLayouts(d, s, m), GoTypes(d, s, en, S)) /\ D.ok
    BY <1>1, <1>4, <2>1, <2>2, <2>3, <2>4 DEF OneAt, Fields
  <2>7. NgAt(ng, n) = DeclLayout(D, L, ng)
    BY <1>5, <2>1, <2>4 DEF NgAt, GoNestedAt
  <2>8. m[n] = structLayoutOf(fieldLayouts(d, s, m), d.union, d.pack)
    BY <1>6, <2>2 DEF NestedAt
  <2>9. ASSUME NEW k \in DOMAIN d.fields, d.fields[k].kind = "ref", L[d.fields[k].to].ok
        PROVE  Fits(L[d.fields[k].to], s[d.fields[k].to])
    <3>1. d.fields[k].to \in RefsOf(d)
      BY <2>9 DEF RefsOf
    <3>2. Embeds(def, d.fields[k].to)
      BY <2>2, <3>1 DEF Embeds
    <3> QED
      BY <2>9, <3>2
  <2>10. ASSUME NEW k \in DOMAIN d.fields, d.fields[k].kind = "nested", NgAt(ng, d.fields[k].to).ok
         PROVE  Fits(NgAt(ng, d.fields[k].to), m[d.fields[k].to])
    <3>1. PICK x : x = d.fields[k].to
      OBVIOUS
    <3>2. x \in Inner(def, n) /\ x \in Reach(def)
      BY <1>4, <2>2, <2>10, <3>1, ReachFacts DEF Nesting
    <3>3. x \in T
      BY <1>9, <3>2
    <3> QED
      BY <2>10, <3>1, <3>2, <3>3
  <2>11. \A x \in en : NgAt(ng, x) \in Shape
    BY <1>8
  <2> HIDE DEF T
  <2>12. Matches(DeclLayout(D, L, ng), structLayoutOf(fieldLayouts(d, s, m), d.union, d.pack), D.opaque)
    BY <2>5, <2>6, <2>9, <2>10, <2>11, DeclMatches
  <2> QED
    BY <2>7, <2>8, <2>12 DEF Matches
<1>10. \A n \in DOMAIN def.nested : n \in T
  <2> HIDE DEF T
  <2> QED
    BY <1>4, <1>9, FromInside
<1>11. \A n \in Reach(def) : n \in DOMAIN def.nested
  BY DEF Reach
<1> QED
  BY <1>1, <1>2, <1>10, <1>11

\* buildStructTree matches the variant it was given when what the variant embeds
\* matches.
LEMMA TreeMatches ==
  ASSUME NEW def, NEW i, VariantOK(def, i), Kinds(def), NEW s, Sound(s, i), NEW S, NEW L, Before(L, i), SelfOf(def, s, S).ok,
         \A j : Embeds(def, j) /\ L[j].ok => Fits(L[j], s[j])
  PROVE  Matches(TreeGo(def, s, S, L), LayoutFrom(def, s), SelfOf(def, s, S).opaque)
<1>1. PICK en : en = NestedEmitted(def, 0, Subs(def, s, S))
  OBVIOUS
<1>2. PICK m : m = nestedLayouts(def, s)
  OBVIOUS
<1>3. PICK ng : ng = GoNested(def, s, S, L)
  OBVIOUS
<1>4. Nesting(def) /\ Listed(def, i) /\ Inside(def, m) /\ Kept(def, s, S) \subseteq DOMAIN def.nested
  BY <1>2, NestedsFacts, TreeParts DEF VariantOK, Sound
<1>5. NoLayout \in Shape
  BY DEF NoLayout, Shape, Aligns
<1>6. \A n \in en : NgAt(ng, n) \in Shape
  BY <1>3, <1>4, <1>5, GoNestedFacts DEF NgAt
<1>7. ASSUME NEW k \in DOMAIN def.fields, def.fields[k].kind = "ref", L[def.fields[k].to].ok
      PROVE  Fits(L[def.fields[k].to], s[def.fields[k].to])
  BY <1>7 DEF Embeds, RefsOf
<1>8. ASSUME NEW k \in DOMAIN def.fields, def.fields[k].kind = "nested", NgAt(ng, def.fields[k].to).ok
      PROVE  Fits(NgAt(ng, def.fields[k].to), m[def.fields[k].to])
  <2>1. def.fields[k].to \in Reach(def)
    BY <1>4, <1>8, ReachFacts
  <2> QED
    BY <1>2, <1>3, <1>8, <2>1, NestedMatches
<1>9. PICK D : D = SelfOf(def, s, S)
  OBVIOUS
<1>10. D = Declare(def, fieldLayouts(def, s, m), GoTypes(def, s, en, S)) /\ D.ok
  BY <1>1, <1>2, <1>9 DEF SelfOf, Fields
<1>11. Matches(DeclLayout(D, L, ng), structLayoutOf(fieldLayouts(def, s, m), def.union, def.pack), D.opaque)
  BY <1>4, <1>6, <1>7, <1>8, <1>10, DeclMatches
<1> QED
  BY <1>2, <1>3, <1>9, <1>11 DEF TreeGo, LayoutFrom, Fields

\* What an emitted struct was built from.
DefOf(i, arch) == registry[i].variants[pickVariant(i, Engine(i, arch))]

\* An emitted struct was built from the variant of the engine that emitted it, all
\* of whose embedded structs come before it.
LEMMA BuiltFacts ==
  ASSUME Inv, phase = "done", NEW arch \in emitArches, NEW i \in There(arch)
  PROVE  LET s == layouts(Engine(i, arch)) IN
         /\ i \in Idx /\ pickVariant(i, Engine(i, arch)) # 0
         /\ VariantOK(DefOf(i, arch), i) /\ Kinds(DefOf(i, arch)) /\ Sound(s, i) /\ SelfOf(DefOf(i, arch), s, skipped).ok
         /\ emitted[arch][i] = buildStructTree(DefOf(i, arch), s, skipped)
         /\ s[i] = LayoutFrom(DefOf(i, arch), s)
<1>a. PICK E : E = Engine(i, arch)
  OBVIOUS
<1>b. PICK v : v = pickVariant(i, E)
  OBVIOUS
<1>c. PICK def : def = registry[i].variants[v]
  OBVIOUS
<1>d. PICK s : s = layouts(E)
  OBVIOUS
<1>1. i \in Idx /\ Declared(i, arch).ok /\ emitted[arch][i] = Declared(i, arch)
  BY DoneFacts
<1>2. v # 0
  <2>1. OkIn(i, arch, skipped)
    BY <1>1, DeclaredOK DEF Inv
  <2> QED
    BY <1>a, <1>b, <2>1 DEF OkIn
<1>3. VariantOK(def, i) /\ Kinds(def)
  BY <1>1, <1>2, <1>b, <1>c, PickFacts, VariantFacts, VariantKinds DEF Inv
<1>4. Declared(i, arch) = buildStructTree(def, s, skipped)
  BY <1>2, <1>a, <1>b, <1>c, <1>d, DeclaredIs DEF Built
<1>5. s \in [Idx -> Shape] /\ \A j \in Idx : s[j] = EngineAt(j, E, s) /\ Divides(s[j].align, s[j].size) /\ Before(s, j)
  BY <1>d, LayoutsFacts DEF Inv
<1>6. Sound(s, i)
  <2>1. Len(registry) \in Nat /\ Idx = 1..Len(registry)
    BY RegistryFacts DEF Inv
  <2>2. \A j \in 1..(i - 1) : j \in Idx
    BY <1>1, <2>1
  <2> QED
    BY <1>1, <1>5, <2>2 DEF Sound
<1>7. SelfOf(def, s, skipped).ok
  BY <1>1, <1>3, <1>4, TreeParts DEF VariantOK
<1>8. s[i] = LayoutFrom(def, s)
  BY <1>1, <1>2, <1>5, <1>b, <1>c DEF EngineAt
<1> QED
  BY <1>1, <1>2, <1>3, <1>4, <1>6, <1>7, <1>8, <1>a, <1>b, <1>c, <1>d DEF DefOf

\* Go's layout of a struct, from those of the structs.
GoAt(i, arch, L) == IF i \in There(arch) THEN TreeLayout(emitted[arch][i], L) ELSE NoLayout

\* Go's layout of a struct is a layout, from the structs before it.
LEMMA GoAtFacts ==
  ASSUME Inv, phase = "done", NEW arch \in emitArches, NEW i \in Idx
  PROVE  /\ \A L : Before(L, i) => GoAt(i, arch, L) \in Shape
         /\ \A L, L2 : Agree(L, L2, i) => GoAt(i, arch, L) = GoAt(i, arch, L2)
<1>1. CASE i \in There(arch)
  <2>1. PICK d : d = emitted[arch][i]
    OBVIOUS
  <2>2. \A L : GoAt(i, arch, L) = TreeLayout(d, L)
    BY <1>1, <2>1 DEF GoAt
  <2>3. /\ \A L : Before(L, i) => TreeLayout(d, L) \in Shape
        /\ \A L, L2 : Agree(L, L2, i) => TreeLayout(d, L) = TreeLayout(d, L2)
    <3>1. PICK s : s = layouts(Engine(i, arch))
      OBVIOUS
    <3>2. PICK def : def = DefOf(i, arch)
      OBVIOUS
    <3>3. VariantOK(def, i) /\ Kinds(def) /\ Sound(s, i) /\ d = buildStructTree(def, s, skipped)
      BY <1>1, <2>1, <3>1, <3>2, BuiltFacts
    <3>4. Kept(def, s, skipped) \subseteq DOMAIN def.nested /\ \A L : TreeLayout(d, L) = TreeGo(def, s, skipped, L)
      BY <3>3, TreeParts DEF VariantOK, TreeGo
    <3> QED
      BY <3>3, <3>4, TreeFacts
  <2> QED
    BY <2>2, <2>3
<1>2. CASE i \notin There(arch)
  <2>1. NoLayout \in Shape
    BY DEF NoLayout, Shape, Aligns
  <2>2. \A L : GoAt(i, arch, L) = NoLayout
    BY <1>2 DEF GoAt
  <2> QED
    BY <2>1, <2>2
<1> QED
  BY <1>1, <1>2

\* Go, too, lays out one struct after the other.
LEMMA GoLayoutsFacts ==
  ASSUME Inv, phase = "done", NEW arch \in emitArches
  PROVE  \A i \in Idx : Before(GoLayouts(arch), i) /\ GoLayouts(arch)[i] = GoAt(i, arch, GoLayouts(arch))
<1> DEFINE H == [f \in [Idx -> Shape] |-> [i \in Idx |-> GoAt(i, arch, f)]]
<1>1. Len(registry) \in Nat /\ Idx = 1..Len(registry)
  BY RegistryFacts DEF Inv
<1>2. \A f \in [Idx -> Shape] : \A i \in Idx : Before(f, i)
  BY <1>1 DEF Before
<1>3. HasFixpoint(H, Idx, Shape)
  <2>1. H \in [[Idx -> Shape] -> [Idx -> Shape]]
    BY <1>2, GoAtFacts
  <2>2. ASSUME NEW f \in [Idx -> Shape], NEW g \in [Idx -> Shape], NEW x \in Idx, \A y \in Idx : y < x => f[y] = g[y]
        PROVE  H[f][x] = H[g][x]
    <3>1. Agree(f, g, x)
      BY <1>1, <2>2 DEF Agree
    <3>2. GoAt(x, arch, f) = GoAt(x, arch, g)
      BY <3>1, GoAtFacts
    <3> QED
      BY <3>2
  <2>3. Approximates(H, Idx, Shape)
    <3> HIDE DEF H
    <3> QED
      BY <2>1, <2>2 DEF Approximates
  <2>4. Idx \in SUBSET (0..Len(registry)) /\ NoLayout \in Shape
    BY <1>1 DEF NoLayout, Shape, Aligns
  <2> HIDE DEF H
  <2> QED
    BY <1>1, <2>3, <2>4, Recursion
<1>4. PICK f : f \in [Idx -> Shape] /\ f = [i \in Idx |-> GoAt(i, arch, f)]
  BY <1>3 DEF HasFixpoint
<1>5. PICK L : L = GoLayouts(arch)
  OBVIOUS
<1>6. GoLayouts(arch) = CHOOSE layout : layout = [i \in Idx |-> GoAt(i, arch, layout)]
  BY DEF GoLayouts, GoAt
<1>7. L = [i \in Idx |-> GoAt(i, arch, L)]
  BY <1>4, <1>5, <1>6
<1>8. \A i \in Idx : L[i] = GoAt(i, arch, L)
  BY <1>7
<1> DEFINE T == {i \in Nat : i \in Idx => L[i] \in Shape /\ Before(L, i)}
<1>9. ASSUME NEW i \in Nat, \A m \in Nat : m < i => m \in T PROVE i \in T
  <2> SUFFICES ASSUME i \in Idx PROVE L[i] \in Shape /\ Before(L, i)
    OBVIOUS
  <2>1. ASSUME NEW j \in 1..(i - 1) PROVE L[j] \in Shape
    <3>1. j \in Nat /\ j < i /\ j \in Idx
      BY <1>1
    <3> QED
      BY <1>9, <3>1
  <2>2. Before(L, i)
    BY <2>1 DEF Before
  <2> QED
    BY <1>8, <2>2, GoAtFacts
<1>10. \A i \in Nat : i \in T
  <2> HIDE DEF T
  <2> QED
    BY <1>9, FromBelow
<1>11. \A i \in Idx : Before(L, i)
  BY <1>1, <1>10
<1> QED
  BY <1>5, <1>8, <1>11

\* What a struct embeds comes before it; and if the struct is emitted once, so is
\* what it embeds.
LEMMA EmbedsFacts ==
  ASSUME Inv, phase = "done", NEW arch \in emitArches, NEW i \in There(arch), NEW j, Embeds(DefOf(i, arch), j)
  PROVE  j \in 1..(i - 1) /\ (i \notin archStructs => j \notin archStructs)
<1>a. PICK def : def = DefOf(i, arch)
  OBVIOUS
<1>1. VariantOK(def, i) /\ i \in Idx /\ pickVariant(i, Engine(i, arch)) # 0
  BY <1>a, BuiltFacts
<1>2. Embeds(def, j)
  BY <1>a
<1>3. \A d : Listed(d, i) /\ j \in RefsOf(d) => j \in 1..(i - 1)
  BY DEF Listed, RefsOf
<1>4. j \in 1..(i - 1)
  BY <1>1, <1>2, <1>3 DEF VariantOK, Embeds, Reach
<1>5. ASSUME i \notin archStructs PROVE j \notin archStructs
  <2>1. Engine(i, arch) = "amd64"
    BY <1>5 DEF Engine
  <2>2. ~Inherits(i)
    BY <1>1 DEF Inv, IInv, ArchInv
  <2>3. ~embedsArchStruct(def)
    BY <1>5, <1>1, <1>a, <2>1, <2>2 DEF Inherits, DefOf, emitArches
  <2> QED
    BY <1>1, <1>2, <2>3, ReachFacts DEF VariantOK
<1> QED
  BY <1>4, <1>5

\* Go's layout is that of the engine the struct was emitted with, by induction on
\* what the struct embeds.
LEMMA GoIsEngine ==
  ASSUME Inv, phase = "done", NEW arch \in emitArches
  PROVE  \A i \in There(arch) :
           Matches(GoLayouts(arch)[i], layouts(Engine(i, arch))[i], emitted[arch][i].self.opaque)
<1>a. PICK go : go = GoLayouts(arch)
  OBVIOUS
<1> DEFINE T == {i \in Nat : i \in There(arch) => Matches(go[i], layouts(Engine(i, arch))[i], emitted[arch][i].self.opaque)}
<1>1. Len(registry) \in Nat /\ Idx = 1..Len(registry)
  BY RegistryFacts DEF Inv
<1>2. \A i \in Idx : Before(go, i) /\ go[i] = GoAt(i, arch, go)
  BY <1>a, GoLayoutsFacts
<1>3. ASSUME NEW i \in Nat, \A m \in Nat : m < i => m \in T PROVE i \in T
  <2> SUFFICES ASSUME i \in There(arch)
               PROVE  Matches(go[i], layouts(Engine(i, arch))[i], emitted[arch][i].self.opaque)
    OBVIOUS
  <2>a. PICK def : def = DefOf(i, arch)
    OBVIOUS
  <2>b. PICK s : s = layouts(Engine(i, arch))
    OBVIOUS
  <2>1. /\ i \in Idx /\ VariantOK(def, i) /\ Kinds(def) /\ Sound(s, i) /\ SelfOf(def, s, skipped).ok
        /\ emitted[arch][i] = buildStructTree(def, s, skipped) /\ s[i] = LayoutFrom(def, s)
    BY <2>a, <2>b, BuiltFacts
  <2>2. ASSUME NEW j, Embeds(def, j), go[j].ok PROVE Fits(go[j], s[j])
    <3>1. j \in 1..(i - 1) /\ (i \notin archStructs => j \notin archStructs)
      BY <2>2, <2>a, EmbedsFacts
    <3>2. j \in Nat /\ j < i /\ j \in Idx
      BY <1>1, <2>1, <3>1
    <3>3. j \in There(arch)
      <4>1. NoLayout.ok = FALSE
        BY DEF NoLayout
      <4> QED
        BY <1>2, <2>2, <3>2, <4>1 DEF GoAt
    <3>4. PICK e : e = layouts(Engine(j, arch))
      OBVIOUS
    <3>5. Matches(go[j], e[j], emitted[arch][j].self.opaque)
      BY <1>3, <3>2, <3>3, <3>4
    <3>6. Fits(go[j], e[j]) /\ e[j].ok
      BY <2>2, <3>5 DEF Matches, Fits
    <3>7. e[j] = s[j]
      <4>1. CASE i \in archStructs /\ j \notin archStructs
        <5>1. e = layouts("amd64") /\ s = layouts(arch)
          BY <2>b, <3>4, <4>1 DEF Engine
        <5>2. phase \notin {"arch", "contain"}
          OBVIOUS
        <5> QED
          BY <3>2, <3>6, <4>1, <5>1, <5>2, SharedLayout
      <4>2. CASE i \in archStructs /\ j \in archStructs
        BY <2>b, <3>4, <4>2 DEF Engine
      <4>3. CASE i \notin archStructs
        BY <2>b, <3>1, <3>4, <4>3 DEF Engine
      <4> QED
        BY <4>1, <4>2, <4>3
    <3> QED
      BY <3>6, <3>7
  <2>3. Matches(TreeGo(def, s, skipped, go), LayoutFrom(def, s), SelfOf(def, s, skipped).opaque)
    BY <1>2, <2>1, <2>2, TreeMatches
  <2>4. go[i] = TreeGo(def, s, skipped, go)
    <3>1. go[i] = TreeLayout(buildStructTree(def, s, skipped), go)
      BY <1>2, <2>1 DEF GoAt
    <3> QED
      BY <2>1, <3>1, TreeParts DEF VariantOK, TreeGo
  <2>5. emitted[arch][i].self = SelfOf(def, s, skipped)
    BY <2>1, TreeParts DEF VariantOK
  <2> QED
    BY <2>1, <2>3, <2>4, <2>5, <2>b
<1>4. \A i \in Nat : i \in T
  <2> HIDE DEF T
  <2> QED
    BY <1>3, FromBelow
<1>5. ASSUME NEW i \in There(arch)
      PROVE  Matches(go[i], layouts(Engine(i, arch))[i], emitted[arch][i].self.opaque)
  <2>1. i \in Nat
    BY <1>1, BuiltFacts
  <2> QED
    BY <1>4, <2>1
<1> QED
  BY <1>5, <1>a

\* GoMatchesC holds for all metadata.
THEOREM GoMatchesCCorrect == Spec => []GoMatchesC
<1>1. Inv => GoMatchesC
  <2> SUFFICES ASSUME Inv, phase = "done", NEW arch \in emitArches, NEW i \in There(arch), GoLayouts(arch)[i].ok
               PROVE  /\ CLayouts(arch)[i].ok /\ GoLayouts(arch)[i].size = CLayouts(arch)[i].size
                      /\ GoLayouts(arch)[i].align = CLayouts(arch)[i].align
                      /\ ~emitted[arch][i].self.opaque => GoLayouts(arch)[i].offsets = CLayouts(arch)[i].offsets
    BY DEF GoMatchesC
  <2>1. PICK g : g = GoLayouts(arch)[i]
    OBVIOUS
  <2>2. PICK e : e = layouts(Engine(i, arch))[i]
    OBVIOUS
  <2>3. Matches(g, e, emitted[arch][i].self.opaque) /\ g.ok
    BY <2>1, <2>2, GoIsEngine
  <2>4. CLayouts(arch) = layouts(arch)
    BY CIsEngine DEF Inv
  <2>5. layouts(arch)[i] = e
    <3>1. i \in Idx
      BY BuiltFacts
    <3>2. CASE i \in archStructs
      BY <2>2, <3>2 DEF Engine
    <3>3. CASE i \notin archStructs
      <4>1. e = layouts("amd64")[i] /\ e.ok
        BY <2>2, <2>3, <3>3 DEF Engine, Matches, Fits
      <4> QED
        BY <3>1, <3>3, <4>1, SharedLayout
    <3> QED
      BY <3>2, <3>3
  <2> QED
    BY <2>1, <2>3, <2>4, <2>5 DEF Matches, Fits
<1> QED
  BY <1>1, InvariantCorrect, PTL

-----------------------------------------------------------------------------
(* Skips do not spread *)

\* A list of members that take space does.
LEMMA SolidLayout ==
  ASSUME NEW ls \in Seq(Shape), NEW union \in BOOLEAN, NEW pack \in Packs, Len(ls) # 0, AllOK(ls), \A k \in 1..Len(ls) : ls[k].size # 0
  PROVE  structLayoutOf(ls, union, pack).size # 0
<1>a. PICK n : n = Len(ls)
  OBVIOUS
<1>b. PICK E : E = Ends(ls, union, pack)
  OBVIOUS
<1>c. PICK x : x = ls[n].size
  OBVIOUS
<1>1. n \in Nat /\ n # 0 /\ n - 1 \in Nat /\ n \in 1..n /\ n - 1 \in 0..n /\ n \in 0..n
  BY <1>a
<1>2. x \in Nat /\ x # 0
  <2>1. ls[n] \in Shape
    BY <1>1, <1>a
  <2> QED
    BY <1>1, <1>a, <1>c, <2>1 DEF Shape
<1>3. E \in [0..n -> Nat] /\ E[n] = EndAt(ls, union, pack, n, E[n - 1])
  BY <1>1, <1>a, <1>b, EndFacts
<1>4. E[n] \in Nat /\ E[n] # 0
  <2>1. PICK b \in Nat : b = E[n - 1]
    BY <1>1, <1>3
  <2>2. CASE union
    <3>1. E[n] = Max({b, x})
      BY <1>1, <1>3, <1>c, <2>1, <2>2 DEF EndAt
    <3> QED
      BY <1>2, <3>1, PairFacts
  <2>3. CASE ~union
    <3>1. PICK a : a = AlignIn(ls, pack, n)
      OBVIOUS
    <3>2. a \in Aligns
      BY <1>1, <1>a, <3>1, AlignFacts
    <3>3. roundUp(b, a) \in Nat
      BY <3>2, RoundFacts
    <3>4. E[n] = roundUp(b, a) + x
      BY <1>1, <1>3, <1>c, <2>1, <2>3, <3>1 DEF EndAt
    <3> QED
      BY <1>2, <3>3, <3>4
  <2> QED
    BY <2>2, <2>3
<1>5. PICK m \in Aligns : m = Most(ls, pack)
  BY AlignFacts
<1>6. structLayoutOf(ls, union, pack).size = roundUp(E[n], m)
  BY <1>5, <1>a, <1>b, LayoutFacts
<1>7. roundUp(E[n], m) \in Nat /\ E[n] <= roundUp(E[n], m)
  BY <1>4, RoundFacts
<1> QED
  BY <1>4, <1>6, <1>7

\* Native fields take space.
LEMMA NativeFacts ==
  ASSUME RegistryOK, NEW i \in Idx, NEW v \in DOMAIN registry[i].variants
  PROVE  LET def == registry[i].variants[v]
             solid(d) == \A k \in DOMAIN d.fields : d.fields[k].kind = "native" => d.fields[k].size # 0
         IN  solid(def) /\ \A n \in DOMAIN def.nested : solid(def.nested[n])
<1> DEFINE def == registry[i].variants[v]
           positive(d) == \A k \in DOMAIN d.fields : d.fields[k].kind = "native" => d.fields[k].size > 0
<1>1. positive(def) /\ \A n \in DOMAIN def.nested : positive(def.nested[n])
  BY AlignmentAssumption DEF RegistryOK, Idx
<1>2. ~(0 > 0)
  OBVIOUS
<1> QED
  BY <1>1, <1>2

\* A struct of fields whose structs and nested types take space does.
Takes(l) == l.ok => l.size # 0
Filling(d, s, m) ==
  /\ d.fields # << >>
  /\ \A k \in DOMAIN d.fields : /\ d.fields[k].kind = "native" => d.fields[k].size # 0
                                /\ d.fields[k].kind = "ref" => Takes(s[d.fields[k].to])
                                /\ d.fields[k].kind = "nested" => Takes(m[d.fields[k].to])

\* Members that take space make a struct that does.
LEMMA FillingFacts ==
  ASSUME NEW d, NEW i, Listed(d, i), NEW s, Before(s, i), NEW m, Inside(d, m), Filling(d, s, m)
  PROVE  Takes(structLayoutOf(fieldLayouts(d, s, m), d.union, d.pack))
<1>a. PICK ls : ls = fieldLayouts(d, s, m)
  OBVIOUS
<1>1. d.union \in BOOLEAN /\ d.pack \in Packs /\ d.fields \in Seq(Field) /\ Len(d.fields) \in Nat /\ DOMAIN d.fields = 1..Len(d.fields)
  BY DEF Listed, Packs
<1>2. /\ ls \in Seq(Shape) /\ Len(ls) = Len(d.fields)
      /\ \A k \in DOMAIN d.fields : /\ ls[k] = ArrayOf(OneLayout(d.fields[k], s, m), d.fields[k].len)
                                    /\ OneLayout(d.fields[k], s, m) \in Shape
  BY <1>a, FieldLayoutFacts
<1>3. Len(ls) # 0
  BY <1>1, <1>2 DEF Filling
<1>4. SUFFICES ASSUME AllOK(ls) PROVE structLayoutOf(ls, d.union, d.pack).size # 0
  BY <1>1, <1>2, <1>a, LayoutFacts DEF Takes
<1>5. ASSUME NEW k \in 1..Len(ls) PROVE ls[k].size # 0
  <2>1. PICK f : f = d.fields[k]
    OBVIOUS
  <2>2. PICK o : o = OneLayout(f, s, m)
    OBVIOUS
  <2>3. k \in DOMAIN d.fields /\ ls[k].ok
    BY <1>1, <1>2, <1>4, <1>5 DEF AllOK
  <2>4. f.len \in Nat \ {0} /\ f.kind \in {"native", "pointer", "ref", "nested"}
    BY <2>1, <2>3, FieldFacts
  <2>5. o \in Shape /\ ls[k] = ArrayOf(o, f.len)
    BY <1>2, <2>1, <2>2, <2>3
  <2>6. o.ok /\ ls[k].size = f.len * o.size /\ o.size \in Nat
    BY <2>3, <2>4, <2>5, ArrayFacts DEF Shape
  <2>7. o.size # 0
    <3>1. CASE f.kind = "native"
      <4>1. o = Layout(f.size, f.align)
        BY <2>2, <3>1 DEF OneLayout
      <4> QED
        BY <2>1, <2>3, <3>1, <4>1 DEF Layout, Filling
    <3>2. CASE f.kind = "pointer"
      <4>1. o = wordLayout
        BY <2>2, <3>2 DEF OneLayout
      <4>2. wordLayout.size = 8
        BY DEF wordLayout, Layout
      <4> QED
        BY <4>1, <4>2
    <3>3. CASE f.kind = "ref"
      <4>1. o = s[f.to]
        BY <2>2, <3>3 DEF OneLayout
      <4> QED
        BY <2>1, <2>3, <2>6, <3>3, <4>1 DEF Filling, Takes
    <3>4. CASE f.kind = "nested"
      <4>1. o = m[f.to]
        BY <2>2, <3>4 DEF OneLayout
      <4> QED
        BY <2>1, <2>3, <2>6, <3>4, <4>1 DEF Filling, Takes
    <3> QED
      BY <2>4, <3>1, <3>2, <3>3, <3>4
  <2>8. \A a \in Nat \ {0}, b \in Nat \ {0} : a * b # 0
    OBVIOUS
  <2> QED
    BY <2>4, <2>6, <2>7, <2>8
<1> QED
  BY <1>1, <1>2, <1>3, <1>4, <1>5, SolidLayout

\* A variant whose nested types are not empty and whose embedded structs take space.
VariantFull(def, s) ==
  /\ \A k \in DOMAIN def.fields : def.fields[k].kind = "native" => def.fields[k].size # 0
  /\ \A n \in DOMAIN def.nested :
       /\ def.nested[n].fields # << >>
       /\ \A k \in DOMAIN def.nested[n].fields : def.nested[n].fields[k].kind = "native" => def.nested[n].fields[k].size # 0
  /\ \A j \in ByValue(def) : Takes(s[j])

\* Nothing in such a variant is without space.
LEMMA VariantFilling ==
  ASSUME NEW def, NEW i, VariantOK(def, i), NEW s, Before(s, i), VariantFull(def, s)
  PROVE  /\ \A n \in DOMAIN def.nested : Takes(nestedLayouts(def, s)[n])
         /\ \A n \in DOMAIN def.nested : Filling(def.nested[n], s, nestedLayouts(def, s))
         /\ def.fields # << >> => Filling(def, s, nestedLayouts(def, s))
<1>a. PICK m : m = nestedLayouts(def, s)
  OBVIOUS
<1>b. Nesting(def)
  BY DEF VariantOK
<1> DEFINE T == {n \in DOMAIN def.nested : Takes(m[n])}
<1>1. ASSUME NEW n \in DOMAIN def.nested, \A k \in Inner(def, n) : k \in T
      PROVE  Filling(def.nested[n], s, m) /\ n \in T
  <2>1. PICK d : d = def.nested[n]
    OBVIOUS
  <2>2. Listed(d, i) /\ Inside(d, m)
    BY <1>a, <2>1, NestedsFacts DEF VariantOK
  <2>3. \A k \in DOMAIN d.fields : d.fields[k].kind = "ref" => d.fields[k].to \in ByValue(def)
    BY <2>1 DEF ByValue, RefsOf
  <2>4. \A k \in DOMAIN d.fields : d.fields[k].kind = "nested" => Takes(m[d.fields[k].to])
    BY <1>1, <1>b, <2>1 DEF Nesting
  <2>5. Filling(d, s, m)
    BY <2>1, <2>3, <2>4 DEF Filling, VariantFull
  <2>6. m[n] = structLayoutOf(fieldLayouts(d, s, m), d.union, d.pack)
    BY <1>a, <2>1, NestedsFacts DEF NestedAt
  <2>7. Takes(m[n])
    BY <2>2, <2>5, <2>6, FillingFacts
  <2> QED
    BY <2>1, <2>5, <2>7
<1>2. \A n \in DOMAIN def.nested : n \in T
  <2> HIDE DEF T
  <2> QED
    BY <1>1, <1>b, FromInside
<1>3. \A n \in DOMAIN def.nested : \A k \in Inner(def, n) : k \in T
  BY <1>2 DEF Inner
<1>4. \A n \in DOMAIN def.nested : Filling(def.nested[n], s, m)
  BY <1>1, <1>3
<1>5. ASSUME def.fields # << >> PROVE Filling(def, s, m)
  <2>1. \A k \in DOMAIN def.fields : def.fields[k].kind = "nested" => Takes(m[def.fields[k].to])
    BY <1>2, <1>b DEF Nesting, Inner
  <2>2. \A k \in DOMAIN def.fields : def.fields[k].kind = "ref" => Takes(s[def.fields[k].to])
    BY DEF ByValue, RefsOf, VariantFull
  <2> QED
    BY <1>5, <2>1, <2>2 DEF Filling, VariantFull
<1> QED
  BY <1>2, <1>4, <1>5, <1>a

\* What is embedded takes space on every architecture.
Embedded(j) == \E i \in Idx : \E v \in DOMAIN registry[i].variants : j \in ByValue(registry[i].variants[v])

\* Every variant is one when what it embeds takes space.
LEMMA FullFacts ==
  ASSUME RegistryOK, Filled(registry), NEW i \in Idx, NEW v \in DOMAIN registry[i].variants,
         NEW s, \A j \in ByValue(registry[i].variants[v]) : Takes(s[j])
  PROVE  VariantFull(registry[i].variants[v], s)
<1>1. PICK def : def = registry[i].variants[v]
  OBVIOUS
<1>2. \A n \in DOMAIN def.nested : def.nested[n].fields # << >>
  BY <1>1 DEF Filled, Idx
<1> QED
  BY <1>1, <1>2, NativeFacts DEF VariantFull

\* What is embedded comes before.
LEMMA ByValueFacts ==
  ASSUME RegistryOK, NEW i \in Idx, NEW v \in DOMAIN registry[i].variants, NEW j \in ByValue(registry[i].variants[v])
  PROVE  j \in 1..(i - 1) /\ j \in Idx /\ j \in Nat /\ j < i /\ Embedded(j)
<1>1. PICK def : def = registry[i].variants[v]
  OBVIOUS
<1>2. VariantOK(def, i)
  BY <1>1, VariantFacts
<1>3. \A d : Listed(d, i) /\ j \in RefsOf(d) => j \in 1..(i - 1)
  BY DEF Listed, RefsOf
<1>4. j \in 1..(i - 1)
  BY <1>1, <1>2, <1>3 DEF VariantOK, ByValue
<1>5. Len(registry) \in Nat /\ Idx = 1..Len(registry)
  BY RegistryFacts
<1> QED
  BY <1>4, <1>5 DEF Embedded

\* So, from the first struct on, every embedded struct takes space.
LEMMA EmbeddedTakes ==
  ASSUME RegistryOK, Filled(registry), NEW arch
  PROVE  \A j \in Idx : Embedded(j) => Takes(layouts(arch)[j])
<1>a. PICK s : s = layouts(arch)
  OBVIOUS
<1>1. Len(registry) \in Nat /\ Idx = 1..Len(registry)
  BY RegistryFacts
<1>2. \A j \in Idx : Before(s, j) /\ s[j] = EngineAt(j, arch, s)
  BY <1>a, LayoutsFacts
<1> DEFINE T == {j \in Nat : j \in Idx /\ Embedded(j) => Takes(s[j])}
<1>3. ASSUME NEW j \in Nat, \A m \in Nat : m < j => m \in T PROVE j \in T
  <2> SUFFICES ASSUME j \in Idx, Embedded(j), s[j].ok PROVE s[j].size # 0
    BY DEF Takes
  <2>1. PICK v : v = pickVariant(j, arch)
    OBVIOUS
  <2>2. PICK def : def = registry[j].variants[v]
    OBVIOUS
  <2>3. v # 0
    <3>1. NoLayout.ok = FALSE
      BY DEF NoLayout
    <3> QED
      BY <1>2, <2>1, <3>1 DEF EngineAt
  <2>4. v \in DOMAIN registry[j].variants
    BY <2>1, <2>3, PickFacts
  <2>5. VariantOK(def, j)
    BY <2>2, <2>4, VariantFacts
  <2>6. def.fields # << >>
    BY <2>2, <2>4 DEF Embedded, Filled, Idx
  <2>7. \A m \in ByValue(def) : Takes(s[m])
    BY <1>3, <2>2, <2>4, ByValueFacts
  <2>8. VariantFull(def, s)
    BY <2>2, <2>4, <2>7, FullFacts
  <2>9. PICK ns2 : ns2 = nestedLayouts(def, s)
    OBVIOUS
  <2>10. Filling(def, s, ns2) /\ Inside(def, ns2) /\ Listed(def, j) /\ Before(s, j)
    BY <1>2, <2>5, <2>6, <2>8, <2>9, VariantFilling, NestedsFacts DEF VariantOK
  <2>11. s[j] = structLayoutOf(fieldLayouts(def, s, ns2), def.union, def.pack)
    BY <1>2, <2>1, <2>2, <2>3, <2>9 DEF EngineAt, LayoutFrom, Fields
  <2> QED
    BY <2>10, <2>11, FillingFacts DEF Takes
<1>4. \A j \in Nat : j \in T
  <2> HIDE DEF T
  <2> QED
    BY <1>3, FromBelow
<1> QED
  BY <1>1, <1>4, <1>a

\* A declaration whose members are all there and take space is emitted, whatever is
\* skipped.
LEMMA FillingEmits ==
  ASSUME NEW d, NEW i, Listed(d, i), NEW s, Before(s, i), NEW m, Inside(d, m),
         LET l == structLayoutOf(fieldLayouts(d, s, m), d.union, d.pack) IN l.ok /\ l.size # 0,
         \A k \in DOMAIN d.fields : d.fields[k].kind = "ref" => Takes(s[d.fields[k].to]),
         NEW en, \A k \in DOMAIN d.fields : d.fields[k].kind = "nested" /\ m[d.fields[k].to].ok => d.fields[k].to \in en, NEW S
  PROVE  DeclOK(d, fieldLayouts(d, s, m), s, en, S)
<1>a. PICK ls : ls = fieldLayouts(d, s, m)
  OBVIOUS
<1>1. Solid(structLayoutOf(ls, d.union, d.pack))
  BY <1>a DEF Solid
<1>2. AllOK(ls)
  <2>1. d.union \in BOOLEAN /\ d.pack \in Packs
    BY DEF Listed, Packs
  <2>2. ls \in Seq(Shape)
    BY <1>a, FieldLayoutFacts
  <2> QED
    BY <1>1, <2>1, <2>2, LayoutFacts DEF Solid
<1>3. \A k \in DOMAIN d.fields : /\ d.fields[k].kind = "ref" => s[d.fields[k].to].ok
                                 /\ d.fields[k].kind = "nested" => m[d.fields[k].to].ok
  BY <1>2, <1>a, OkFacts
<1>4. ASSUME NEW k \in DOMAIN d.fields PROVE ~FieldLost(d.fields[k], s, en, S)
  <2>1. PICK f : f = d.fields[k]
    OBVIOUS
  <2>2. f.kind = "nested" => f.to \in en
    BY <1>3, <2>1
  <2>3. ASSUME f.kind = "ref" PROVE Solid(ArrayOf(s[f.to], f.len))
    <3>1. PICK l : l = s[f.to]
      OBVIOUS
    <3>2. l.ok /\ l.size # 0
      BY <1>3, <2>1, <2>3, <3>1 DEF Takes
    <3>3. l \in Shape /\ f.len \in Nat \ {0}
      <4>1. f.to \in 1..(i - 1)
        BY <2>1, <2>3 DEF Listed
      <4> QED
        BY <2>1, <3>1, <4>1, FieldFacts DEF Before
    <3>4. ArrayOf(l, f.len).ok = l.ok /\ ArrayOf(l, f.len).size = f.len * l.size
      BY <3>3, ArrayFacts
    <3>5. l.size \in Nat \ {0}
      BY <3>2, <3>3 DEF Shape
    <3>6. \A a \in Nat \ {0}, b \in Nat \ {0} : a * b # 0
      OBVIOUS
    <3> QED
      BY <3>1, <3>2, <3>3, <3>4, <3>5, <3>6 DEF Solid
  <2> QED
    BY <2>1, <2>2, <2>3 DEF FieldLost
<1> QED
  BY <1>1, <1>4, <1>a DEF DeclOK

\* Of the nested types those with a layout are emitted, and then the struct is.
LEMMA VariantEmits ==
  ASSUME NEW def, NEW i, VariantOK(def, i), Kinds(def), NEW s, Before(s, i), VariantFull(def, s),
         LayoutFrom(def, s).ok, LayoutFrom(def, s).size # 0, \A n \in DOMAIN def.nested : def.nested[n].free, NEW S
  PROVE  TreeOK(def, s, S)
<1>a. PICK m : m = nestedLayouts(def, s)
  OBVIOUS
<1>b. PICK sub : sub = Subs(def, s, S)
  OBVIOUS
<1>1. Nesting(def) /\ Inside(def, m) /\ Listed(def, i)
  BY <1>a, NestedsFacts DEF VariantOK
<1> DEFINE T == {n \in DOMAIN def.nested : m[n].ok => n \in sub[n]}
<1>2. ASSUME NEW n \in DOMAIN def.nested, \A k \in Inner(def, n) : k \in T PROVE n \in T
  <2> SUFFICES ASSUME m[n].ok PROVE n \in sub[n]
    OBVIOUS
  <2>1. PICK d : d = def.nested[n]
    OBVIOUS
  <2>2. Listed(d, i) /\ Inside(d, m) /\ FieldKinds(d)
    BY <1>a, <2>1, NestedsFacts DEF VariantOK, Kinds
  <2>3. m[n] = structLayoutOf(fieldLayouts(d, s, m), d.union, d.pack)
    BY <1>a, <2>1, NestedsFacts DEF NestedAt
  <2>4. Takes(m[n]) /\ Filling(d, s, m)
    BY <1>a, <2>1, VariantFilling
  <2>5. \A k \in DOMAIN d.fields : d.fields[k].kind = "ref" => Takes(s[d.fields[k].to])
    BY <2>4 DEF Filling
  <2>6. PICK en : en = NestedEmitted(def, n, sub)
    OBVIOUS
  <2>7. \A k \in DOMAIN d.fields : d.fields[k].kind = "nested" /\ m[d.fields[k].to].ok => d.fields[k].to \in en
    <3>1. \A k \in DOMAIN d.fields : d.fields[k].kind = "nested" => d.fields[k].to \in Inner(def, n)
      BY <1>1, <2>1 DEF Nesting
    <3>2. \A x \in Inner(def, n) : m[x].ok => x \in en
      BY <1>2, <2>6 DEF NestedEmitted
    <3> QED
      BY <3>1, <3>2
  <2>8. PICK l : l = structLayoutOf(fieldLayouts(d, s, m), d.union, d.pack)
    OBVIOUS
  <2>9. l.ok /\ l.size # 0
    BY <2>3, <2>4, <2>8 DEF Takes
  <2>10. DeclOK(d, fieldLayouts(d, s, m), s, en, S)
    BY <2>2, <2>5, <2>7, <2>8, <2>9, FillingEmits
  <2>11. DeclareOne(d, def, s, en, S).ok
    <3>1. Fields(d, def, s) = fieldLayouts(d, s, m)
      BY <1>a DEF Fields
    <3> QED
      BY <2>2, <2>10, <3>1, OneIs
  <2>12. OneOf(def, s, S, n, sub).ok
    BY <2>1, <2>6, <2>11 DEF OneOf
  <2>13. sub[n] = SubAt(def, s, S, n, sub)
    BY <1>1, <1>b, SubsFacts
  <2> QED
    BY <2>12, <2>13 DEF SubAt, Sub
<1>3. \A n \in DOMAIN def.nested : n \in T
  <2> HIDE DEF T
  <2> QED
    BY <1>1, <1>2, FromInside
<1>4. \A k \in DOMAIN def.fields : def.fields[k].kind = "ref" => Takes(s[def.fields[k].to])
  BY DEF VariantFull, ByValue, RefsOf
<1>5. PICK en : en = NestedEmitted(def, 0, sub)
  OBVIOUS
<1>6. \A k \in DOMAIN def.fields : def.fields[k].kind = "nested" /\ m[def.fields[k].to].ok => def.fields[k].to \in en
  <2>1. \A x \in Inner(def, 0) : m[x].ok => x \in en
    BY <1>3, <1>5 DEF NestedEmitted, Inner
  <2> QED
    BY <1>1, <2>1 DEF Nesting
<1>7. PICK l : l = structLayoutOf(fieldLayouts(def, s, m), def.union, def.pack)
  OBVIOUS
<1>8. l.ok /\ l.size # 0
  BY <1>a, <1>7 DEF LayoutFrom, Fields
<1>9. DeclOK(def, fieldLayouts(def, s, m), s, en, S)
  BY <1>1, <1>4, <1>6, <1>7, <1>8, FillingEmits
<1> QED
  BY <1>a, <1>b, <1>5, <1>9 DEF TreeOK, Fields

\* SkippedExactly holds for all metadata that embed nothing empty, in chains no
\* longer than the rounds.
THEOREM SkippedExactlyCorrect ==
  ASSUME \A r \in Registries : Shallow(r) /\ Filled(r)
  PROVE  Spec => []SkippedExactly
<1>1. Inv => registry \in Registries
  BY DEF Inv, RegistryOK
<1>2. Inv /\ DoneDry => SkippedExactly
  <2> SUFFICES ASSUME Inv, DoneDry, phase = "done" PROVE DryRunPredicts /\ SkipsStayLocal
    BY DEF SkippedExactly
  <2>1. DryRunPredicts
    BY DEF DoneDry
  <2>2. ASSUME NEW i \in Idx, NEW arch \in IF i \in archStructs THEN emitArches ELSE {"amd64"},
               pickVariant(i, arch) # 0, CLayouts(arch)[i].ok, CLayouts(arch)[i].size > 0,
               \A n \in DOMAIN registry[i].variants[pickVariant(i, arch)].nested :
                 registry[i].variants[pickVariant(i, arch)].nested[n].free
        PROVE  i \in There(arch)
    <3>a. PICK v : v = pickVariant(i, arch)
      OBVIOUS
    <3>b. PICK def : def = registry[i].variants[v]
      OBVIOUS
    <3>c. PICK s : s = layouts(arch)
      OBVIOUS
    <3>1. arch \in emitArches /\ Engine(i, arch) = arch
      BY <2>2 DEF emitArches, Engine
    <3>2. s[i].ok /\ s[i].size # 0
      <4>1. CLayouts(arch) = s
        BY <3>c, CIsEngine DEF Inv
      <4>2. s[i] \in Shape
        BY <3>c, LayoutsFacts DEF Inv
      <4>3. s[i].size \in Nat
        BY <4>2 DEF Shape
      <4> QED
        BY <2>2, <4>1, <4>3
    <3>3. v \in DOMAIN registry[i].variants /\ v # 0
      BY <2>2, <3>a, PickFacts DEF Inv
    <3>4. VariantOK(def, i) /\ Kinds(def)
      BY <3>3, <3>b, VariantFacts, VariantKinds DEF Inv
    <3>5. Before(s, i) /\ s[i] = LayoutFrom(def, s)
      BY <3>3, <3>a, <3>b, <3>c, LayoutsFacts DEF Inv, EngineAt
    <3>6. Filled(registry)
      BY <1>1
    <3>7. \A j \in ByValue(def) : Takes(s[j])
      BY <3>3, <3>6, <3>b, <3>c, ByValueFacts, EmbeddedTakes DEF Inv
    <3>8. VariantFull(def, s)
      BY <3>3, <3>6, <3>7, <3>b, FullFacts DEF Inv
    <3>9. TreeOK(def, s, skipped)
      BY <2>2, <3>2, <3>4, <3>5, <3>8, <3>a, <3>b, VariantEmits
    <3>10. OkIn(i, arch, skipped)
      BY <3>1, <3>3, <3>9, <3>a, <3>b, <3>c DEF OkIn
    <3>11. Declared(i, arch).ok
      BY <3>10, DeclaredOK DEF Inv
    <3> QED
      BY <3>1, <3>11, DoneFacts
  <2> QED
    BY <2>1, <2>2 DEF SkipsStayLocal
<1>3. Spec => []DoneDry
  BY DryRunCorrect
<1> QED
  BY <1>2, <1>3, InvariantCorrect, PTL

-----------------------------------------------------------------------------
(* Counting scalars *)

Scalars == Nat \X Classes
Of(S, class) == {leaf \in S : leaf[2] = class}

\* x scalars at offsets from low to below high.
Fills(T, low, high, x) ==
  /\ T \in SUBSET Scalars /\ \A leaf \in T : low <= leaf[1] /\ leaf[1] < high
  /\ IsFiniteSet(T) /\ Cardinality(T) = x

\* A set of scalars, moved, is as large.
LEMMA AtFacts ==
  ASSUME NEW T \in SUBSET Scalars, NEW o \in Nat
  PROVE  /\ At(o, T) \in SUBSET Scalars /\ (T = {} => At(o, T) = {})
         /\ \A high, x \in Nat : Fills(T, 0, high, x) => Fills(At(o, T), o, o + high, x)
<1>1. \A leaf \in T : leaf[1] \in Nat /\ leaf[2] \in Classes /\ leaf = <<leaf[1], leaf[2]>>
  BY DEF Scalars
<1>2. At(o, T) \in SUBSET Scalars
  BY <1>1 DEF At, Scalars
<1>3. T = {} => At(o, T) = {}
  BY DEF At
<1>4. ASSUME NEW high \in Nat, NEW x \in Nat, Fills(T, 0, high, x)
      PROVE  Fills(At(o, T), o, o + high, x)
  <2> DEFINE F == [leaf \in T |-> <<o + leaf[1], leaf[2]>>]
  <2>1. F \in [T -> At(o, T)]
    BY DEF At
  <2>2. \A a, b \in T : F[a] = F[b] => a = b
    <3> TAKE a, b \in T
    <3>1. F[a] = F[b] => o + a[1] = o + b[1] /\ a[2] = b[2]
      OBVIOUS
    <3>2. F[a] = F[b] => a[1] = b[1] /\ a[2] = b[2]
      BY <1>1, <3>1
    <3> QED
      BY <1>1, <3>2
  <2>3. \A t \in At(o, T) : \E s \in T : F[s] = t
    BY DEF At
  <2> HIDE DEF F
  <2>4. F \in Bijection(T, At(o, T))
    BY <2>1, <2>2, <2>3 DEF Bijection, Injection, Surjection, IsInjective
  <2>5. IsFiniteSet(At(o, T)) /\ Cardinality(At(o, T)) = Cardinality(T)
    BY <1>4, <2>4, FS_Bijection DEF Fills, ExistsBijection
  <2>6. \A leaf \in At(o, T) : o <= leaf[1] /\ leaf[1] < o + high
    <3> TAKE leaf \in At(o, T)
    <3>1. PICK b \in T : leaf = <<o + b[1], b[2]>>
      BY DEF At
    <3>2. b[1] \in Nat /\ b[1] < high
      BY <1>1, <1>4 DEF Fills
    <3>3. leaf[1] = o + b[1]
      BY <3>1
    <3> QED
      BY <3>2, <3>3
  <2> QED
    BY <1>2, <1>4, <2>5, <2>6 DEF Fills
<1> QED
  BY <1>2, <1>3, <1>4

\* The scalars of one class, moved or in a row.
LEMMA OfFacts ==
  ASSUME NEW class
  PROVE  /\ \A o, S : Of(At(o, S), class) = At(o, Of(S, class))
         /\ \A size, n, S : Of(Row(size, n, S), class) = Row(size, n, Of(S, class))
         /\ \A SS : Of(UNION SS, class) = UNION {Of(S, class) : S \in SS}
<1>1. \A o, S : Of(At(o, S), class) = At(o, Of(S, class))
  BY DEF Of, At
<1>2. \A SS : Of(UNION SS, class) = UNION {Of(S, class) : S \in SS}
  BY DEF Of
<1>3. ASSUME NEW size, NEW n, NEW S PROVE Of(Row(size, n, S), class) = Row(size, n, Of(S, class))
  <2>1. Of(Row(size, n, S), class) = UNION {Of(At(e * size, S), class) : e \in 0..(n - 1)}
    BY DEF Of, Row
  <2>2. {Of(At(e * size, S), class) : e \in 0..(n - 1)} = {At(e * size, Of(S, class)) : e \in 0..(n - 1)}
    BY <1>1
  <2> QED
    BY <2>1, <2>2 DEF Row
<1> QED
  BY <1>1, <1>2, <1>3

\* Scalars behind others add up.
LEMMA FillsUnion ==
  ASSUME NEW S, NEW V, NEW a \in Nat, NEW b \in Nat, NEW p \in Nat, NEW q \in Nat, a <= b, Fills(S, 0, a, p), Fills(V, a, b, q)
  PROVE  Fills(S \cup V, 0, b, p + q)
<1>1. \A leaf \in S \cup V : leaf[1] \in Nat
  BY DEF Fills, Scalars
<1>2. \A leaf \in S : leaf[1] < a
  BY DEF Fills
<1>3. \A leaf \in V : a <= leaf[1] /\ leaf[1] < b
  BY DEF Fills
<1>4. \A leaf : ~(leaf \in S /\ leaf \in V)
  <2> SUFFICES ASSUME NEW leaf \in S, leaf \in V PROVE FALSE
    OBVIOUS
  <2>1. PICK y : y = leaf[1]
    OBVIOUS
  <2>2. y \in Nat /\ y < a /\ a <= y
    BY <1>1, <1>2, <1>3, <2>1
  <2> QED
    BY <2>2
<1>5. \A leaf \in S \cup V : 0 <= leaf[1] /\ leaf[1] < b
  <2> TAKE leaf \in S \cup V
  <2>1. PICK y : y = leaf[1]
    OBVIOUS
  <2>2. y \in Nat /\ (y < a \/ y < b)
    BY <1>1, <1>2, <1>3, <2>1
  <2>3. 0 <= y /\ y < b
    BY <2>2
  <2> QED
    BY <2>1, <2>3
<1>6. IsFiniteSet(S) /\ IsFiniteSet(V) /\ Cardinality(S) = p /\ Cardinality(V) = q
  BY DEF Fills
<1>7. S \cap V = {}
  BY <1>4
<1>8. IsFiniteSet(S \cup V) /\ Cardinality(S \cup V) = Cardinality(S) + Cardinality(V) - Cardinality(S \cap V)
  BY <1>6, FS_Union
<1>9. Cardinality({}) = 0
  BY FS_EmptySet
<1>10. Cardinality(S \cup V) = p + q
  BY <1>6, <1>7, <1>8, <1>9
<1>11. S \cup V \in SUBSET Scalars
  BY DEF Fills
<1> QED
  BY <1>5, <1>8, <1>10, <1>11 DEF Fills

\* The first m of these sets.
Joined(T, m) == UNION {T[k] : k \in 1..m}

\* Pieces one behind the other add up.
LEMMA Pieces ==
  ASSUME NEW n \in Nat, NEW T, NEW E \in [0..n -> Nat], E[0] = 0, NEW x \in [1..n -> Nat], NEW sum \in [0..n -> Nat],
         sum[0] = 0, \A k \in 1..n : sum[k] = sum[k - 1] + x[k] /\ E[k - 1] <= E[k] /\ Fills(T[k], E[k - 1], E[k], x[k])
  PROVE  Fills(Joined(T, n), 0, E[n], sum[n])
<1> DEFINE A == {m \in Nat : m \in 0..n => Fills(Joined(T, m), 0, E[m], sum[m])}
<1>1. 0 \in A
  <2>1. Joined(T, 0) = {}
    BY DEF Joined
  <2>2. Fills({}, 0, 0, 0)
    BY FS_EmptySet DEF Fills
  <2> QED
    BY <2>1, <2>2
<1>2. ASSUME NEW m \in A PROVE m + 1 \in A
  <2>1. SUFFICES ASSUME m + 1 \in 0..n PROVE Fills(Joined(T, m + 1), 0, E[m + 1], sum[m + 1])
    OBVIOUS
  <2>2. m \in Nat /\ m \in 0..n /\ m + 1 \in 1..n /\ (m + 1) - 1 = m
    BY <2>1
  <2>3. Fills(Joined(T, m), 0, E[m], sum[m])
    BY <2>2
  <2>4. Fills(T[m + 1], E[m], E[m + 1], x[m + 1]) /\ E[m] <= E[m + 1] /\ sum[m + 1] = sum[m] + x[m + 1]
    BY <2>2
  <2>5. Joined(T, m + 1) = Joined(T, m) \cup T[m + 1]
    <3> HIDE DEF A
    <3>a. m \in Nat
      BY <2>2
    <3>1. (\A k \in 1..(m + 1) : k \in 1..m \/ k = m + 1) /\ (\A k \in 1..m : k \in 1..(m + 1)) /\ m + 1 \in 1..(m + 1)
      BY <3>a
    <3>2. \A leaf : leaf \in Joined(T, m + 1) <=> \E k \in 1..(m + 1) : leaf \in T[k]
      BY DEF Joined
    <3>3. \A leaf : leaf \in Joined(T, m) <=> \E k \in 1..m : leaf \in T[k]
      BY DEF Joined
    <3>4. \A leaf : leaf \in Joined(T, m + 1) <=> leaf \in Joined(T, m) \/ leaf \in T[m + 1]
      BY <3>1, <3>2, <3>3
    <3> QED
      BY <3>4
  <2>6. E[m] \in Nat /\ E[m + 1] \in Nat /\ sum[m] \in Nat /\ x[m + 1] \in Nat
    BY <2>2
  <2> HIDE DEF A
  <2>7. Fills(Joined(T, m) \cup T[m + 1], 0, E[m + 1], sum[m] + x[m + 1])
    BY <2>3, <2>4, <2>6, FillsUnion
  <2> QED
    BY <2>4, <2>5, <2>7
<1>3. A = Nat
  <2>1. A \in SUBSET Nat
    OBVIOUS
  <2> HIDE DEF A
  <2> QED
    BY <1>1, <1>2, <2>1, AllNaturals
<1>4. \A m \in Nat : m \in 0..n => Fills(Joined(T, m), 0, E[m], sum[m])
  BY <1>3
<1>5. n \in 0..n
  OBVIOUS
<1> QED
  BY <1>4, <1>5

\* Elements in a row.
LEMMA RowFacts ==
  ASSUME NEW T \in SUBSET Scalars, NEW size \in Nat, NEW n \in Nat \ {0}
  PROVE  /\ Row(size, n, T) \in SUBSET Scalars /\ (T = {} => Row(size, n, T) = {})
         /\ \A x \in Nat : Fills(T, 0, size, x) => Fills(Row(size, n, T), 0, n * size, n * x)
<1>1. \A k \in Nat : \A y \in Nat : k * y \in Nat
  OBVIOUS
<1>2. \A e \in 0..(n - 1) : At(e * size, T) \in SUBSET Scalars /\ (T = {} => At(e * size, T) = {})
  <2> TAKE e \in 0..(n - 1)
  <2>1. PICK o : o = e * size
    OBVIOUS
  <2>2. e \in Nat
    OBVIOUS
  <2>3. o \in Nat
    BY <1>1, <2>1, <2>2
  <2> QED
    BY <2>1, <2>3, AtFacts
<1>3. ASSUME NEW x \in Nat, Fills(T, 0, size, x) PROVE Fills(Row(size, n, T), 0, n * size, n * x)
  <2> DEFINE P == [k \in 1..n |-> At((k - 1) * size, T)]
             E == [k \in 0..n |-> k * size]
             S == [k \in 0..n |-> k * x]
             X == [k \in 1..n |-> x]
  <2>1. E \in [0..n -> Nat] /\ S \in [0..n -> Nat] /\ X \in [1..n -> Nat] /\ E[0] = 0 /\ S[0] = 0 /\ E[n] = n * size /\ S[n] = n * x
    BY <1>1
  <2>2. ASSUME NEW k \in 1..n
        PROVE  S[k] = S[k - 1] + X[k] /\ E[k - 1] <= E[k] /\ Fills(P[k], E[k - 1], E[k], X[k])
    <3>1. k - 1 \in 0..n /\ k \in 0..n /\ k - 1 \in Nat /\ k \in Nat
      OBVIOUS
    <3>2. k * x = (k - 1) * x + x /\ k * size = (k - 1) * size + size
      BY <3>1
    <3>3. Fills(At((k - 1) * size, T), (k - 1) * size, (k - 1) * size + size, x)
      BY <1>1, <1>3, <3>1, AtFacts
    <3>4. (k - 1) * size \in Nat
      BY <1>1, <3>1
    <3> QED
      BY <3>1, <3>2, <3>3, <3>4
  <2>3. Row(size, n, T) = Joined(P, n)
    <3>1. \A e \in 0..(n - 1) : e + 1 \in 1..n /\ P[e + 1] = At(e * size, T)
      OBVIOUS
    <3>2. \A k \in 1..n : k - 1 \in 0..(n - 1) /\ P[k] = At((k - 1) * size, T)
      OBVIOUS
    <3> HIDE DEF P
    <3>3. {At(e * size, T) : e \in 0..(n - 1)} = {P[k] : k \in 1..n}
      BY <3>1, <3>2
    <3> QED
      BY <3>3 DEF Row, Joined
  <2> HIDE DEF P, E, S, X
  <2>4. Fills(Joined(P, n), 0, E[n], S[n])
    BY <2>1, <2>2, Pieces
  <2> QED
    BY <2>1, <2>3, <2>4
<1>4. Row(size, n, T) \in SUBSET Scalars /\ (T = {} => Row(size, n, T) = {})
  BY <1>2 DEF Row
<1> QED
  BY <1>3, <1>4

-----------------------------------------------------------------------------
(* Counting as the engine does *)

Counts == [f32 : Nat, f64 : Nat, other : Nat]
OneCount(f, structs, nested) ==
  CASE f.kind = "native" -> Scalar(f.class) [] f.kind = "pointer" -> Scalar("other")
    [] f.kind = "ref" -> structs[f.to]      [] f.kind = "nested" -> nested[f.to]

\* Censuses are records of three numbers; that of a scalar is one in its class.
LEMMA CensusFacts ==
  /\ \A a, b, c \in Nat : /\ Census(a, b, c) \in Counts
                          /\ Census(a, b, c)["f32"] = a /\ Census(a, b, c)["f64"] = b /\ Census(a, b, c)["other"] = c
  /\ \A n \in Counts : \A c \in Classes : n[c] \in Nat
  /\ \A n \in Counts : n.f32 = n["f32"] /\ n.f64 = n["f64"] /\ n.other = n["other"]
  /\ \A class \in Classes : Scalar(class) \in Counts /\ \A c \in Classes : Scalar(class)[c] = IF c = class THEN 1 ELSE 0
<1>1. /\ \A a, b, c \in Nat : /\ Census(a, b, c) \in Counts
                              /\ Census(a, b, c)["f32"] = a /\ Census(a, b, c)["f64"] = b /\ Census(a, b, c)["other"] = c
      /\ \A n \in Counts : \A c \in Classes : n[c] \in Nat
      /\ \A n \in Counts : n.f32 = n["f32"] /\ n.f64 = n["f64"] /\ n.other = n["other"]
  BY DEF Census, Counts, Classes
<1>2. ASSUME NEW class \in Classes
      PROVE  Scalar(class) \in Counts /\ \A c \in Classes : Scalar(class)[c] = IF c = class THEN 1 ELSE 0
  <2>1. Scalar(class) = [f32 |-> IF class = "f32" THEN 1 ELSE 0, f64 |-> IF class = "f64" THEN 1 ELSE 0,
                         other |-> IF class = "other" THEN 1 ELSE 0]
    BY DEF Scalar, Census, Classes
  <2> QED
    BY <2>1 DEF Counts, Classes
<1> QED
  BY <1>1, <1>2

\* A field counts its type, times its length.
LEMMA FieldCounts ==
  ASSUME NEW f, f.kind \in {"native", "pointer", "ref", "nested"}, f.class \in Classes, f.len \in Nat \ {0}, NEW s, NEW m,
         f.kind = "ref" => s[f.to] \in Counts, f.kind = "nested" => m[f.to] \in Counts
  PROVE  /\ OneCount(f, s, m) \in Counts /\ fieldCensus(f, s, m) \in Counts
         /\ \A c \in Classes : fieldCensus(f, s, m)[c] = f.len * OneCount(f, s, m)[c]
<1>1. PICK one : one = OneCount(f, s, m)
  OBVIOUS
<1>2. one \in Counts
  BY <1>1, CensusFacts DEF OneCount, Classes
<1>3. fieldCensus(f, s, m) = Census(f.len * one.f32, f.len * one.f64, f.len * one.other)
  BY <1>1 DEF fieldCensus, OneCount
<1>4. PICK n : n = f.len
  OBVIOUS
<1>5. n \in Nat /\ one.f32 \in Nat /\ one.f64 \in Nat /\ one.other \in Nat
  BY <1>2, <1>4 DEF Counts
<1>6. n * one.f32 \in Nat /\ n * one.f64 \in Nat /\ n * one.other \in Nat
  BY <1>5
<1>7. one.f32 = one["f32"] /\ one.f64 = one["f64"] /\ one.other = one["other"]
  BY <1>2, CensusFacts
<1>8. PICK x, y, z : x = n * one.f32 /\ y = n * one.f64 /\ z = n * one.other
  OBVIOUS
<1>9. x \in Nat /\ y \in Nat /\ z \in Nat /\ fieldCensus(f, s, m) = Census(x, y, z)
  BY <1>3, <1>4, <1>6, <1>8
<1>10. /\ fieldCensus(f, s, m) \in Counts
       /\ fieldCensus(f, s, m)["f32"] = x /\ fieldCensus(f, s, m)["f64"] = y /\ fieldCensus(f, s, m)["other"] = z
  BY <1>9, CensusFacts
<1>11. x = n * one["f32"] /\ y = n * one["f64"] /\ z = n * one["other"]
  BY <1>7, <1>8
<1> QED
  BY <1>1, <1>2, <1>4, <1>10, <1>11 DEF Classes

\* The sum over a list of censuses, up to each.
SumAt(cs, k, a) ==
  IF k = 0 THEN Census(0, 0, 0)
  ELSE LET b == cs[k] IN Census(a.f32 + b.f32, a.f64 + b.f64, a.other + b.other)
Sums(cs) == CHOOSE sum : sum = [k \in 0..Len(cs) |-> SumAt(cs, k, sum[k - 1])]

\* structCensus, by its parts.
LEMMA SumIs ==
  ASSUME NEW cs
  PROVE  structCensus(cs) = Sums(cs)[Len(cs)]
BY DEF structCensus, Sums, SumAt

\* A sum stays a census, and grows by the one it takes in.
LEMMA SumStep ==
  ASSUME NEW cs \in Seq(Counts), NEW k \in 1..Len(cs), NEW a \in Counts
  PROVE  SumAt(cs, k, a) \in Counts /\ \A c \in Classes : SumAt(cs, k, a)[c] = a[c] + cs[k][c]
<1>1. PICK b : b = cs[k]
  OBVIOUS
<1>2. b \in Counts /\ k # 0
  BY <1>1
<1>3. a.f32 \in Nat /\ a.f64 \in Nat /\ a.other \in Nat /\ b.f32 \in Nat /\ b.f64 \in Nat /\ b.other \in Nat
  BY <1>2 DEF Counts
<1>4. SumAt(cs, k, a) = Census(a.f32 + b.f32, a.f64 + b.f64, a.other + b.other)
  BY <1>1, <1>2 DEF SumAt
<1>5. PICK x, y, z : x = a.f32 + b.f32 /\ y = a.f64 + b.f64 /\ z = a.other + b.other
  OBVIOUS
<1>c. \A p, q \in Nat : p + q \in Nat
  OBVIOUS
<1>d. x \in Nat /\ y \in Nat /\ z \in Nat
  BY <1>3, <1>5, <1>c
<1>6. /\ a.f32 = a["f32"] /\ a.f64 = a["f64"] /\ a.other = a["other"]
      /\ b.f32 = b["f32"] /\ b.f64 = b["f64"] /\ b.other = b["other"]
  BY <1>2, CensusFacts
<1>7. SumAt(cs, k, a) \in Counts /\ SumAt(cs, k, a)["f32"] = x /\ SumAt(cs, k, a)["f64"] = y /\ SumAt(cs, k, a)["other"] = z
  BY <1>4, <1>5, <1>d, CensusFacts
<1>8. x = a["f32"] + b["f32"] /\ y = a["f64"] + b["f64"] /\ z = a["other"] + b["other"]
  BY <1>5, <1>6
<1> QED
  BY <1>1, <1>7, <1>8 DEF Classes

\* structCensus adds up each class.
LEMMA SumFacts ==
  ASSUME NEW cs \in Seq(Counts)
  PROVE  /\ Sums(cs) \in [0..Len(cs) -> Counts]
         /\ \A c \in Classes : Sums(cs)[0][c] = 0 /\ \A k \in 1..Len(cs) : Sums(cs)[k][c] = Sums(cs)[k - 1][c] + cs[k][c]
         /\ structCensus(cs) \in Counts
<1> DEFINE n == Len(cs)
           I == 0..n
           H == [f \in [I -> Counts] |-> [k \in I |-> SumAt(cs, k, f[k - 1])]]
<1>1. n \in Nat
  OBVIOUS
<1>a. Census(0, 0, 0) \in Counts /\ \A c \in Classes : Census(0, 0, 0)[c] = 0
  BY CensusFacts DEF Classes
<1>2. ASSUME NEW k \in I, NEW b, k # 0 => b \in Counts PROVE SumAt(cs, k, b) \in Counts
  <2>1. CASE k = 0
    BY <1>a, <2>1 DEF SumAt
  <2>2. CASE k # 0
    <3>1. k \in 1..Len(cs) /\ b \in Counts
      BY <1>2, <2>2
    <3> QED
      BY <3>1, SumStep
  <2> QED
    BY <2>1, <2>2
<1>3. H \in [[I -> Counts] -> [I -> Counts]]
  <2>1. ASSUME NEW f \in [I -> Counts], NEW k \in I PROVE SumAt(cs, k, f[k - 1]) \in Counts
    <3>1. k # 0 => f[k - 1] \in Counts
      BY <1>1
    <3> QED
      BY <1>2, <3>1
  <2> QED
    BY <2>1
<1>4. \A f, g \in [I -> Counts] : \A x \in I : (\A y \in I : y < x => f[y] = g[y]) => H[f][x] = H[g][x]
  <2> TAKE f, g \in [I -> Counts]
  <2> TAKE x \in I
  <2> HAVE \A y \in I : y < x => f[y] = g[y]
  <2>1. CASE x = 0
    BY <2>1 DEF SumAt
  <2>2. CASE x # 0
    <3>1. x - 1 \in I /\ x - 1 < x
      BY <1>1, <2>2
    <3>2. f[x - 1] = g[x - 1]
      BY <3>1
    <3> QED
      BY <3>2
  <2> QED
    BY <2>1, <2>2
<1>5. HasFixpoint(H, I, Counts)
  <2>1. I \in SUBSET (0..n)
    OBVIOUS
  <2>2. Approximates(H, I, Counts)
    <3> HIDE DEF I, H
    <3> QED
      BY <1>3, <1>4 DEF Approximates
  <2> HIDE DEF I, H, n
  <2> QED
    BY <1>1, <1>a, <2>1, <2>2, Recursion
<1>6. PICK f : f \in [I -> Counts] /\ f = [k \in I |-> SumAt(cs, k, f[k - 1])]
  BY <1>5 DEF HasFixpoint
<1> DEFINE E == Sums(cs)
<1>7. E = [k \in I |-> SumAt(cs, k, E[k - 1])]
  BY <1>6 DEF Sums
<1>8. \A k \in I : E[k] = SumAt(cs, k, E[k - 1])
  <2> HIDE DEF E
  <2> QED
    BY <1>7
<1>9. \A k \in I : E[k] \in Counts
  <2> DEFINE T == {k \in Nat : k \in I => E[k] \in Counts}
  <2>1. 0 \in T
    BY <1>2, <1>8
  <2>2. ASSUME NEW k \in T PROVE k + 1 \in T
    <3> SUFFICES ASSUME k + 1 \in I PROVE E[k + 1] \in Counts
      OBVIOUS
    <3>1. k \in I /\ (k + 1) - 1 = k
      BY <1>1
    <3>2. E[k] \in Counts
      BY <3>1
    <3> HIDE DEF E
    <3>3. E[k + 1] = SumAt(cs, k + 1, E[k])
      BY <1>8, <3>1
    <3> QED
      BY <1>2, <3>2, <3>3
  <2>3. T \in SUBSET Nat
    OBVIOUS
  <2> HIDE DEF T, E
  <2>4. T = Nat
    BY <2>1, <2>2, <2>3, AllNaturals
  <2> QED
    BY <1>1, <2>4 DEF T
<1> HIDE DEF E
<1>10. E \in [I -> Counts]
  BY <1>7, <1>9
<1>11. \A c \in Classes : E[0][c] = 0
  <2>1. E[0] = Census(0, 0, 0)
    BY <1>1, <1>8 DEF SumAt
  <2> QED
    BY <1>a, <2>1
<1>12. ASSUME NEW k \in 1..n PROVE \A c \in Classes : E[k][c] = E[k - 1][c] + cs[k][c]
  <2>1. k \in I /\ k - 1 \in I
    BY <1>1
  <2>2. E[k] = SumAt(cs, k, E[k - 1]) /\ E[k - 1] \in Counts
    BY <1>8, <1>9, <2>1
  <2> QED
    BY <2>2, SumStep
<1>13. structCensus(cs) \in Counts
  <2>1. n \in I
    BY <1>1
  <2> QED
    BY <1>9, <2>1, SumIs DEF E
<1> QED
  BY <1>10, <1>11, <1>12, <1>13 DEF E

\* What the engine counts of a class: nothing where there is something it does
\* not count, and without unions each scalar once.
Counted(S, size, x, class) ==
  /\ S \in SUBSET Scalars /\ x \in Nat /\ (Of(S, class) # {} => x > 0)
  /\ ~SomeUnion => Fills(Of(S, class), 0, size, x)

\* An array counts its elements.
LEMMA RowCounted ==
  ASSUME NEW S, NEW size \in Nat, NEW x, NEW class, Counted(S, size, x, class), NEW n \in Nat \ {0}
  PROVE  Counted(Row(size, n, S), n * size, n * x, class)
<1>1. S \in SUBSET Scalars /\ x \in Nat /\ Of(S, class) \in SUBSET Scalars
  BY DEF Counted, Of
<1>2. Row(size, n, S) \in SUBSET Scalars
  BY <1>1, RowFacts
<1>3. Of(Row(size, n, S), class) = Row(size, n, Of(S, class))
  BY OfFacts
<1>4. PICK y : y = n * x
  OBVIOUS
<1>5. y \in Nat /\ (x > 0 => y > 0)
  BY <1>1, <1>4
<1>6. Of(Row(size, n, S), class) # {} => y > 0
  BY <1>1, <1>3, <1>5, RowFacts DEF Counted
<1>7. ~SomeUnion => Fills(Of(Row(size, n, S), class), 0, n * size, n * x)
  <2> SUFFICES ASSUME ~SomeUnion PROVE Fills(Of(Row(size, n, S), class), 0, n * size, n * x)
    OBVIOUS
  <2>1. PICK T : T = Of(S, class)
    OBVIOUS
  <2>2. T \in SUBSET Scalars /\ Fills(T, 0, size, x)
    BY <1>1, <2>1 DEF Counted
  <2>3. Fills(Row(size, n, T), 0, n * size, n * x)
    BY <1>1, <2>2, RowFacts
  <2> QED
    BY <1>3, <2>1, <2>3
<1> QED
  BY <1>2, <1>4, <1>5, <1>6, <1>7 DEF Counted

\* A scalar counts as one.
LEMMA ScalarCounted ==
  ASSUME NEW cl \in Classes, NEW class \in Classes, NEW size \in Nat, size # 0
  PROVE  Counted({<<0, cl>>}, size, Scalar(cl)[class], class)
<1>1. PICK S : S = {<<0, cl>>}
  OBVIOUS
<1>2. S \in SUBSET Scalars /\ Scalar(cl)[class] = (IF class = cl THEN 1 ELSE 0)
  BY <1>1, CensusFacts DEF Scalars
<1>3. Of(S, class) = IF class = cl THEN S ELSE {}
  BY <1>1 DEF Of
<1>4. \A leaf \in S : leaf[1] = 0
  BY <1>1
<1>5. IsFiniteSet(S) /\ Cardinality(S) = 1 /\ IsFiniteSet({}) /\ Cardinality({}) = 0
  BY <1>1, FS_Singleton, FS_EmptySet
<1>6. Fills(S, 0, size, 1)
  <2>1. \A leaf \in S : 0 <= leaf[1] /\ leaf[1] < size
    BY <1>4
  <2> QED
    BY <1>2, <1>5, <2>1 DEF Fills
<1>7. Fills({}, 0, size, 0)
  BY <1>5 DEF Fills
<1> QED
  BY <1>1, <1>2, <1>3, <1>6, <1>7 DEF Counted

\* The scalars of one element of a field.
OneLeaves(f, leaves, within) ==
  CASE f.kind = "native"  -> {<<0, f.class>>}
    [] f.kind = "pointer" -> {<<0, "other">>}
    [] f.kind = "ref"     -> leaves[f.to]
    [] f.kind = "nested"  -> within[f.to]

\* A field counts, when what it is of does.
LEMMA FieldCounted ==
  ASSUME NEW d, NEW i, Listed(d, i), NEW s, Before(s, i), NEW m, Inside(d, m), NEW k \in DOMAIN d.fields,
         d.fields[k].kind = "native" => d.fields[k].size # 0, NEW leaves, NEW within, NEW cs, NEW cw, NEW class \in Classes,
         d.fields[k].kind = "ref" =>
           cs[d.fields[k].to] \in Counts /\ Counted(leaves[d.fields[k].to], s[d.fields[k].to].size, cs[d.fields[k].to][class], class),
         d.fields[k].kind = "nested" =>
           cw[d.fields[k].to] \in Counts /\ Counted(within[d.fields[k].to], m[d.fields[k].to].size, cw[d.fields[k].to][class], class)
  PROVE  /\ fieldCensus(d.fields[k], cs, cw) \in Counts
         /\ Counted(FieldLeaves(d.fields[k], s, m, leaves, within), fieldLayout(d.fields[k], s, m).size,
                    fieldCensus(d.fields[k], cs, cw)[class], class)
<1>a. PICK f : f = d.fields[k]
  OBVIOUS
<1>b. PICK one : one = OneLayout(f, s, m)
  OBVIOUS
<1>c. PICK S : S = OneLeaves(f, leaves, within)
  OBVIOUS
<1>d. PICK n : n = OneCount(f, cs, cw)
  OBVIOUS
<1>1. f.kind \in {"native", "pointer", "ref", "nested"} /\ f.len \in Nat \ {0} /\ f.size \in Nat
  BY <1>a, FieldFacts
<1>2. f.class \in Classes
  <2>1. f \in Field
    BY <1>a DEF Listed
  <2> QED
    BY <2>1 DEF Field, Classes
<1>3. one \in Shape /\ fieldLayout(f, s, m).size = f.len * one.size /\ one.size \in Nat
  <2>1. one \in Shape /\ fieldLayout(f, s, m) = ArrayOf(one, f.len)
    BY <1>a, <1>b, FieldLayoutFacts
  <2> QED
    BY <1>1, <2>1, ArrayFacts DEF Shape
<1>4. n \in Counts /\ fieldCensus(f, cs, cw) \in Counts /\ fieldCensus(f, cs, cw)[class] = f.len * n[class]
  BY <1>1, <1>2, <1>a, <1>d, FieldCounts
<1>5. Counted(S, one.size, n[class], class)
  <2>1. CASE f.kind = "native"
    <3>1. one.size = f.size /\ S = {<<0, f.class>>} /\ n = Scalar(f.class) /\ f.size # 0
      BY <1>a, <1>b, <1>c, <1>d, <2>1 DEF OneLayout, OneLeaves, OneCount, Layout
    <3> QED
      BY <1>1, <1>2, <3>1, ScalarCounted
  <2>2. CASE f.kind = "pointer"
    <3>1. one.size = 8 /\ S = {<<0, "other">>} /\ n = Scalar("other")
      BY <1>b, <1>c, <1>d, <2>2 DEF OneLayout, OneLeaves, OneCount, Layout, wordLayout
    <3>2. "other" \in Classes /\ 8 \in Nat /\ 8 # 0
      BY DEF Classes
    <3> QED
      BY <3>1, <3>2, ScalarCounted
  <2>3. CASE f.kind = "ref"
    BY <1>a, <1>b, <1>c, <1>d, <2>3 DEF OneLayout, OneLeaves, OneCount
  <2>4. CASE f.kind = "nested"
    BY <1>a, <1>b, <1>c, <1>d, <2>4 DEF OneLayout, OneLeaves, OneCount
  <2> QED
    BY <1>1, <2>1, <2>2, <2>3, <2>4
<1>6. FieldLeaves(f, s, m, leaves, within) = Row(one.size, f.len, S)
  <2>1. CASE f.kind = "native"
    BY <1>b, <1>c, <2>1 DEF FieldLeaves, OneLayout, OneLeaves, Layout
  <2>2. CASE f.kind = "pointer"
    BY <1>b, <1>c, <2>2 DEF FieldLeaves, OneLayout, OneLeaves, Layout, wordLayout
  <2>3. CASE f.kind = "ref"
    BY <1>b, <1>c, <2>3 DEF FieldLeaves, OneLayout, OneLeaves
  <2>4. CASE f.kind = "nested"
    BY <1>b, <1>c, <2>4 DEF FieldLeaves, OneLayout, OneLeaves
  <2> QED
    BY <1>1, <2>1, <2>2, <2>3, <2>4
<1>7. Counted(Row(one.size, f.len, S), f.len * one.size, f.len * n[class], class)
  BY <1>1, <1>3, <1>5, RowCounted
<1> QED
  BY <1>3, <1>4, <1>6, <1>7, <1>a

\* Pieces at the offsets of the members of a struct.
Placing(l, P, n) == UNION {At(l.offsets[k], P[k]) : k \in 1..n}

\* They are scalars, and those of a class come from the pieces.
LEMMA PlacingFacts ==
  ASSUME NEW l, NEW P, NEW n \in Nat, \A k \in 1..n : l.offsets[k] \in Nat /\ P[k] \in SUBSET Scalars
  PROVE  /\ Placing(l, P, n) \in SUBSET Scalars
         /\ \A class : Of(Placing(l, P, n), class) = Joined([k \in 1..n |-> At(l.offsets[k], Of(P[k], class))], n)
<1>1. \A k \in 1..n : At(l.offsets[k], P[k]) \in SUBSET Scalars
  BY AtFacts
<1>2. Placing(l, P, n) \in SUBSET Scalars
  BY <1>1 DEF Placing
<1>3. ASSUME NEW class
      PROVE  Of(Placing(l, P, n), class) = Joined([k \in 1..n |-> At(l.offsets[k], Of(P[k], class))], n)
  <2> DEFINE Q == [k \in 1..n |-> At(l.offsets[k], Of(P[k], class))]
  <2>1. \A k \in 1..n : Q[k] = Of(At(l.offsets[k], P[k]), class)
    BY OfFacts
  <2>2. \A leaf : leaf \in Of(Placing(l, P, n), class) <=> \E k \in 1..n : leaf \in Of(At(l.offsets[k], P[k]), class)
    BY DEF Placing, Of
  <2> HIDE DEF Q
  <2>4. \A leaf : leaf \in Joined(Q, n) <=> \E k \in 1..n : leaf \in Q[k]
    BY DEF Joined
  <2>5. Of(Placing(l, P, n), class) = Joined(Q, n)
    BY <2>1, <2>2, <2>4
  <2> QED
    BY <2>5 DEF Q
<1> QED
  BY <1>2, <1>3

\* A sum is positive where one of its parts is.
LEMMA SumPositive ==
  ASSUME NEW n \in Nat, NEW x \in [1..n -> Nat], NEW sum \in [0..n -> Nat], \A k \in 1..n : sum[k] = sum[k - 1] + x[k],
         NEW q \in 1..n, x[q] > 0
  PROVE  sum[n] > 0
<1> DEFINE A == {m \in Nat : m \in 0..n /\ q <= m => sum[m] > 0}
<1>1. 0 \in A
  OBVIOUS
<1>2. ASSUME NEW m \in A PROVE m + 1 \in A
  <2> SUFFICES ASSUME m + 1 \in 0..n, q <= m + 1 PROVE sum[m + 1] > 0
    OBVIOUS
  <2>1. m \in Nat /\ m \in 0..n /\ m + 1 \in 1..n /\ (m + 1) - 1 = m
    OBVIOUS
  <2>2. sum[m + 1] = sum[m] + x[m + 1] /\ sum[m] \in Nat /\ x[m + 1] \in Nat
    BY <2>1
  <2>3. CASE q = m + 1
    BY <2>2, <2>3
  <2>4. CASE q # m + 1
    <3>1. q <= m
      BY <2>1, <2>4
    <3>2. sum[m] > 0
      BY <2>1, <3>1
    <3> QED
      BY <2>2, <3>2
  <2> QED
    BY <2>3, <2>4
<1>3. A = Nat
  <2>1. A \in SUBSET Nat
    OBVIOUS
  <2> HIDE DEF A
  <2> QED
    BY <1>1, <1>2, <2>1, AllNaturals
<1>4. \A m \in Nat : m \in 0..n /\ q <= m => sum[m] > 0
  BY <1>3
<1>5. n \in 0..n /\ q <= n
  OBVIOUS
<1> QED
  BY <1>4, <1>5

\* A struct whose fields count.
LEMMA MembersCounted ==
  ASSUME NEW ls \in Seq(Shape), NEW union \in BOOLEAN, union => SomeUnion, NEW pack \in Packs, AllOK(ls),
         NEW cs \in Seq(Counts), Len(cs) = Len(ls), NEW P, NEW class \in Classes,
         \A k \in 1..Len(ls) : Counted(P[k], ls[k].size, cs[k][class], class)
  PROVE  LET l == structLayoutOf(ls, union, pack)
         IN  Counted(Placing(l, P, Len(ls)), l.size, structCensus(cs)[class], class)
<1>a. PICK n : n = Len(ls)
  OBVIOUS
<1>b. PICK l : l = structLayoutOf(ls, union, pack)
  OBVIOUS
<1>c. PICK E : E = Ends(ls, union, pack)
  OBVIOUS
<1>d. PICK total : total = Sums(cs)
  OBVIOUS
<1>1. n \in Nat
  BY <1>a
<1>2. l \in Shape /\ l.size = roundUp(E[n], Most(ls, pack)) /\ \A k \in 1..n : l.offsets[k] = OffsetIn(ls, union, pack, k)
  <2>1. l \in Shape
    BY <1>b, LayoutFacts
  <2>2. l.size = roundUp(Ends(ls, union, pack)[Len(ls)], Most(ls, pack))
    BY <1>b, LayoutFacts
  <2>3. l.offsets = [k \in 1..Len(ls) |-> OffsetIn(ls, union, pack, k)]
    BY <1>b, LayoutFacts
  <2>4. \A k \in 1..Len(ls) : l.offsets[k] = OffsetIn(ls, union, pack, k)
    BY <2>3
  <2> QED
    BY <2>1, <2>2, <2>4, <1>a, <1>c
<1>3. E \in [0..n -> Nat] /\ E[0] = 0
  <2>1. E \in [0..n -> Nat] /\ \A k \in 0..n : E[k] = EndAt(ls, union, pack, k, E[k - 1])
    BY <1>a, <1>c, EndFacts
  <2>2. 0 \in 0..n /\ \A b : EndAt(ls, union, pack, 0, b) = 0
    BY <1>1 DEF EndAt
  <2>3. E[0] = EndAt(ls, union, pack, 0, E[0 - 1])
    BY <2>1, <2>2
  <2> QED
    BY <2>1, <2>2, <2>3
<1>4. ASSUME NEW k \in 1..n
      PROVE  /\ l.offsets[k] \in Nat /\ ls[k].size \in Nat
             /\ ~union => E[k] = l.offsets[k] + ls[k].size /\ E[k - 1] <= l.offsets[k]
  <2>1. k \in 1..Len(ls)
    BY <1>a
  <2>2. PICK o : o = OffsetIn(ls, union, pack, k)
    OBVIOUS
  <2>3. o \in Nat /\ ls[k].size \in Nat /\ Ends(ls, union, pack)[k] = IF union THEN Max({Ends(ls, union, pack)[k - 1], ls[k].size}) ELSE o + ls[k].size
    BY <2>1, <2>2, OffsetSteps
  <2>4. ~union => Ends(ls, union, pack)[k - 1] <= o
    BY <2>1, <2>2, OffsetSteps
  <2>5. l.offsets[k] = o
    BY <1>2, <2>2
  <2> QED
    BY <2>3, <2>4, <2>5, <1>c
<1>5. l.size \in Nat /\ E[n] <= l.size
  <2>1. Most(ls, pack) \in Aligns /\ E[n] \in Nat
    BY <1>1, <1>3, AlignFacts
  <2> QED
    BY <1>2, <2>1, RoundFacts
<1> DEFINE X == [k \in 1..n |-> cs[k][class]]
           S == [k \in 0..n |-> total[k][class]]
           Q == [k \in 1..n |-> At(l.offsets[k], Of(P[k], class))]
<1>6. total \in [0..n -> Counts] /\ total[0][class] = 0 /\ \A k \in 1..n : total[k][class] = total[k - 1][class] + cs[k][class]
  BY <1>a, <1>d, SumFacts
<1>7. S \in [0..n -> Nat] /\ X \in [1..n -> Nat] /\ S[0] = 0 /\ (\A k \in 1..n : S[k] = S[k - 1] + X[k]) /\ S[n] = structCensus(cs)[class]
  <2>1. \A k \in 1..n : cs[k] \in Counts
    BY <1>a
  <2>2. \A c \in Counts : c[class] \in Nat
    BY CensusFacts
  <2>3. S \in [0..n -> Nat] /\ X \in [1..n -> Nat]
    BY <1>6, <2>1, <2>2
  <2>4. S[0] = 0 /\ n \in 0..n
    BY <1>1, <1>6
  <2>5. \A k \in 1..n : S[k] = S[k - 1] + X[k]
    <3> TAKE k \in 1..n
    <3>1. k \in 0..n /\ k - 1 \in 0..n
      BY <1>1
    <3> QED
      BY <1>6, <3>1
  <2>6. S[n] = structCensus(cs)[class]
    BY <2>4, <1>a, <1>d, SumIs
  <2> QED
    BY <2>3, <2>4, <2>5, <2>6
<1>8. \A k \in 1..n : Counted(P[k], ls[k].size, X[k], class) /\ P[k] \in SUBSET Scalars
  BY <1>a DEF Counted
<1>9. /\ Placing(l, P, n) \in SUBSET Scalars /\ Of(Placing(l, P, n), class) = Joined(Q, n)
      /\ Of(Placing(l, P, n), class) # {} => \E k \in 1..n : Of(P[k], class) # {}
  <2>1. \A k \in 1..n : l.offsets[k] \in Nat /\ P[k] \in SUBSET Scalars
    BY <1>4, <1>8
  <2>2. Placing(l, P, n) \in SUBSET Scalars
    BY <1>1, <2>1, PlacingFacts
  <2>3. Of(Placing(l, P, n), class) = Joined(Q, n)
    BY <1>1, <2>1, PlacingFacts
  <2>4. Of(Placing(l, P, n), class) # {} => \E k \in 1..n : Of(P[k], class) # {}
    <3>1. \A k \in 1..n : Q[k] # {} => Of(P[k], class) # {}
      BY DEF At
    <3> HIDE DEF Q
    <3>2. Joined(Q, n) # {} => \E k \in 1..n : Q[k] # {}
      BY DEF Joined
    <3> QED
      BY <2>3, <3>1, <3>2
  <2> QED
    BY <2>2, <2>3, <2>4
<1> HIDE DEF X, S
<1>10. Of(Placing(l, P, n), class) # {} => S[n] > 0
  <2> SUFFICES ASSUME Of(Placing(l, P, n), class) # {} PROVE S[n] > 0
    OBVIOUS
  <2>1. PICK k \in 1..n : Of(P[k], class) # {}
    BY <1>9
  <2>2. X[k] > 0
    BY <1>8, <2>1 DEF Counted
  <2> QED
    BY <1>1, <1>7, <2>2, SumPositive
<1>11. ASSUME ~SomeUnion PROVE Fills(Of(Placing(l, P, n), class), 0, l.size, S[n])
  <2>1. ASSUME NEW k \in 1..n PROVE E[k - 1] <= E[k] /\ Fills(Q[k], E[k - 1], E[k], X[k])
    <3>1. E[k] = l.offsets[k] + ls[k].size /\ E[k - 1] <= l.offsets[k] /\ l.offsets[k] \in Nat /\ ls[k].size \in Nat
      BY <1>4, <1>11
    <3>2. E[k - 1] \in Nat /\ E[k] \in Nat /\ X[k] \in Nat
      BY <1>1, <1>3, <1>7
    <3>3. PICK T : T = Of(P[k], class)
      OBVIOUS
    <3>4. Fills(T, 0, ls[k].size, X[k]) /\ T \in SUBSET Scalars
      BY <1>8, <1>11, <3>3 DEF Counted, Of
    <3>5. Fills(At(l.offsets[k], T), l.offsets[k], l.offsets[k] + ls[k].size, X[k])
      BY <3>1, <3>2, <3>4, AtFacts
    <3>6. PICK V : V = Q[k]
      OBVIOUS
    <3>7. Fills(V, l.offsets[k], E[k], X[k])
      BY <3>1, <3>3, <3>5, <3>6
    <3>8. \A leaf \in V : leaf[1] \in Nat /\ l.offsets[k] <= leaf[1]
      BY <3>7 DEF Fills, Scalars
    <3>9. \A leaf \in V : E[k - 1] <= leaf[1]
      <4> TAKE leaf \in V
      <4>1. PICK y : y = leaf[1]
        OBVIOUS
      <4>2. y \in Nat /\ l.offsets[k] <= y
        BY <3>8, <4>1
      <4> QED
        BY <3>1, <3>2, <4>1, <4>2
    <3>10. Fills(V, E[k - 1], E[k], X[k])
      BY <3>7, <3>9 DEF Fills
    <3> QED
      BY <3>1, <3>2, <3>6, <3>10
  <2> HIDE DEF Q
  <2>2. Fills(Joined(Q, n), 0, E[n], S[n])
    BY <1>1, <1>3, <1>7, <2>1, Pieces
  <2>3. PICK J : J = Joined(Q, n)
    OBVIOUS
  <2>4. \A leaf \in J : leaf[1] < l.size
    <3> TAKE leaf \in J
    <3>1. PICK y : y = leaf[1]
      OBVIOUS
    <3>2. y \in Nat /\ y < E[n]
      BY <2>2, <2>3, <3>1 DEF Fills, Scalars
    <3>3. E[n] \in Nat
      BY <1>1, <1>3
    <3> QED
      BY <1>5, <3>1, <3>2, <3>3
  <2> QED
    BY <1>9, <2>2, <2>3, <2>4 DEF Fills
<1>12. S[n] \in Nat
  BY <1>1, <1>7
<1>13. Counted(Placing(l, P, n), l.size, S[n], class)
  BY <1>9, <1>10, <1>11, <1>12 DEF Counted
<1> QED
  BY <1>7, <1>13, <1>a, <1>b

\* Scalars take space.
SolidNatives(d) == \A k \in DOMAIN d.fields : d.fields[k].kind = "native" => d.fields[k].size # 0

\* The censuses of a list of fields.
LEMMA CensusTyped ==
  ASSUME NEW d, NEW i, Listed(d, i), NEW cs, \A j \in 1..(i - 1) : cs[j] \in Counts,
         NEW cw, \A k \in DOMAIN d.fields : d.fields[k].kind = "nested" => cw[d.fields[k].to] \in Counts
  PROVE  /\ fieldCensuses(d, cs, cw) \in Seq(Counts) /\ Len(fieldCensuses(d, cs, cw)) = Len(d.fields)
         /\ \A k \in DOMAIN d.fields : fieldCensuses(d, cs, cw)[k] = fieldCensus(d.fields[k], cs, cw)
         /\ structCensus(fieldCensuses(d, cs, cw)) \in Counts
<1>1. \A k \in DOMAIN d.fields : fieldCensus(d.fields[k], cs, cw) \in Counts
  <2> TAKE k \in DOMAIN d.fields
  <2>1. PICK f : f = d.fields[k]
    OBVIOUS
  <2>2. f.kind \in {"native", "pointer", "ref", "nested"} /\ f.len \in Nat \ {0}
    BY <2>1, FieldFacts
  <2>3. f.class \in Classes
    <3>1. f \in Field
      BY <2>1 DEF Listed
    <3> QED
      BY <3>1 DEF Field, Classes
  <2>4. (f.kind = "ref" => cs[f.to] \in Counts) /\ (f.kind = "nested" => cw[f.to] \in Counts)
    BY <2>1 DEF Listed
  <2> QED
    BY <2>1, <2>2, <2>3, <2>4, FieldCounts
<1>2. fieldCensuses(d, cs, cw) = [k \in DOMAIN d.fields |-> fieldCensus(d.fields[k], cs, cw)]
  BY DEF fieldCensuses
<1>3. DOMAIN d.fields = 1..Len(d.fields) /\ Len(d.fields) \in Nat
  BY DEF Listed
<1>4. fieldCensuses(d, cs, cw) \in Seq(Counts)
  BY <1>1, <1>2, <1>3
<1>5. Len(fieldCensuses(d, cs, cw)) = Len(d.fields)
  BY <1>2, <1>3
<1>6. structCensus(fieldCensuses(d, cs, cw)) \in Counts
  BY <1>4, SumFacts
<1> QED
  BY <1>2, <1>4, <1>5, <1>6

\* A list of fields, of which what has a layout counts.
LEMMA ListCounted ==
  ASSUME NEW d, NEW i, Listed(d, i), SolidNatives(d), d.union => SomeUnion, NEW s, Before(s, i), NEW m, Inside(d, m),
         structLayoutOf(fieldLayouts(d, s, m), d.union, d.pack).ok, NEW leaves, NEW within, NEW class \in Classes,
         NEW cs, \A j \in 1..(i - 1) : cs[j] \in Counts /\ (s[j].ok => Counted(leaves[j], s[j].size, cs[j][class], class)),
         NEW cw, \A k \in DOMAIN d.fields : d.fields[k].kind = "nested" =>
           cw[d.fields[k].to] \in Counts /\ (m[d.fields[k].to].ok => Counted(within[d.fields[k].to], m[d.fields[k].to].size, cw[d.fields[k].to][class], class))
  PROVE  LET l == structLayoutOf(fieldLayouts(d, s, m), d.union, d.pack)
         IN  Counted(MemberLeaves(d, l, s, m, leaves, within), l.size, structCensus(fieldCensuses(d, cs, cw))[class], class)
<1>a. PICK ls : ls = fieldLayouts(d, s, m)
  OBVIOUS
<1>b. PICK l : l = structLayoutOf(ls, d.union, d.pack)
  OBVIOUS
<1>c. PICK cc : cc = fieldCensuses(d, cs, cw)
  OBVIOUS
<1>1. d.union \in BOOLEAN /\ d.pack \in Packs /\ DOMAIN d.fields = 1..Len(d.fields)
  BY DEF Listed, Packs
<1>2. ls \in Seq(Shape) /\ Len(ls) = Len(d.fields) /\ \A k \in DOMAIN d.fields : ls[k] = fieldLayout(d.fields[k], s, m)
  BY <1>a, FieldLayoutFacts
<1>3. AllOK(ls)
  BY <1>1, <1>2, <1>a, LayoutFacts
<1>4. \A k \in DOMAIN d.fields : /\ d.fields[k].kind = "ref" => s[d.fields[k].to].ok
                                 /\ d.fields[k].kind = "nested" => m[d.fields[k].to].ok
  BY <1>3, <1>a, OkFacts
<1>5. cc \in Seq(Counts) /\ Len(cc) = Len(d.fields) /\ \A k \in DOMAIN d.fields : cc[k] = fieldCensus(d.fields[k], cs, cw)
  BY <1>c, CensusTyped
<1> DEFINE P == [k \in DOMAIN d.fields |-> FieldLeaves(d.fields[k], s, m, leaves, within)]
<1>6. \A k \in DOMAIN d.fields : Counted(P[k], ls[k].size, cc[k][class], class)
  <2> TAKE k \in DOMAIN d.fields
  <2>1. d.fields[k].kind = "native" => d.fields[k].size # 0
    BY DEF SolidNatives
  <2>2. d.fields[k].kind = "ref" =>
          cs[d.fields[k].to] \in Counts /\ Counted(leaves[d.fields[k].to], s[d.fields[k].to].size, cs[d.fields[k].to][class], class)
    BY <1>4 DEF Listed
  <2>3. d.fields[k].kind = "nested" =>
          cw[d.fields[k].to] \in Counts /\ Counted(within[d.fields[k].to], m[d.fields[k].to].size, cw[d.fields[k].to][class], class)
    BY <1>4
  <2>4. Counted(FieldLeaves(d.fields[k], s, m, leaves, within), fieldLayout(d.fields[k], s, m).size,
                fieldCensus(d.fields[k], cs, cw)[class], class)
    BY <2>1, <2>2, <2>3, FieldCounted
  <2> QED
    BY <1>2, <1>5, <2>4
<1>7. MemberLeaves(d, l, s, m, leaves, within) = Placing(l, P, Len(ls))
  BY <1>1, <1>2 DEF MemberLeaves, Placing
<1> HIDE DEF P
<1>8. Counted(Placing(l, P, Len(ls)), l.size, structCensus(cc)[class], class)
  BY <1>1, <1>2, <1>3, <1>5, <1>6, <1>b, MembersCounted
<1> QED
  BY <1>7, <1>8, <1>a, <1>b, <1>c

\* A variant that can be counted, its census, and the scalars of its nested types.
Countable(def) ==
  /\ SolidNatives(def) /\ (def.union => SomeUnion)
  /\ \A n \in DOMAIN def.nested : SolidNatives(def.nested[n]) /\ (def.nested[n].union => SomeUnion)
CensusFrom(def, cs) == structCensus(fieldCensuses(def, cs, nestedCensuses(def, cs)))
WithinAt(def, s, leaves, n, w) ==
  IF ~nestedLayouts(def, s)[n].ok THEN {}
  ELSE MemberLeaves(def.nested[n], nestedLayouts(def, s)[n], s, nestedLayouts(def, s), leaves, w)
Within(def, s, leaves) == CHOOSE w : w = [n \in DOMAIN def.nested |-> WithinAt(def, s, leaves, n, w)]

\* The scalars of a variant, by the layouts of the engine.
LEMMA VariantLeavesIs ==
  ASSUME NEW def, NEW i, VariantOK(def, i), NEW s, Before(s, i), NEW leaves, NEW l
  PROVE  VariantLeaves(def, l, s, leaves) = MemberLeaves(def, l, s, nestedLayouts(def, s), leaves, Within(def, s, leaves))
<1>1. CNested(def, s) = nestedLayouts(def, s)
  BY CNestedIs
<1> QED
  BY <1>1 DEF VariantLeaves, Within, WithinAt

\* The censuses of a list of fields go by those that the fields name.
LEMMA CensusListAgrees ==
  ASSUME NEW d, NEW i, Listed(d, i), NEW cs, NEW ct, Agree(cs, ct, i),
         NEW cw, NEW dw, \A k \in DOMAIN d.fields : d.fields[k].kind = "nested" => cw[d.fields[k].to] = dw[d.fields[k].to]
  PROVE  fieldCensuses(d, cs, cw) = fieldCensuses(d, ct, dw)
<1>1. \A k \in DOMAIN d.fields : fieldCensus(d.fields[k], cs, cw) = fieldCensus(d.fields[k], ct, dw)
  <2> TAKE k \in DOMAIN d.fields
  <2>1. d.fields[k].kind \in {"native", "pointer", "ref", "nested"}
    BY FieldFacts
  <2>2. d.fields[k].kind = "ref" => cs[d.fields[k].to] = ct[d.fields[k].to]
    BY DEF Listed, Agree
  <2>3. d.fields[k].kind = "nested" => cw[d.fields[k].to] = dw[d.fields[k].to]
    OBVIOUS
  <2>4. OneCount(d.fields[k], cs, cw) = OneCount(d.fields[k], ct, dw)
    BY <2>1, <2>2, <2>3 DEF OneCount
  <2> QED
    BY <2>4 DEF fieldCensus, OneCount
<1> QED
  BY <1>1 DEF fieldCensuses

\* What a nested type's census is, given those of the types nested in it.
NestedCensusAt(def, cs, n, cw) == structCensus(fieldCensuses(def.nested[n], cs, cw))

\* It is a census when they are, and is computed from them and the structs before.
LEMMA NestedCensusFacts ==
  ASSUME NEW def, NEW i, VariantOK(def, i), NEW n \in DOMAIN def.nested, NEW cs
  PROVE  /\ \A cw : (\A j \in 1..(i - 1) : cs[j] \in Counts) /\ (\A m \in Inner(def, n) : cw[m] \in Counts) => NestedCensusAt(def, cs, n, cw) \in Counts
         /\ \A ct, cw, dw : Agree(cs, ct, i) /\ (\A m \in Inner(def, n) : cw[m] = dw[m]) => NestedCensusAt(def, cs, n, cw) = NestedCensusAt(def, ct, n, dw)
<1>1. PICK d : d = def.nested[n]
  OBVIOUS
<1>2. Listed(d, i) /\ \A k \in DOMAIN d.fields : d.fields[k].kind = "nested" => d.fields[k].to \in Inner(def, n)
  BY <1>1 DEF VariantOK, Nesting
<1>3. ASSUME NEW cw, \A j \in 1..(i - 1) : cs[j] \in Counts, \A m \in Inner(def, n) : cw[m] \in Counts
      PROVE  structCensus(fieldCensuses(d, cs, cw)) \in Counts
  BY <1>2, <1>3, CensusTyped
<1>4. ASSUME NEW ct, NEW cw, NEW dw, Agree(cs, ct, i), \A m \in Inner(def, n) : cw[m] = dw[m]
      PROVE  fieldCensuses(d, cs, cw) = fieldCensuses(d, ct, dw)
  <2>1. \A k \in DOMAIN d.fields : d.fields[k].kind = "nested" => cw[d.fields[k].to] = dw[d.fields[k].to]
    BY <1>2, <1>4
  <2> QED
    BY <1>2, <1>4, <2>1, CensusListAgrees
<1> QED
  BY <1>1, <1>3, <1>4 DEF NestedCensusAt

\* The recursion over the nested types ends, and the variant has a census as well.
LEMMA NestedCensusTyped ==
  ASSUME NEW def, NEW i, VariantOK(def, i), NEW cs, \A j \in 1..(i - 1) : cs[j] \in Counts
  PROVE  /\ \A n \in DOMAIN def.nested : nestedCensuses(def, cs)[n] \in Counts
         /\ \A n \in DOMAIN def.nested : nestedCensuses(def, cs)[n] = NestedCensusAt(def, cs, n, nestedCensuses(def, cs))
         /\ \A k \in DOMAIN def.fields : def.fields[k].kind = "nested" => nestedCensuses(def, cs)[def.fields[k].to] \in Counts
         /\ CensusFrom(def, cs) \in Counts
<1> DEFINE I == DOMAIN def.nested
           C == nestedCensuses(def, cs)
           H == [f \in [I -> Counts] |-> [n \in I |-> NestedCensusAt(def, cs, n, f)]]
<1>1. Nesting(def) /\ \A n \in I : \A m \in Inner(def, n) : m \in I
  BY DEF VariantOK, Inner
<1>2. Agree(cs, cs, i)
  BY DEF Agree
<1>3. HasFixpoint(H, I, Counts)
  <2>1. \A f \in [I -> Counts] : \A n \in I : NestedCensusAt(def, cs, n, f) \in Counts
    BY <1>1, NestedCensusFacts
  <2>2. H \in [[I -> Counts] -> [I -> Counts]]
    BY <2>1
  <2>3. \A f, g \in [I -> Counts] : \A n \in I : (\A m \in Inner(def, n) : f[m] = g[m]) => H[f][n] = H[g][n]
    BY <1>2, NestedCensusFacts
  <2>4. Census(0, 0, 0) \in Counts
    BY CensusFacts
  <2> HIDE DEF H
  <2> QED
    BY <1>1, <2>2, <2>3, <2>4, NestedRecursion
<1>4. PICK f : f \in [I -> Counts] /\ f = [n \in I |-> NestedCensusAt(def, cs, n, f)]
  BY <1>3 DEF HasFixpoint
<1>5. C = CHOOSE census : census = [n \in I |-> NestedCensusAt(def, cs, n, census)]
  BY DEF nestedCensuses, NestedCensusAt
<1>6. C = [n \in I |-> NestedCensusAt(def, cs, n, C)]
  <2> HIDE DEF C, I
  <2> QED
    BY <1>4, <1>5
<1> HIDE DEF C, H
<1>7. \A n \in I : C[n] = NestedCensusAt(def, cs, n, C)
  <2> HIDE DEF I
  <2> QED
    BY <1>6
<1> DEFINE T == {n \in I : C[n] \in Counts}
<1>8. ASSUME NEW n \in I, \A m \in Inner(def, n) : m \in T PROVE n \in T
  BY <1>7, <1>8, NestedCensusFacts
<1>9. \A n \in I : n \in T
  <2> HIDE DEF T
  <2> QED
    BY <1>1, <1>8, FromInside
<1>10. \A n \in I : C[n] \in Counts
  BY <1>9
<1>11. \A k \in DOMAIN def.fields : def.fields[k].kind = "nested" => C[def.fields[k].to] \in Counts
  BY <1>1, <1>10 DEF Nesting, Inner
<1>12. CensusFrom(def, cs) \in Counts
  <2>1. Listed(def, i)
    BY DEF VariantOK
  <2>2. structCensus(fieldCensuses(def, cs, C)) \in Counts
    BY <1>11, <2>1, CensusTyped
  <2> QED
    BY <2>2 DEF CensusFrom, C
<1> QED
  BY <1>7, <1>10, <1>11, <1>12 DEF C

\* The scalars of a list of fields are scalars, and those of the structs before.
LEMMA ListTyped ==
  ASSUME NEW d, NEW i, Listed(d, i), NEW s, Before(s, i), NEW m, Inside(d, m),
         structLayoutOf(fieldLayouts(d, s, m), d.union, d.pack).ok, NEW leaves, \A j \in 1..(i - 1) : leaves[j] \in SUBSET Scalars,
         NEW within, \A k \in DOMAIN d.fields : d.fields[k].kind = "nested" /\ m[d.fields[k].to].ok => within[d.fields[k].to] \in SUBSET Scalars
  PROVE  MemberLeaves(d, structLayoutOf(fieldLayouts(d, s, m), d.union, d.pack), s, m, leaves, within) \in SUBSET Scalars
<1>a. PICK ls : ls = fieldLayouts(d, s, m)
  OBVIOUS
<1>b. PICK l : l = structLayoutOf(ls, d.union, d.pack)
  OBVIOUS
<1>1. d.union \in BOOLEAN /\ d.pack \in Packs /\ DOMAIN d.fields = 1..Len(d.fields) /\ Len(d.fields) \in Nat
  BY DEF Listed, Packs
<1>2. ls \in Seq(Shape) /\ Len(ls) = Len(d.fields)
  BY <1>a, FieldLayoutFacts
<1>3. AllOK(ls)
  BY <1>1, <1>2, <1>a, LayoutFacts
<1>4. \A k \in DOMAIN d.fields : d.fields[k].kind = "nested" => m[d.fields[k].to].ok
  BY <1>3, <1>a, OkFacts
<1>5. \A k \in DOMAIN d.fields : l.offsets[k] \in Nat
  <2>1. l.offsets = [k \in 1..Len(ls) |-> OffsetIn(ls, d.union, d.pack, k)]
    BY <1>1, <1>2, <1>3, <1>b, LayoutFacts
  <2>2. \A k \in 1..Len(ls) : OffsetIn(ls, d.union, d.pack, k) \in Nat
    BY <1>1, <1>2, OffsetSteps
  <2> QED
    BY <1>1, <1>2, <2>1, <2>2
<1>6. \A k \in DOMAIN d.fields : FieldLeaves(d.fields[k], s, m, leaves, within) \in SUBSET Scalars
  <2> TAKE k \in DOMAIN d.fields
  <2>a. PICK f : f = d.fields[k]
    OBVIOUS
  <2>1. f.kind \in {"native", "pointer", "ref", "nested"} /\ f.len \in Nat \ {0} /\ f.size \in Nat /\ f \in Field
    <3>1. f \in Field
      BY <2>a DEF Listed
    <3>2. f.kind \in {"native", "pointer", "ref", "nested"} /\ f.len \in Nat \ {0} /\ f.size \in Nat
      BY <2>a, FieldFacts
    <3> QED
      BY <3>1, <3>2
  <2>2. CASE f.kind = "native"
    <3>1. {<<0, f.class>>} \in SUBSET Scalars
      BY <2>1 DEF Scalars, Field, Classes
    <3>2. Row(f.size, f.len, {<<0, f.class>>}) \in SUBSET Scalars
      BY <2>1, <3>1, RowFacts
    <3> QED
      BY <2>2, <2>a, <3>2 DEF FieldLeaves
  <2>3. CASE f.kind = "pointer"
    <3>1. {<<0, "other">>} \in SUBSET Scalars /\ 8 \in Nat
      BY DEF Scalars, Classes
    <3>2. Row(8, f.len, {<<0, "other">>}) \in SUBSET Scalars
      BY <2>1, <3>1, RowFacts
    <3> QED
      BY <2>3, <2>a, <3>2 DEF FieldLeaves
  <2>4. CASE f.kind = "ref"
    <3>1. f.to \in 1..(i - 1)
      BY <2>4, <2>a DEF Listed
    <3>2. leaves[f.to] \in SUBSET Scalars /\ s[f.to].size \in Nat
      BY <3>1 DEF Before, Shape
    <3>3. Row(s[f.to].size, f.len, leaves[f.to]) \in SUBSET Scalars
      BY <2>1, <3>2, RowFacts
    <3> QED
      BY <2>4, <2>a, <3>3 DEF FieldLeaves
  <2>5. CASE f.kind = "nested"
    <3>1. within[f.to] \in SUBSET Scalars /\ m[f.to].size \in Nat
      BY <1>4, <2>5, <2>a DEF Inside, Shape
    <3>2. Row(m[f.to].size, f.len, within[f.to]) \in SUBSET Scalars
      BY <2>1, <3>1, RowFacts
    <3> QED
      BY <2>5, <2>a, <3>2 DEF FieldLeaves
  <2> QED
    BY <2>1, <2>2, <2>3, <2>4, <2>5
<1>7. \A k \in DOMAIN d.fields : At(l.offsets[k], FieldLeaves(d.fields[k], s, m, leaves, within)) \in SUBSET Scalars
  BY <1>5, <1>6, AtFacts
<1>8. MemberLeaves(d, l, s, m, leaves, within) \in SUBSET Scalars
  BY <1>7 DEF MemberLeaves
<1> QED
  BY <1>8, <1>a, <1>b

\* Fields that lead to the same layouts and scalars have the same.
LEMMA ListShared ==
  ASSUME NEW d, NEW i, Listed(d, i), NEW l, NEW s, NEW t, NEW m, NEW m2, NEW leaves, NEW others, NEW within, NEW outside,
         \A k \in DOMAIN d.fields :
           LET j == d.fields[k].to IN
           /\ d.fields[k].kind = "ref" => s[j] = t[j] /\ leaves[j] = others[j]
           /\ d.fields[k].kind = "nested" => m[j] = m2[j] /\ within[j] = outside[j]
  PROVE  MemberLeaves(d, l, s, m, leaves, within) = MemberLeaves(d, l, t, m2, others, outside)
<1>1. \A k \in DOMAIN d.fields : FieldLeaves(d.fields[k], s, m, leaves, within) = FieldLeaves(d.fields[k], t, m2, others, outside)
  <2> TAKE k \in DOMAIN d.fields
  <2>1. d.fields[k].kind \in {"native", "pointer", "ref", "nested"}
    BY FieldFacts
  <2>2. d.fields[k].kind = "ref" => s[d.fields[k].to] = t[d.fields[k].to] /\ leaves[d.fields[k].to] = others[d.fields[k].to]
    OBVIOUS
  <2>3. d.fields[k].kind = "nested" => m[d.fields[k].to] = m2[d.fields[k].to] /\ within[d.fields[k].to] = outside[d.fields[k].to]
    OBVIOUS
  <2> QED
    BY <2>1, <2>2, <2>3 DEF FieldLeaves
<1> QED
  BY <1>1 DEF MemberLeaves

\* Fields take their scalars from earlier structs.
LEMMA ListAgrees ==
  ASSUME NEW d, NEW i, Listed(d, i), NEW l, NEW s, NEW m, NEW leaves, NEW others, Agree(leaves, others, i), NEW within, NEW outside,
         \A k \in DOMAIN d.fields : d.fields[k].kind = "nested" => within[d.fields[k].to] = outside[d.fields[k].to]
  PROVE  MemberLeaves(d, l, s, m, leaves, within) = MemberLeaves(d, l, s, m, others, outside)
<1>1. \A k \in DOMAIN d.fields : d.fields[k].kind = "ref" => leaves[d.fields[k].to] = others[d.fields[k].to]
  BY DEF Listed, Agree
<1> QED
  BY <1>1, ListShared

\* So are those of the nested types, as far as they have layouts, one from another.
LEMMA WithinFacts ==
  ASSUME NEW def, NEW i, VariantOK(def, i), NEW s, Before(s, i), NEW leaves, \A j \in 1..(i - 1) : leaves[j] \in SUBSET Scalars
  PROVE  \A n \in DOMAIN def.nested : /\ Within(def, s, leaves)[n] = WithinAt(def, s, leaves, n, Within(def, s, leaves))
                                      /\ Within(def, s, leaves)[n] \in SUBSET Scalars
<1> DEFINE I == DOMAIN def.nested
           V == SUBSET Scalars
           C == Within(def, s, leaves)
           H == [f \in [I -> V] |-> [n \in I |-> WithinAt(def, s, leaves, n, f)]]
<1>a. PICK m : m = nestedLayouts(def, s)
  OBVIOUS
<1>b. ASSUME NEW n \in I
      PROVE  /\ Listed(def.nested[n], i) /\ Inside(def.nested[n], m)
             /\ m[n] = structLayoutOf(fieldLayouts(def.nested[n], s, m), def.nested[n].union, def.nested[n].pack)
             /\ \A k \in DOMAIN def.nested[n].fields :
                  def.nested[n].fields[k].kind = "nested" => def.nested[n].fields[k].to \in Inner(def, n)
  BY <1>a, NestedsFacts DEF VariantOK, Nesting, NestedAt
<1>1. Nesting(def) /\ \A n \in I : \A k \in Inner(def, n) : k \in I
  BY DEF VariantOK, Inner
<1>2. ASSUME NEW f, NEW n \in I, \A k \in Inner(def, n) : f[k] \in V PROVE WithinAt(def, s, leaves, n, f) \in V
  <2>1. PICK d : d = def.nested[n]
    OBVIOUS
  <2>2. ASSUME m[n].ok PROVE MemberLeaves(d, m[n], s, m, leaves, f) \in V
    <3>1. \A k \in DOMAIN d.fields : d.fields[k].kind = "nested" => f[d.fields[k].to] \in SUBSET Scalars
      BY <1>2, <1>b, <2>1
    <3>2. Listed(d, i) /\ Inside(d, m) /\ m[n] = structLayoutOf(fieldLayouts(d, s, m), d.union, d.pack)
      BY <1>b, <2>1
    <3>3. structLayoutOf(fieldLayouts(d, s, m), d.union, d.pack).ok
      BY <2>2, <3>2
    <3>4. MemberLeaves(d, structLayoutOf(fieldLayouts(d, s, m), d.union, d.pack), s, m, leaves, f) \in SUBSET Scalars
      BY <3>1, <3>2, <3>3, ListTyped
    <3> QED
      BY <3>2, <3>4
  <2> QED
    BY <1>a, <2>1, <2>2 DEF WithinAt
<1>3. ASSUME NEW f, NEW g, NEW n \in I, \A k \in Inner(def, n) : f[k] = g[k] PROVE WithinAt(def, s, leaves, n, f) = WithinAt(def, s, leaves, n, g)
  <2>1. PICK d : d = def.nested[n]
    OBVIOUS
  <2>2. \A k \in DOMAIN d.fields : d.fields[k].kind = "nested" => f[d.fields[k].to] = g[d.fields[k].to]
    BY <1>3, <1>b, <2>1
  <2>3. MemberLeaves(d, m[n], s, m, leaves, f) = MemberLeaves(d, m[n], s, m, leaves, g)
    BY <1>b, <2>1, <2>2, ListShared
  <2> QED
    BY <1>a, <2>1, <2>3 DEF WithinAt
<1>4. HasFixpoint(H, I, V)
  <2>1. \A f \in [I -> V] : \A n \in I : WithinAt(def, s, leaves, n, f) \in V
    BY <1>1, <1>2
  <2>2. H \in [[I -> V] -> [I -> V]]
    BY <2>1
  <2>3. \A f, g \in [I -> V] : \A n \in I : (\A k \in Inner(def, n) : f[k] = g[k]) => H[f][n] = H[g][n]
    BY <1>3
  <2>4. {} \in V
    OBVIOUS
  <2> HIDE DEF H, V
  <2> QED
    BY <1>1, <2>2, <2>3, <2>4, NestedRecursion
<1>5. PICK f : f \in [I -> V] /\ f = [n \in I |-> WithinAt(def, s, leaves, n, f)]
  BY <1>4 DEF HasFixpoint
<1>6. C = CHOOSE w : w = [n \in I |-> WithinAt(def, s, leaves, n, w)]
  BY DEF Within
<1>7. C = [n \in I |-> WithinAt(def, s, leaves, n, C)]
  <2> HIDE DEF C, I
  <2> QED
    BY <1>5, <1>6
<1> HIDE DEF C, H
<1>8. \A n \in I : C[n] = WithinAt(def, s, leaves, n, C)
  <2> HIDE DEF I
  <2> QED
    BY <1>7
<1> DEFINE T == {n \in I : C[n] \in V}
<1>9. ASSUME NEW n \in I, \A k \in Inner(def, n) : k \in T PROVE n \in T
  <2>1. \A k \in Inner(def, n) : C[k] \in V
    BY <1>9
  <2>2. C[n] \in V
    BY <1>2, <1>8, <2>1
  <2> QED
    BY <2>2
<1>10. \A n \in I : n \in T
  <2> HIDE DEF T, V
  <2> QED
    BY <1>1, <1>9, FromInside
<1> QED
  BY <1>8, <1>10 DEF C

\* The scalars of a variant: the same.
LEMMA VariantTyped ==
  ASSUME NEW def, NEW i, VariantOK(def, i), NEW s, Before(s, i), NEW leaves, \A j \in 1..(i - 1) : leaves[j] \in SUBSET Scalars
  PROVE  /\ LayoutFrom(def, s).ok => VariantLeaves(def, LayoutFrom(def, s), s, leaves) \in SUBSET Scalars
         /\ \A l, others : Agree(leaves, others, i) => VariantLeaves(def, l, s, leaves) = VariantLeaves(def, l, s, others)
<1>a. PICK m : m = nestedLayouts(def, s)
  OBVIOUS
<1>b. PICK within : within = Within(def, s, leaves)
  OBVIOUS
<1>1. Listed(def, i) /\ Inside(def, m) /\ Nesting(def) /\ \A n \in DOMAIN def.nested : within[n] \in SUBSET Scalars
  BY <1>a, <1>b, NestedsFacts, WithinFacts DEF VariantOK
<1>2. \A k \in DOMAIN def.fields : def.fields[k].kind = "nested" => def.fields[k].to \in Inner(def, 0) /\ within[def.fields[k].to] \in SUBSET Scalars
  BY <1>1 DEF Nesting, Inner
<1>3. ASSUME LayoutFrom(def, s).ok PROVE VariantLeaves(def, LayoutFrom(def, s), s, leaves) \in SUBSET Scalars
  <2>1. PICK l : l = LayoutFrom(def, s)
    OBVIOUS
  <2>2. l = structLayoutOf(fieldLayouts(def, s, m), def.union, def.pack)
    BY <1>a, <2>1 DEF LayoutFrom, Fields
  <2>3. MemberLeaves(def, l, s, m, leaves, within) \in SUBSET Scalars
    BY <1>1, <1>2, <1>3, <2>1, <2>2, ListTyped
  <2> QED
    BY <1>a, <1>b, <2>1, <2>3, VariantLeavesIs
<1>4. ASSUME NEW l, NEW others, Agree(leaves, others, i) PROVE VariantLeaves(def, l, s, leaves) = VariantLeaves(def, l, s, others)
  <2>1. PICK outside : outside = Within(def, s, others)
    OBVIOUS
  <2>2. \A j \in 1..(i - 1) : others[j] \in SUBSET Scalars
    BY <1>4 DEF Agree
  <2> DEFINE T == {n \in DOMAIN def.nested : within[n] = outside[n]}
  <2>3. ASSUME NEW n \in DOMAIN def.nested, \A k \in Inner(def, n) : k \in T PROVE n \in T
    <3>1. PICK d : d = def.nested[n]
      OBVIOUS
    <3>2. Listed(d, i) /\ \A k \in DOMAIN d.fields : d.fields[k].kind = "nested" => within[d.fields[k].to] = outside[d.fields[k].to]
      BY <1>1, <2>3, <3>1 DEF VariantOK, Nesting
    <3>3. MemberLeaves(d, m[n], s, m, leaves, within) = MemberLeaves(d, m[n], s, m, others, outside)
      BY <1>4, <3>2, ListAgrees
    <3>4. within[n] = WithinAt(def, s, leaves, n, within) /\ outside[n] = WithinAt(def, s, others, n, outside)
      BY <1>b, <2>1, <2>2, WithinFacts
    <3>5. within[n] = outside[n]
      BY <1>a, <3>1, <3>3, <3>4 DEF WithinAt
    <3> QED
      BY <3>5
  <2>4. \A n \in DOMAIN def.nested : n \in T
    <3> HIDE DEF T
    <3> QED
      BY <1>1, <2>3, FromInside
  <2>5. \A k \in DOMAIN def.fields : def.fields[k].kind = "nested" => within[def.fields[k].to] = outside[def.fields[k].to]
    BY <1>1, <2>4 DEF Nesting, Inner
  <2>6. MemberLeaves(def, l, s, m, leaves, within) = MemberLeaves(def, l, s, m, others, outside)
    BY <1>1, <1>4, <2>5, ListAgrees
  <2> QED
    BY <1>a, <1>b, <2>1, <2>6, VariantLeavesIs
<1> QED
  BY <1>3, <1>4

\* The census of a variant counts its scalars, given those of the structs before.
LEMMA VariantCounted ==
  ASSUME NEW def, NEW i, VariantOK(def, i), Countable(def), NEW s, Before(s, i), LayoutFrom(def, s).ok,
         NEW leaves, \A j \in 1..(i - 1) : leaves[j] \in SUBSET Scalars, NEW class \in Classes,
         NEW cs, \A j \in 1..(i - 1) : cs[j] \in Counts /\ (s[j].ok => Counted(leaves[j], s[j].size, cs[j][class], class))
  PROVE  Counted(VariantLeaves(def, LayoutFrom(def, s), s, leaves), LayoutFrom(def, s).size, CensusFrom(def, cs)[class], class)
<1>a. PICK m : m = nestedLayouts(def, s)
  OBVIOUS
<1>b. PICK cw : cw = nestedCensuses(def, cs)
  OBVIOUS
<1>c. PICK within : within = Within(def, s, leaves)
  OBVIOUS
<1>d. PICK l : l = LayoutFrom(def, s)
  OBVIOUS
<1>1. Listed(def, i) /\ Inside(def, m) /\ SolidNatives(def) /\ (def.union => SomeUnion) /\ Nesting(def)
  BY <1>a, NestedsFacts DEF VariantOK, Countable
<1>2. \A n \in DOMAIN def.nested : cw[n] \in Counts /\ cw[n] = NestedCensusAt(def, cs, n, cw)
  BY <1>b, NestedCensusTyped
<1> DEFINE T == {n \in DOMAIN def.nested : m[n].ok => Counted(within[n], m[n].size, cw[n][class], class)}
<1>3. ASSUME NEW n \in DOMAIN def.nested, \A k \in Inner(def, n) : k \in T PROVE n \in T
  <2> SUFFICES ASSUME m[n].ok PROVE Counted(within[n], m[n].size, cw[n][class], class)
    OBVIOUS
  <2>1. PICK d : d = def.nested[n]
    OBVIOUS
  <2>2. Listed(d, i) /\ SolidNatives(d) /\ (d.union => SomeUnion) /\ Inside(d, m)
    BY <1>a, <2>1, NestedsFacts DEF VariantOK, Countable
  <2>3. m[n] = structLayoutOf(fieldLayouts(d, s, m), d.union, d.pack)
    BY <1>a, <2>1, NestedsFacts DEF NestedAt
  <2>4. cw[n] = structCensus(fieldCensuses(d, cs, cw))
    BY <1>2, <2>1 DEF NestedCensusAt
  <2>5. within[n] = MemberLeaves(d, m[n], s, m, leaves, within)
    <3>1. within[n] = WithinAt(def, s, leaves, n, within)
      BY <1>c, WithinFacts
    <3> QED
      BY <1>a, <2>1, <3>1 DEF WithinAt
  <2>6. \A k \in DOMAIN d.fields : d.fields[k].kind = "nested" =>
          cw[d.fields[k].to] \in Counts /\ (m[d.fields[k].to].ok => Counted(within[d.fields[k].to], m[d.fields[k].to].size, cw[d.fields[k].to][class], class))
    <3>1. \A k \in DOMAIN d.fields : d.fields[k].kind = "nested" => d.fields[k].to \in Inner(def, n)
      BY <1>1, <2>1 DEF Nesting
    <3>2. \A x \in Inner(def, n) : cw[x] \in Counts /\ (m[x].ok => Counted(within[x], m[x].size, cw[x][class], class))
      BY <1>2, <1>3 DEF Inner
    <3> QED
      BY <3>1, <3>2
  <2>7. Counted(MemberLeaves(d, m[n], s, m, leaves, within), m[n].size, structCensus(fieldCensuses(d, cs, cw))[class], class)
    BY <2>2, <2>3, <2>6, ListCounted
  <2> QED
    BY <2>4, <2>5, <2>7
<1>4. \A n \in DOMAIN def.nested : n \in T
  <2> HIDE DEF T
  <2> QED
    BY <1>1, <1>3, FromInside
<1>5. \A k \in DOMAIN def.fields : def.fields[k].kind = "nested" =>
        cw[def.fields[k].to] \in Counts /\ (m[def.fields[k].to].ok => Counted(within[def.fields[k].to], m[def.fields[k].to].size, cw[def.fields[k].to][class], class))
  <2>1. \A x \in Inner(def, 0) : cw[x] \in Counts /\ (m[x].ok => Counted(within[x], m[x].size, cw[x][class], class))
    BY <1>2, <1>4 DEF Inner
  <2> QED
    BY <1>1, <2>1 DEF Nesting
<1>6. l = structLayoutOf(fieldLayouts(def, s, m), def.union, def.pack) /\ l.ok
  BY <1>a, <1>d DEF LayoutFrom, Fields
<1>7. Counted(MemberLeaves(def, l, s, m, leaves, within), l.size, structCensus(fieldCensuses(def, cs, cw))[class], class)
  BY <1>1, <1>5, <1>6, ListCounted
<1>8. VariantLeaves(def, l, s, leaves) = MemberLeaves(def, l, s, m, leaves, within)
  BY <1>a, <1>c, VariantLeavesIs
<1> QED
  BY <1>7, <1>8, <1>b, <1>d DEF CensusFrom

\* Both are computed from the structs before.
LEMMA CensusAgrees ==
  ASSUME NEW def, NEW i, VariantOK(def, i), NEW cs, NEW ct, Agree(cs, ct, i), \A j \in 1..(i - 1) : cs[j] \in Counts
  PROVE  CensusFrom(def, cs) = CensusFrom(def, ct)
<1>a. PICK cw, dw : cw = nestedCensuses(def, cs) /\ dw = nestedCensuses(def, ct)
  OBVIOUS
<1>1. Nesting(def) /\ Listed(def, i)
  BY DEF VariantOK
<1>2. \A j \in 1..(i - 1) : ct[j] \in Counts
  BY DEF Agree
<1>3. \A n \in DOMAIN def.nested : cw[n] = NestedCensusAt(def, cs, n, cw) /\ dw[n] = NestedCensusAt(def, ct, n, dw)
  BY <1>2, <1>a, NestedCensusTyped
<1> DEFINE T == {n \in DOMAIN def.nested : cw[n] = dw[n]}
<1>4. ASSUME NEW n \in DOMAIN def.nested, \A k \in Inner(def, n) : k \in T PROVE n \in T
  <2>1. \A k \in Inner(def, n) : cw[k] = dw[k]
    BY <1>4
  <2>2. NestedCensusAt(def, cs, n, cw) = NestedCensusAt(def, ct, n, dw)
    BY <2>1, NestedCensusFacts
  <2> QED
    BY <1>3, <2>2
<1>5. \A n \in DOMAIN def.nested : n \in T
  <2> HIDE DEF T
  <2> QED
    BY <1>1, <1>4, FromInside
<1>6. \A k \in DOMAIN def.fields : def.fields[k].kind = "nested" => cw[def.fields[k].to] = dw[def.fields[k].to]
  BY <1>1, <1>5 DEF Nesting, Inner
<1>7. fieldCensuses(def, cs, cw) = fieldCensuses(def, ct, dw)
  BY <1>1, <1>6, CensusListAgrees
<1> QED
  BY <1>7, <1>a DEF CensusFrom

\* A struct with a layout has the variant it is of.
LEMMA VariantFound ==
  ASSUME RegistryOK, NEW arch, NEW i \in Idx, layouts(arch)[i].ok
  PROVE  LET v == pickVariant(i, arch) IN
         /\ v # 0 /\ v \in DOMAIN registry[i].variants /\ VariantOK(registry[i].variants[v], i)
         /\ layouts(arch)[i] = LayoutFrom(registry[i].variants[v], layouts(arch))
         /\ Before(layouts(arch), i) /\ Countable(registry[i].variants[v])
<1>1. layouts(arch)[i] = EngineAt(i, arch, layouts(arch)) /\ Before(layouts(arch), i)
  BY LayoutsFacts
<1>2. pickVariant(i, arch) # 0
  <2>1. NoLayout.ok = FALSE
    BY DEF NoLayout
  <2> QED
    BY <1>1, <2>1 DEF EngineAt
<1>3. PICK v : v = pickVariant(i, arch)
  OBVIOUS
<1>4. v \in DOMAIN registry[i].variants
  BY <1>2, <1>3, PickFacts
<1>5. VariantOK(registry[i].variants[v], i)
  BY <1>4, VariantFacts
<1>6. layouts(arch)[i] = LayoutFrom(registry[i].variants[v], layouts(arch))
  BY <1>1, <1>2, <1>3 DEF EngineAt
<1>7. Countable(registry[i].variants[v])
  <2>1. PICK def : def = registry[i].variants[v]
    OBVIOUS
  <2>2. SolidNatives(def) /\ \A n \in DOMAIN def.nested : SolidNatives(def.nested[n])
    BY <1>4, <2>1, NativeFacts DEF SolidNatives
  <2>3. (def.union => SomeUnion) /\ \A n \in DOMAIN def.nested : def.nested[n].union => SomeUnion
    BY <1>4, <2>1 DEF SomeUnion
  <2> QED
    BY <2>1, <2>2, <2>3 DEF Countable
<1> QED
  BY <1>1, <1>2, <1>3, <1>4, <1>5, <1>6, <1>7

CensusAt(i, arch, cs) ==
  IF ~layouts(arch)[i].ok THEN Census(0, 0, 0) ELSE CensusFrom(registry[i].variants[pickVariant(i, arch)], cs)

\* The census of each struct is computed from those before it.
LEMMA CensusesFacts ==
  ASSUME RegistryOK, NEW arch
  PROVE  censuses(arch) \in [Idx -> Counts] /\ \A i \in Idx : censuses(arch)[i] = CensusAt(i, arch, censuses(arch))
<1> DEFINE L == censuses(arch)
           H == [f \in [Idx -> Counts] |-> [i \in Idx |-> CensusAt(i, arch, f)]]
<1>1. Len(registry) \in Nat /\ Idx = 1..Len(registry)
  BY RegistryFacts
<1>a. Census(0, 0, 0) \in Counts
  BY CensusFacts
<1>2. \A f \in [Idx -> Counts] : \A i \in Idx : \A j \in 1..(i - 1) : f[j] \in Counts
  BY <1>1
<1>3. HasFixpoint(H, Idx, Counts)
  <2>1. ASSUME NEW f \in [Idx -> Counts], NEW i \in Idx PROVE CensusAt(i, arch, f) \in Counts
    BY <1>a, <1>2, VariantFound, NestedCensusTyped DEF CensusAt
  <2>2. H \in [[Idx -> Counts] -> [Idx -> Counts]]
    BY <2>1
  <2>3. ASSUME NEW f \in [Idx -> Counts], NEW g \in [Idx -> Counts], NEW x \in Idx, \A y \in Idx : y < x => f[y] = g[y]
        PROVE  H[f][x] = H[g][x]
    <3>1. Agree(f, g, x)
      BY <1>1, <2>3 DEF Agree
    <3>2. CensusAt(x, arch, f) = CensusAt(x, arch, g)
      BY <1>2, <3>1, VariantFound, CensusAgrees DEF CensusAt
    <3> QED
      BY <3>2
  <2>4. Approximates(H, Idx, Counts)
    <3> HIDE DEF H
    <3> QED
      BY <2>2, <2>3 DEF Approximates
  <2>5. Idx \in SUBSET (0..Len(registry))
    BY <1>1
  <2> HIDE DEF H
  <2> QED
    BY <1>1, <1>a, <2>4, <2>5, Recursion
<1>4. PICK f : f \in [Idx -> Counts] /\ f = [i \in Idx |-> CensusAt(i, arch, f)]
  BY <1>3 DEF HasFixpoint
<1>5. L = CHOOSE census : census = [i \in Idx |-> CensusAt(i, arch, census)]
  BY DEF censuses, CensusAt, CensusFrom
<1>6. L = [i \in Idx |-> CensusAt(i, arch, L)]
  <2> HIDE DEF L
  <2> QED
    BY <1>4, <1>5
<1> HIDE DEF L
<1>7. \A i \in Idx : L[i] = CensusAt(i, arch, L)
  BY <1>6
<1> DEFINE T == {i \in Nat : i \in Idx => L[i] \in Counts}
<1>8. ASSUME NEW i \in Nat, \A m \in Nat : m < i => m \in T PROVE i \in T
  <2> SUFFICES ASSUME i \in Idx PROVE L[i] \in Counts
    OBVIOUS
  <2>1. \A j \in 1..(i - 1) : L[j] \in Counts
    <3> TAKE j \in 1..(i - 1)
    <3>1. j \in Nat /\ j < i /\ j \in Idx
      BY <1>1
    <3> QED
      BY <1>8, <3>1
  <2>2. CensusAt(i, arch, L) \in Counts
    BY <1>a, <2>1, VariantFound, NestedCensusTyped DEF CensusAt
  <2> QED
    BY <1>7, <2>2
<1>9. \A i \in Nat : i \in T
  <2> HIDE DEF T
  <2> QED
    BY <1>8, FromBelow
<1>10. \A i \in Idx : i \in Nat
  BY <1>1
<1>11. \A i \in Idx : L[i] \in Counts
  BY <1>9, <1>10
<1>12. L \in [Idx -> Counts]
  BY <1>6, <1>11
<1> QED
  BY <1>7, <1>12 DEF L

LeavesAt(i, arch, leaves) ==
  IF ~layouts(arch)[i].ok THEN {}
  ELSE VariantLeaves(registry[i].variants[pickVariant(i, arch)], layouts(arch)[i], layouts(arch), leaves)

\* So are the scalars of each struct, laid out as the headers say.
LEMMA LeavesFacts ==
  ASSUME RegistryOK, NEW arch
  PROVE  \A i \in Idx : CLeaves(arch)[i] = LeavesAt(i, arch, CLeaves(arch)) /\ CLeaves(arch)[i] \in SUBSET Scalars
<1> DEFINE L == CLeaves(arch)
           V == SUBSET Scalars
           H == [f \in [Idx -> V] |-> [i \in Idx |-> LeavesAt(i, arch, f)]]
<1>1. Len(registry) \in Nat /\ Idx = 1..Len(registry)
  BY RegistryFacts
<1>2. \A f \in [Idx -> V] : \A i \in Idx : \A j \in 1..(i - 1) : f[j] \in V
  BY <1>1
<1>b. ASSUME NEW f, NEW i \in Idx, \A j \in 1..(i - 1) : f[j] \in V PROVE LeavesAt(i, arch, f) \in V
  <2>1. CASE ~layouts(arch)[i].ok
    BY <2>1 DEF LeavesAt
  <2>2. CASE layouts(arch)[i].ok
    <3>1. PICK def : def = registry[i].variants[pickVariant(i, arch)]
      OBVIOUS
    <3>2. PICK s : s = layouts(arch)
      OBVIOUS
    <3>3. VariantOK(def, i) /\ s[i] = LayoutFrom(def, s) /\ Before(s, i) /\ s[i].ok
      BY <2>2, <3>1, <3>2, VariantFound
    <3>4. \A j \in 1..(i - 1) : f[j] \in SUBSET Scalars
      BY <1>b
    <3>5. VariantLeaves(def, LayoutFrom(def, s), s, f) \in SUBSET Scalars
      BY <3>3, <3>4, VariantTyped
    <3> QED
      BY <2>2, <3>1, <3>2, <3>3, <3>5 DEF LeavesAt
  <2> QED
    BY <2>1, <2>2
<1>3. HasFixpoint(H, Idx, V)
  <2>1. ASSUME NEW f \in [Idx -> V], NEW i \in Idx PROVE LeavesAt(i, arch, f) \in V
    BY <1>2, <1>b
  <2>2. H \in [[Idx -> V] -> [Idx -> V]]
    BY <2>1
  <2>3. ASSUME NEW f \in [Idx -> V], NEW g \in [Idx -> V], NEW x \in Idx, \A y \in Idx : y < x => f[y] = g[y]
        PROVE  H[f][x] = H[g][x]
    <3>1. Agree(f, g, x)
      BY <1>1, <2>3 DEF Agree
    <3>2. LeavesAt(x, arch, f) = LeavesAt(x, arch, g)
      BY <1>2, <3>1, VariantFound, VariantTyped DEF LeavesAt
    <3> QED
      BY <3>2
  <2>4. Approximates(H, Idx, V)
    <3> HIDE DEF H, V
    <3> QED
      BY <2>2, <2>3 DEF Approximates
  <2>5. Idx \in SUBSET (0..Len(registry)) /\ {} \in V
    BY <1>1
  <2> HIDE DEF H, V
  <2> QED
    BY <1>1, <2>4, <2>5, Recursion
<1>4. PICK f : f \in [Idx -> V] /\ f = [i \in Idx |-> LeavesAt(i, arch, f)]
  BY <1>3 DEF HasFixpoint
<1>5. L = CHOOSE leaves : leaves = [i \in Idx |-> LeavesAt(i, arch, leaves)]
  <2>1. CLayouts(arch) = layouts(arch)
    BY CIsEngine
  <2>2. CLeaves(arch) = LeavesIn(layouts(arch), arch)
    BY <2>1 DEF CLeaves
  <2> QED
    BY <2>2 DEF LeavesIn, LeavesAt
<1>6. L = [i \in Idx |-> LeavesAt(i, arch, L)]
  <2> HIDE DEF L
  <2> QED
    BY <1>4, <1>5
<1> HIDE DEF L
<1>7. \A i \in Idx : L[i] = LeavesAt(i, arch, L)
  BY <1>6
<1> DEFINE T == {i \in Nat : i \in Idx => L[i] \in V}
<1>8. ASSUME NEW i \in Nat, \A m \in Nat : m < i => m \in T PROVE i \in T
  <2> SUFFICES ASSUME i \in Idx PROVE L[i] \in V
    OBVIOUS
  <2>1. \A j \in 1..(i - 1) : L[j] \in V
    <3> TAKE j \in 1..(i - 1)
    <3>1. j \in Nat /\ j < i /\ j \in Idx
      BY <1>1
    <3> QED
      BY <1>8, <3>1
  <2> QED
    BY <1>7, <1>b, <2>1
<1>9. \A i \in Nat : i \in T
  <2> HIDE DEF T
  <2> QED
    BY <1>8, FromBelow
<1>10. \A i \in Idx : i \in Nat
  BY <1>1
<1>11. \A i \in Idx : L[i] \in V
  BY <1>9, <1>10
<1> QED
  BY <1>7, <1>11 DEF L

\* The census of every struct counts its scalars.
LEMMA CensusCounts ==
  ASSUME RegistryOK, NEW arch, NEW class \in Classes
  PROVE  \A i \in Idx : layouts(arch)[i].ok => Counted(CLeaves(arch)[i], layouts(arch)[i].size, censuses(arch)[i][class], class)
<1>a. PICK s : s = layouts(arch)
  OBVIOUS
<1>b. PICK cs : cs = censuses(arch)
  OBVIOUS
<1>c. PICK leaves : leaves = CLeaves(arch)
  OBVIOUS
<1>1. Len(registry) \in Nat /\ Idx = 1..Len(registry)
  BY RegistryFacts
<1> DEFINE T == {i \in Nat : i \in Idx /\ s[i].ok => Counted(leaves[i], s[i].size, cs[i][class], class)}
<1>2. ASSUME NEW i \in Nat, \A m \in Nat : m < i => m \in T PROVE i \in T
  <2> SUFFICES ASSUME i \in Idx, s[i].ok PROVE Counted(leaves[i], s[i].size, cs[i][class], class)
    OBVIOUS
  <2>1. PICK def : def = registry[i].variants[pickVariant(i, arch)]
    OBVIOUS
  <2>2. VariantOK(def, i) /\ Countable(def) /\ s[i] = LayoutFrom(def, s) /\ Before(s, i)
    BY <1>a, <2>1, VariantFound
  <2>3. \A j \in 1..(i - 1) : cs[j] \in Counts /\ (s[j].ok => Counted(leaves[j], s[j].size, cs[j][class], class))
    <3> TAKE j \in 1..(i - 1)
    <3>1. j \in Nat /\ j < i /\ j \in Idx
      BY <1>1
    <3>2. cs[j] \in Counts
      BY <1>b, <3>1, CensusesFacts
    <3> QED
      BY <1>2, <3>1, <3>2
  <2>4. leaves[i] = VariantLeaves(def, LayoutFrom(def, s), s, leaves)
    BY <1>a, <1>c, <2>1, <2>2, LeavesFacts DEF LeavesAt
  <2>5. cs[i] = CensusFrom(def, cs)
    BY <1>a, <1>b, <2>1, CensusesFacts DEF CensusAt
  <2>6. \A j \in 1..(i - 1) : leaves[j] \in SUBSET Scalars
    <3> TAKE j \in 1..(i - 1)
    <3>1. j \in Idx
      BY <1>1
    <3> QED
      BY <1>c, <3>1, LeavesFacts
  <2>7. Counted(VariantLeaves(def, LayoutFrom(def, s), s, leaves), LayoutFrom(def, s).size, CensusFrom(def, cs)[class], class)
    BY <2>2, <2>3, <2>6, VariantCounted
  <2> QED
    BY <2>2, <2>4, <2>5, <2>7
<1>3. \A i \in Nat : i \in T
  <2> HIDE DEF T
  <2> QED
    BY <1>2, FromBelow
<1>4. \A i \in Idx : i \in Nat
  BY <1>1
<1>5. \A i \in Idx : s[i].ok => Counted(leaves[i], s[i].size, cs[i][class], class)
  BY <1>3, <1>4
<1> QED
  BY <1>5, <1>a, <1>b, <1>c

-----------------------------------------------------------------------------
(* The descriptor is what the callees expect *)

\* One to four of one class and of no other, by the counts and by the scalars.
Only(n, c) == n[c] \in 1..4 /\ \A d \in Classes \ {c} : n[d] = 0
Alone(T, c) == T # {} /\ Cardinality(T) <= 4 /\ \A leaf \in T : leaf[2] = c

\* The engine's rule and the calling convention's, side by side.
LEMMA RulesAre ==
  ASSUME NEW n, NEW T
  PROVE  /\ hfa(n) = IF Only(n, "f32") THEN <<n["f32"], "f32">> ELSE IF Only(n, "f64") THEN <<n["f64"], "f64">> ELSE NotHFA
         /\ HFAByRule(T) = IF Alone(T, "f32") THEN <<Cardinality(T), "f32">>
                           ELSE IF Alone(T, "f64") THEN <<Cardinality(T), "f64">> ELSE NotHFA
<1>1. ~(Only(n, "f32") /\ Only(n, "f64"))
  BY DEF Only, Classes
<1>2. ~(Alone(T, "f32") /\ Alone(T, "f64"))
  BY DEF Alone
<1> QED
  BY <1>1, <1>2 DEF hfa, HFAByRule, Only, Alone

\* The counts of a set of scalars tell what the convention asks of it.
LEMMA OnlyAlone ==
  ASSUME NEW T \in SUBSET Scalars, NEW n \in Counts, \A d \in Classes : IsFiniteSet(Of(T, d)) /\ Cardinality(Of(T, d)) = n[d],
         NEW c \in Classes
  PROVE  (Only(n, c) <=> Alone(T, c)) /\ (Only(n, c) => Cardinality(T) = n[c])
<1>1. \A leaf \in T : leaf[2] \in Classes /\ leaf \in Of(T, leaf[2])
  BY DEF Scalars, Of
<1>2. \A d \in Classes : n[d] = 0 <=> Of(T, d) = {}
  <2> TAKE d \in Classes
  <2>1. PICK S : S = Of(T, d)
    OBVIOUS
  <2>2. IsFiniteSet(S) /\ Cardinality(S) = n[d]
    BY <2>1
  <2> QED
    BY <2>1, <2>2, FS_EmptySet
<1>3. (\A d \in Classes \ {c} : n[d] = 0) <=> \A leaf \in T : leaf[2] = c
  <2>1. (\A d \in Classes \ {c} : Of(T, d) = {}) => \A leaf \in T : leaf[2] = c
    BY <1>1
  <2>2. (\A leaf \in T : leaf[2] = c) => \A d \in Classes \ {c} : Of(T, d) = {}
    BY DEF Of
  <2> QED
    BY <1>2, <2>1, <2>2
<1>4. (\A leaf \in T : leaf[2] = c) => Of(T, c) = T
  BY DEF Of
<1>5. (\A leaf \in T : leaf[2] = c) => Cardinality(T) = n[c] /\ (T = {} <=> n[c] = 0)
  BY <1>2, <1>4
<1>6. n[c] \in Nat
  BY CensusFacts
<1>7. PICK x : x = n[c]
  OBVIOUS
<1>8. x \in 1..4 <=> x # 0 /\ x <= 4
  BY <1>6, <1>7
<1>9. Only(n, c) <=> Alone(T, c)
  BY <1>3, <1>5, <1>7, <1>8 DEF Only, Alone
<1> QED
  BY <1>3, <1>5, <1>9 DEF Only

\* The float registers of a struct are the convention's: each scalar was counted
\* once, or one that is no float was counted.
LEMMA FloatsByRule ==
  ASSUME RegistryOK, NEW arch, NEW i \in Idx, layouts(arch)[i].ok,
         ~SomeUnion \/ \E leaf \in CLeaves(arch)[i] : leaf[2] = "other"
  PROVE  hfa(censuses(arch)[i]) = HFAByRule(CLeaves(arch)[i])
<1>1. PICK T : T = CLeaves(arch)[i]
  OBVIOUS
<1>2. PICK n : n = censuses(arch)[i]
  OBVIOUS
<1>3. n \in Counts
  BY <1>2, CensusesFacts
<1>4. \A c \in Classes : Counted(T, layouts(arch)[i].size, n[c], c)
  BY <1>1, <1>2, CensusCounts
<1>5. T \in SUBSET Scalars
  BY <1>4 DEF Counted, Classes
<1>6. CASE \E leaf \in T : leaf[2] = "other"
  <2>1. Of(T, "other") # {}
    BY <1>6 DEF Of
  <2>2. n["other"] > 0
    BY <1>4, <2>1 DEF Counted, Classes
  <2>3. ~Only(n, "f32") /\ ~Only(n, "f64")
    BY <2>2 DEF Only, Classes
  <2>4. ~Alone(T, "f32") /\ ~Alone(T, "f64")
    BY <1>6 DEF Alone
  <2>5. hfa(n) = NotHFA /\ HFAByRule(T) = NotHFA
    BY <2>3, <2>4, RulesAre
  <2> QED
    BY <1>1, <1>2, <2>5
<1>7. CASE ~SomeUnion
  <2>1. \A d \in Classes : IsFiniteSet(Of(T, d)) /\ Cardinality(Of(T, d)) = n[d]
    BY <1>4, <1>7 DEF Counted, Fills
  <2>2. \A c \in {"f32", "f64"} : (Only(n, c) <=> Alone(T, c)) /\ (Only(n, c) => Cardinality(T) = n[c])
    BY <1>3, <1>5, <2>1, OnlyAlone DEF Classes
  <2>3. hfa(n) = HFAByRule(T)
    BY <2>2, RulesAre
  <2> QED
    BY <1>1, <1>2, <2>3
<1> QED
  BY <1>1, <1>6, <1>7

\* A struct that is emitted once has the same scalars on both architectures.
LEMMA VariantLeavesShared ==
  ASSUME NEW def, NEW i, VariantOK(def, i), ~embedsArchStruct(def), NEW s, NEW t, Before(s, i), Before(t, i),
         NEW leaves, \A j \in 1..(i - 1) : leaves[j] \in SUBSET Scalars, NEW others, \A j \in 1..(i - 1) : others[j] \in SUBSET Scalars,
         \A j \in 1..(i - 1) : j \notin archStructs /\ s[j].ok => t[j] = s[j] /\ others[j] = leaves[j], LayoutFrom(def, s).ok, NEW l
  PROVE  VariantLeaves(def, l, s, leaves) = VariantLeaves(def, l, t, others)
<1>a. PICK ms, mt : ms = nestedLayouts(def, s) /\ mt = nestedLayouts(def, t)
  OBVIOUS
<1>b. PICK within, outside : within = Within(def, s, leaves) /\ outside = Within(def, t, others)
  OBVIOUS
<1>c. PICK Q : Q = Calm(def, s)
  OBVIOUS
<1>1. Nesting(def) /\ Listed(def, i) /\ \A n \in Q : n \in DOMAIN def.nested /\ ms[n].ok
  BY <1>a, <1>c DEF VariantOK, Calm
<1>2. CalmFields(def, i, def, s) /\ \A n \in Q : mt[n] = ms[n] /\ CalmFields(def.nested[n], i, def, s)
  BY <1>a, <1>c, VariantShared
<1>3. ASSUME NEW d, CalmFields(d, i, def, s)
      PROVE  /\ \A k \in DOMAIN d.fields : d.fields[k].kind = "ref" =>
                  s[d.fields[k].to] = t[d.fields[k].to] /\ leaves[d.fields[k].to] = others[d.fields[k].to]
             /\ \A k \in DOMAIN d.fields : d.fields[k].kind = "nested" => d.fields[k].to \in Q /\ ms[d.fields[k].to] = mt[d.fields[k].to]
  BY <1>2, <1>3, <1>c DEF CalmFields, SharedRefs
<1> DEFINE T == {n \in DOMAIN def.nested : n \in Q => within[n] = outside[n]}
<1>4. ASSUME NEW n \in DOMAIN def.nested, \A k \in Inner(def, n) : k \in T PROVE n \in T
  <2> SUFFICES ASSUME n \in Q PROVE within[n] = outside[n]
    OBVIOUS
  <2>1. PICK d : d = def.nested[n]
    OBVIOUS
  <2>2. ms[n].ok /\ mt[n] = ms[n] /\ CalmFields(d, i, def, s)
    BY <1>1, <1>2, <2>1
  <2>3. within[n] = MemberLeaves(d, ms[n], s, ms, leaves, within) /\ outside[n] = MemberLeaves(d, mt[n], t, mt, others, outside)
    <3>1. within[n] = WithinAt(def, s, leaves, n, within) /\ outside[n] = WithinAt(def, t, others, n, outside)
      BY <1>b, WithinFacts
    <3> QED
      BY <1>a, <2>1, <2>2, <3>1 DEF WithinAt
  <2>4. Listed(d, i) /\ \A k \in DOMAIN d.fields : d.fields[k].kind = "nested" => d.fields[k].to \in Inner(def, n)
    BY <1>1, <2>1 DEF VariantOK, Nesting
  <2>5. \A k \in DOMAIN d.fields : d.fields[k].kind = "ref" =>
          s[d.fields[k].to] = t[d.fields[k].to] /\ leaves[d.fields[k].to] = others[d.fields[k].to]
    BY <1>3, <2>2
  <2>6. \A k \in DOMAIN d.fields : d.fields[k].kind = "nested" =>
          ms[d.fields[k].to] = mt[d.fields[k].to] /\ within[d.fields[k].to] = outside[d.fields[k].to]
    BY <1>3, <1>4, <2>2, <2>4
  <2>7. MemberLeaves(d, ms[n], s, ms, leaves, within) = MemberLeaves(d, ms[n], t, mt, others, outside)
    BY <2>4, <2>5, <2>6, ListShared
  <2> QED
    BY <2>2, <2>3, <2>7
<1>5. \A n \in DOMAIN def.nested : n \in T
  <2> HIDE DEF T
  <2> QED
    BY <1>1, <1>4, FromInside
<1>6. \A k \in DOMAIN def.fields : def.fields[k].kind = "nested" =>
        ms[def.fields[k].to] = mt[def.fields[k].to] /\ within[def.fields[k].to] = outside[def.fields[k].to]
  BY <1>1, <1>2, <1>3, <1>5
<1>7. \A k \in DOMAIN def.fields : def.fields[k].kind = "ref" =>
        s[def.fields[k].to] = t[def.fields[k].to] /\ leaves[def.fields[k].to] = others[def.fields[k].to]
  BY <1>2, <1>3
<1>8. MemberLeaves(def, l, s, ms, leaves, within) = MemberLeaves(def, l, t, mt, others, outside)
  BY <1>1, <1>6, <1>7, ListShared
<1> QED
  BY <1>8, <1>a, <1>b, VariantLeavesIs

\* So the amd64 census is right for arm64.
LEMMA SharedLeaves ==
  ASSUME Inv, phase \notin {"arch", "contain"}, NEW arch \in emitArches
  PROVE  \A i \in Idx : i \notin archStructs /\ layouts("amd64")[i].ok => CLeaves(arch)[i] = CLeaves("amd64")[i]
<1>a. PICK A, B : A = layouts("amd64") /\ B = layouts("arm64")
  OBVIOUS
<1>b. PICK X, Y : X = CLeaves("amd64") /\ Y = CLeaves("arm64")
  OBVIOUS
<1> DEFINE T == {i \in Nat : i \in Idx /\ i \notin archStructs /\ A[i].ok => Y[i] = X[i]}
<1>1. Len(registry) \in Nat /\ Idx = 1..Len(registry)
  BY RegistryFacts DEF Inv
<1>2. \A i \in Idx : i \notin archStructs /\ A[i].ok => B[i] = A[i]
  BY <1>a, SharedLayout DEF emitArches
<1>3. ASSUME NEW i \in Nat, \A m \in Nat : m < i => m \in T PROVE i \in T
  <2> SUFFICES ASSUME i \in Idx, i \notin archStructs, A[i].ok PROVE Y[i] = X[i]
    OBVIOUS
  <2>a. PICK v : v = pickVariant(i, "amd64")
    OBVIOUS
  <2>b. PICK def : def = registry[i].variants[v]
    OBVIOUS
  <2>1. B[i] = A[i] /\ B[i].ok
    BY <1>2
  <2>2. v # 0 /\ VariantOK(def, i) /\ A[i] = LayoutFrom(def, A) /\ Before(A, i)
    BY <1>a, <2>a, <2>b, VariantFound DEF Inv
  <2>3. pickVariant(i, "arm64") = v /\ Before(B, i)
    <3>1. pickVariant(i, "arm64") # 0 /\ Before(B, i)
      BY <1>a, <2>1, VariantFound DEF Inv
    <3> QED
      BY <2>2, <2>a, <3>1 DEF Inv, IInv, ArchInv
  <2>4. ~embedsArchStruct(def)
    <3>1. ~Inherits(i)
      BY DEF Inv, IInv, ArchInv
    <3> QED
      BY <2>2, <2>a, <2>b, <3>1 DEF Inherits, emitArches
  <2>5. \A j \in 1..(i - 1) : j \notin archStructs /\ A[j].ok => B[j] = A[j] /\ Y[j] = X[j]
    <3> TAKE j \in 1..(i - 1)
    <3>1. j \in Nat /\ j < i /\ j \in Idx
      BY <1>1
    <3> QED
      BY <1>2, <1>3, <3>1
  <2>c. (\A j \in 1..(i - 1) : X[j] \in SUBSET Scalars) /\ \A j \in 1..(i - 1) : Y[j] \in SUBSET Scalars
    <3>1. \A j \in 1..(i - 1) : j \in Idx
      BY <1>1
    <3> QED
      BY <1>b, <3>1, LeavesFacts DEF Inv
  <2>6. VariantLeaves(def, A[i], A, X) = VariantLeaves(def, A[i], B, Y)
    BY <2>2, <2>3, <2>4, <2>5, <2>c, VariantLeavesShared
  <2>7. X[i] = VariantLeaves(def, A[i], A, X)
    BY <1>a, <1>b, <2>a, <2>b, LeavesFacts DEF Inv, LeavesAt
  <2>8. Y[i] = VariantLeaves(def, B[i], B, Y)
    BY <1>a, <1>b, <2>1, <2>3, <2>b, LeavesFacts DEF Inv, LeavesAt
  <2> QED
    BY <2>1, <2>6, <2>7, <2>8
<1>4. \A i \in Nat : i \in T
  <2> HIDE DEF T
  <2> QED
    BY <1>3, FromBelow
<1>5. \A i \in Idx : i \notin archStructs /\ A[i].ok => Y[i] = X[i]
  BY <1>1, <1>4
<1> QED
  BY <1>5, <1>a, <1>b DEF emitArches

\* DescriptorIsABI holds: the one descriptor of a struct is the one that the callees
\* of both architectures expect, whatever the struct embeds.
THEOREM DescriptorIsABICorrect == Spec => []DescriptorIsABI
<1>1. Inv => DescriptorIsABI
  <2> SUFFICES ASSUME Inv, phase = "done", NEW i \in Passed,
                      ~SomeUnion \/ \E leaf \in CLeaves("amd64")[i] : leaf[2] = "other"
               PROVE  ByRule(i)
    BY DEF DescriptorIsABI
  <2>1. Inv /\ RegistryOK
    BY DEF Inv
  <2>2. i \in Idx /\ i \notin archStructs /\ layouts("amd64")[i].ok
    BY DEF Passed, There, Inv, IInv, TypeOK, emitArches
  <2>a. PICK l : l = layouts("amd64")[i]
    OBVIOUS
  <2>b. PICK floats : floats = HFAByRule(CLeaves("amd64")[i])
    OBVIOUS
  <2>3. hfa(censuses("amd64")[i]) = floats
    BY <2>1, <2>2, <2>b, FloatsByRule
  <2>4. Descriptor(i) = IF l.size \in {1, 2, 4, 8} /\ floats = NotHFA THEN <<"word", l.size>> ELSE <<"struct", l.size, l.align, floats>>
    BY <2>3, <2>a DEF Descriptor, Describe, registerSized
  <2>5. ASSUME NEW arch \in emitArches PROVE CLayouts(arch)[i] = l /\ HFAByRule(CLeaves(arch)[i]) = floats
    <3>1. CLayouts(arch)[i] = layouts(arch)[i]
      BY <2>1, CIsEngine
    <3>2. layouts(arch)[i] = l
      BY <2>1, <2>2, <2>a, SharedLayout
    <3>3. CLeaves(arch)[i] = CLeaves("amd64")[i]
      BY <2>1, <2>2, SharedLeaves
    <3> QED
      BY <3>1, <3>2, <3>3, <2>b
  <2> QED
    BY <2>4, <2>5 DEF ByRule
<1> QED
  BY <1>1, InvariantCorrect, PTL
==============================================================================
