------------------------------ MODULE Structs ------------------------------
(***************************************************************************)
(* How native structs become Go structs: internal/codegen/emit/raw,         *)
(* sizes.go, archstructs.go, the struct half of types.go, and               *)
(* computeSkippedTypes of generator.go.                                     *)
(*                                                                          *)
(* Two fixpoints come first: which structs differ between amd64 and arm64   *)
(* and are emitted once per architecture, and which structs cannot be       *)
(* emitted at all, so that references to them degrade. Then each struct is  *)
(* emitted field by field, or as an opaque blob where Go's own layout of    *)
(* the fields would differ from C's. The same layouts, with a census of the  *)
(* scalars a struct flattens to, make the descriptors of by-value arguments. *)
(***************************************************************************)
EXTENDS Naturals, Sequences, FiniteSets, FiniteSetsExt

CONSTANT Registries     \* the metadata the run tries

(* A registry is a sequence of structs; a by-value reference points to an    *)
(* earlier one, as C demands. A struct has a namespace and variants, the     *)
(* map entry first and then its ArchVariants. A variant lists its            *)
(* architectures (none: all), its packing (0: none), its fields and its      *)
(* anonymous nested types, of every depth and the innermost first: parent is *)
(* the one that holds it, 0 the struct; free says that its name is not taken. *)
Field == [kind : {"native", "pointer", "ref", "nested"}, size : Nat, align : Nat,
          class : {"f32", "f64", "other"}, to : Nat, len : Nat \ {0}, severed : BOOLEAN]
Nested == [fields : Seq(Field), pack : Nat, union : BOOLEAN, free : BOOLEAN, parent : Nat]
Variant == [arches : SUBSET {"x86", "amd64", "arm64"}, fields : Seq(Field), pack : Nat,
            union : BOOLEAN, nested : Seq(Nested)]
Struct == [ns : Nat \ {0}, variants : Seq(Variant)]

\* The NestedTypes of the struct (0) or of its nested type n.
Inner(def, n) == {m \in DOMAIN def.nested : def.nested[m].parent = n}

\* Only a reference to another namespace is severed (resolveApiRef).
ASSUME RegistriesAssumption ==
  \A r \in Registries :
    /\ r \in Seq(Struct)
    /\ \A i \in DOMAIN r : \A v \in DOMAIN r[i].variants :
         LET def == r[i].variants[v]
             legal(f, inner) == /\ f.kind = "ref" => f.to \in 1..(i - 1)
                                /\ f.kind = "pointer" => f.to \in 0..Len(r)
                                /\ f.kind = "nested" => f.to \in inner
                                /\ f.severed => f.to # 0 /\ r[f.to].ns # r[i].ns
         IN  /\ \A k \in DOMAIN def.fields : legal(def.fields[k], Inner(def, 0))
             /\ \A n \in DOMAIN def.nested :
                  /\ def.nested[n].parent \in {0} \cup (n + 1)..Len(def.nested)
                  /\ \A k \in DOMAIN def.nested[n].fields : legal(def.nested[n].fields[k], Inner(def, n))

\* Namespaces are numbered without a gap.
ASSUME NamespacesAssumption ==
  \A r \in Registries : \A i \in DOMAIN r : \A n \in 1..r[i].ns : \E j \in DOMAIN r : r[j].ns = n

\* The sizes and alignments of nativeLayouts, and the packing sizes a winmd can
\* hold.
ASSUME AlignmentAssumption ==
  LET aligned(d) ==
        /\ d.pack \in {0, 1, 2, 4, 8, 16, 32, 64, 128}
        /\ \A k \in DOMAIN d.fields :
             d.fields[k].kind = "native" => d.fields[k].size > 0 /\ d.fields[k].align \in {1, 2, 4, 8}
  IN  \A r \in Registries : \A i \in DOMAIN r : \A v \in DOMAIN r[i].variants :
        /\ aligned(r[i].variants[v])
        /\ \A n \in DOMAIN r[i].variants[v].nested : aligned(r[i].variants[v].nested[n])

VARIABLES
  registry,
  phase,        \* "arch", "contain", "skip", "emit", "done"
  archStructs,  \* emitted once per architecture
  skipped,      \* mapper.SkippedTypes
  round, grew,  \* computeSkippedTypes' loop
  ns,           \* the namespace it, or the emission, is at
  emitted       \* arch -> struct -> what is declared

vars == <<registry, phase, archStructs, skipped, round, grew, ns, emitted>>

emitArches == {"amd64", "arm64"}
Idx == DOMAIN registry
Namespaces == {registry[i].ns : i \in Idx}
InNamespace(n) == {i \in Idx : registry[i].ns = n}

Init ==
  /\ registry \in Registries /\ phase = "arch" /\ archStructs = {} /\ skipped = {}
  /\ round = 0 /\ grew = FALSE /\ ns = 1
  /\ emitted = [arch \in emitArches |-> [i \in {} |-> 0]]

-----------------------------------------------------------------------------
(* The layout engine *)

\* The first variant that lists want, 0 when none does.
find(i, want) ==
  LET listing == {v \in DOMAIN registry[i].variants :
                    registry[i].variants[v].arches = {} \/ want \in registry[i].variants[v].arches}
  IN  IF listing = {} THEN 0 ELSE Min(listing)

pickVariant(i, arch) ==
  IF find(i, arch) = 0 /\ arch = "arm64" THEN find(i, "amd64") ELSE find(i, arch)

roundUp(value, multiple) == ((value + multiple - 1) \div multiple) * multiple

NoLayout == [ok |-> FALSE, size |-> 0, align |-> 1, offsets |-> << >>]
Layout(size, align) == [ok |-> TRUE, size |-> size, align |-> align, offsets |-> << >>]
wordLayout == Layout(8, 8)

ArrayOf(l, n) == [l EXCEPT !.size = n * l.size]

\* structLayoutOf, from the layouts of the fields; pack 0 does not clamp.
structLayoutOf(ls, union, pack) ==
  LET n == Len(ls)
      align(k) == IF pack # 0 /\ pack < ls[k].align THEN pack ELSE ls[k].align
      end[k \in 0..n] ==
        IF k = 0 THEN 0
        ELSE IF union THEN Max({end[k - 1], ls[k].size})
        ELSE roundUp(end[k - 1], align(k)) + ls[k].size
      most == Max({1} \cup {align(k) : k \in 1..n})
  IN  IF \E k \in 1..n : ~ls[k].ok THEN NoLayout
      ELSE [ok |-> TRUE, size |-> roundUp(end[n], most), align |-> most,
            offsets |-> [k \in 1..n |-> IF union THEN 0 ELSE roundUp(end[k - 1], align(k))]]

\* layoutOf, given the layouts of the other structs and of the nested types.
fieldLayout(f, structs, nested) ==
  ArrayOf(CASE f.kind = "native"  -> Layout(f.size, f.align)
            [] f.kind = "pointer" -> wordLayout
            [] f.kind = "ref"     -> structs[f.to]
            [] f.kind = "nested"  -> nested[f.to],
          f.len)

fieldLayouts(def, structs, nested) ==
  [k \in DOMAIN def.fields |-> fieldLayout(def.fields[k], structs, nested)]
nestedLayouts(def, structs) ==
  LET layout[n \in DOMAIN def.nested] ==
        structLayoutOf(fieldLayouts(def.nested[n], structs, layout), def.nested[n].union, def.nested[n].pack)
  IN  layout

\* The C layout of every struct while the engine is set to arch.
layouts(arch) ==
  LET layout[i \in Idx] ==
        LET v == pickVariant(i, arch) IN
        IF v = 0 THEN NoLayout
        ELSE LET def == registry[i].variants[v] IN
             structLayoutOf(fieldLayouts(def, layout, nestedLayouts(def, layout)), def.union, def.pack)
  IN  layout

-----------------------------------------------------------------------------
(* By-value arguments and returns (shapeParam, shapeReturn) *)

\* The census that layoutOf and structLayoutOf take along: how many scalars of
\* each class a field or a struct flattens to. A union counts all its members.
Classes == {"f32", "f64", "other"}
Census(f32, f64, other) == [f32 |-> f32, f64 |-> f64, other |-> other]
Scalar(class) == [Census(0, 0, 0) EXCEPT ![class] = 1]

\* Mutant of fieldCensus: an array counts as one element.
fieldCensus_OneElement(f, structs, nested) ==
  CASE f.kind = "native" -> Scalar(f.class) [] f.kind = "pointer" -> Scalar("other")
    [] f.kind = "ref" -> structs[f.to]      [] f.kind = "nested" -> nested[f.to]

fieldCensus(f, structs, nested) ==
  LET one == CASE f.kind = "native" -> Scalar(f.class) [] f.kind = "pointer" -> Scalar("other")
               [] f.kind = "ref" -> structs[f.to]      [] f.kind = "nested" -> nested[f.to]
  IN  Census(f.len * one.f32, f.len * one.f64, f.len * one.other)

fieldCensuses(def, structs, nested) ==
  [k \in DOMAIN def.fields |-> fieldCensus(def.fields[k], structs, nested)]

\* structLayoutOf again, from the censuses of the fields.
structCensus(cs) ==
  LET sum[k \in 0..Len(cs)] ==
        IF k = 0 THEN Census(0, 0, 0)
        ELSE LET a == sum[k - 1] b == cs[k] IN Census(a.f32 + b.f32, a.f64 + b.f64, a.other + b.other)
  IN  sum[Len(cs)]
nestedCensuses(def, structs) ==
  LET census[n \in DOMAIN def.nested] == structCensus(fieldCensuses(def.nested[n], structs, census))
  IN  census

\* Of a struct without a layout, zero.
censuses(arch) ==
  LET l == layouts(arch)
      census[i \in Idx] ==
        IF ~l[i].ok THEN Census(0, 0, 0)
        ELSE LET def == registry[i].variants[pickVariant(i, arch)]
             IN  structCensus(fieldCensuses(def, census, nestedCensuses(def, census)))
  IN  census

\* How many floats an ARM64 homogeneous float aggregate has, and of which class;
\* 0 when the struct is none.
NotHFA == <<0, "f32">>
hfa(census) ==
  LET only(c) == census[c] \in 1..4 /\ \A d \in Classes \ {c} : census[d] = 0
  IN  CASE only("f32") -> <<census["f32"], "f32">>
        [] only("f64") -> <<census["f64"], "f64">>
        [] OTHER       -> NotHFA

registerSized(l) == l.size \in {1, 2, 4, 8}

\* A word for a small aggregate of integers, win32.Struct(size, align, hfa, hfa64)
\* for any other.
Describe(l, floats) ==
  IF registerSized(l) /\ floats = NotHFA THEN <<"word", l.size>> ELSE <<"struct", l.size, l.align, floats>>

\* Of a struct with a layout. The struct passes are over: the engine is set to
\* amd64, whichever architecture the caller will run on.
Descriptor(i) == Describe(layouts("amd64")[i], hfa(censuses("amd64")[i]))

-----------------------------------------------------------------------------
(* computeArchStructs *)

\* A field of the struct, or of a nested type it holds, is an architecture-
\* specific struct.
embedsArchStruct(def) ==
  LET byValue(d, nested) == \E k \in DOMAIN d.fields :
        \/ d.fields[k].kind = "ref" /\ d.fields[k].to \in archStructs
        \/ d.fields[k].kind = "nested" /\ nested[d.fields[k].to]
      embeds[n \in DOMAIN def.nested] == byValue(def.nested[n], embeds)
  IN  byValue(def, embeds)

\* Two different layouts in the metadata.
ArchDirect ==
  /\ phase = "arch" /\ phase' = "contain"
  /\ archStructs' = {i \in Idx : LET a == pickVariant(i, "amd64") b == pickVariant(i, "arm64")
                                 IN  a # 0 /\ b # 0 /\ a # b}
  /\ UNCHANGED <<registry, skipped, round, grew, ns, emitted>>

Inherits(i) ==
  /\ i \notin archStructs
  /\ \E arch \in emitArches : LET v == pickVariant(i, arch) IN
       v # 0 /\ embedsArchStruct(registry[i].variants[v])

\* The loop over the struct index, in the map's random order.
ArchContainer ==
  /\ phase = "contain"
  /\ \E i \in Idx : Inherits(i) /\ archStructs' = archStructs \cup {i}
  /\ UNCHANGED <<registry, phase, skipped, round, grew, ns, emitted>>

ArchDone ==
  /\ phase = "contain" /\ \A i \in Idx : ~Inherits(i)
  /\ phase' = "skip"
  /\ UNCHANGED <<registry, archStructs, skipped, round, grew, ns, emitted>>

-----------------------------------------------------------------------------
(* buildStructTree *)

\* A Go type, by its size and alignment or by the struct it names, as an array.
Unresolved == [kind |-> "none", size |-> 0, align |-> 1, to |-> 0, len |-> 1]
GoMemory(size, align) == [kind |-> "memory", size |-> size, align |-> align, to |-> 0, len |-> 1]
GoNamed(kind, to, len) == [kind |-> kind, size |-> 8, align |-> 8, to |-> to, len |-> len]

\* layoutBlobType and opaqueBlobFields: an array of the unsigned integer the
\* alignment calls for.
blob(l) ==
  LET element == IF l.align \in {2, 4, 8} THEN l.align ELSE 1
  IN  IF l.ok /\ l.size # 0 THEN GoMemory((l.size \div element) * element, element) ELSE Unresolved

\* A reference that must not name its type: GoType finds it severed or among
\* lost, the skipped types.
Degraded(f, lost) == f.severed \/ f.to \in lost

fieldGoType(f, structs, emittedNested, lost) ==
  CASE f.kind = "native"  -> GoMemory(f.size * f.len, f.align)
    [] f.kind = "pointer" -> IF Degraded(f, lost) \/ f.to = 0 THEN GoMemory(8 * f.len, 8)
                             ELSE GoNamed("pointer", f.to, f.len)
    [] f.kind = "nested"  -> IF f.to \in emittedNested THEN GoNamed("nested", f.to, f.len) ELSE Unresolved
    [] f.kind = "ref"     -> IF Degraded(f, lost) THEN blob(ArrayOf(structs[f.to], f.len))
                             ELSE GoNamed("ref", f.to, f.len)

\* Mutant of sameLayout: a packing that only moves the alignment is missed.
sameLayout_SizeOnly(a, b) == a.size = b.size

sameLayout(a, b) == a.size = b.size /\ a.align = b.align /\ a.offsets = b.offsets

\* One declaration, by what its fields are: a blob for a union and for a packed
\* struct that Go would lay out differently. No fields and not ok: skipped.
Declare(def, ls, goTypes) ==
  LET packed  == structLayoutOf(ls, def.union, def.pack)
      natural == structLayoutOf(ls, def.union, 0)
      opaque  == def.union \/ (packed.ok /\ natural.ok /\ ~sameLayout(packed, natural))
      fields  == IF opaque THEN <<blob(packed)>> ELSE goTypes
  IN  [ok |-> \A k \in DOMAIN fields : fields[k] # Unresolved, opaque |-> opaque, fields |-> fields]

\* The declaration of d, the struct or one of its nested types; a field that names
\* a nested type needs it among emittedNested.
DeclareOne(d, def, structs, emittedNested, lost) ==
  Declare(d, fieldLayouts(d, structs, nestedLayouts(def, structs)),
          [k \in DOMAIN d.fields |-> fieldGoType(d.fields[k], structs, emittedNested, lost)])

\* What building a nested type n returns, declared as one: itself unless it fails,
\* and what building its own nested types returned, which a blob never tries.
Sub(n, one, inner) == (IF one.ok THEN {n} ELSE {}) \cup (IF one.opaque THEN {} ELSE inner)

\* Mutant of NestedEmitted: what becomes of the nested types is not looked at.
NestedEmitted_All(def, n, sub) == Inner(def, n)

\* The nested types that returned any, of the struct (0) or of its nested type n.
NestedEmitted(def, n, sub) == {m \in Inner(def, n) : sub[m] # {}}

Subs(def, structs, lost) ==
  LET sub[n \in DOMAIN def.nested] ==
        IF ~def.nested[n].free THEN {}
        ELSE Sub(n, DeclareOne(def.nested[n], def, structs, NestedEmitted(def, n, sub), lost),
                 UNION {sub[m] : m \in Inner(def, n)})
  IN  sub

\* The nested types, then the struct. Nested types stay when the struct is
\* skipped.
buildStructTree(def, structs, lost) ==
  LET sub  == Subs(def, structs, lost)
      self == DeclareOne(def, def, structs, NestedEmitted(def, 0, sub), lost)
      kept == IF self.opaque THEN {} ELSE UNION {sub[m] : m \in Inner(def, 0)}
  IN  [ok |-> self.ok, self |-> self,
       nested |-> [n \in kept |-> DeclareOne(def.nested[n], def, structs, NestedEmitted(def, n, sub), lost)]]

\* A struct without a variant for the architecture is skipped.
Build(i, arch) ==
  LET build(v) == IF v = 0 THEN [ok |-> FALSE, nested |-> << >>]
                  ELSE buildStructTree(registry[i].variants[v], layouts(arch), skipped)
  IN  build(pickVariant(i, arch))

\* What the package declares for the architecture: buildStructModels goes by the
\* amd64 layout, buildArchStructModels by each architecture's own.
Declared(i, arch) == Build(i, IF i \in archStructs THEN arch ELSE "amd64")

-----------------------------------------------------------------------------
(* computeSkippedTypes, and the emission *)

\* Mutant of MaxRounds: too few.
MaxRounds_Nine == 9

MaxRounds == 10

SkipNamespace ==
  /\ phase = "skip" /\ ns \in Namespaces
  /\ LET lost == {i \in InNamespace(ns) \ skipped : \A arch \in emitArches : ~Declared(i, arch).ok}
     IN  skipped' = skipped \cup lost /\ grew' = (grew \/ lost # {})
  /\ ns' = ns + 1
  /\ UNCHANGED <<registry, phase, archStructs, round, emitted>>

NextRound == grew /\ round + 1 < MaxRounds

SkipRound ==
  /\ phase = "skip" /\ ns \notin Namespaces
  /\ IF NextRound THEN round' = round + 1 /\ UNCHANGED phase ELSE phase' = "emit" /\ UNCHANGED round
  /\ grew' = FALSE /\ ns' = 1
  /\ UNCHANGED <<registry, archStructs, skipped, emitted>>

EmitNamespace ==
  /\ phase = "emit" /\ ns \in Namespaces
  /\ emitted' = [arch \in emitArches |->
       [i \in DOMAIN emitted[arch] \cup InNamespace(ns) |->
          IF i \in InNamespace(ns) THEN Declared(i, arch) ELSE emitted[arch][i]]]
  /\ ns' = ns + 1
  /\ UNCHANGED <<registry, phase, archStructs, skipped, round, grew>>

EmitDone ==
  /\ phase = "emit" /\ ns \notin Namespaces /\ phase' = "done"
  /\ UNCHANGED <<registry, archStructs, skipped, round, grew, ns, emitted>>

Next ==
  \/ ArchDirect \/ ArchContainer \/ ArchDone
  \/ SkipNamespace \/ SkipRound
  \/ EmitNamespace \/ EmitDone

Spec == Init /\ [][Next]_vars

-----------------------------------------------------------------------------
(* What C and the Go compiler do, stated apart from the layout engine *)

\* The first multiple of a from x on.
Least(x, a) == CHOOSE y \in x..(x + a - 1) : y % a = 0

\* Members at their offsets, in order and as low as their alignments allow.
Place(ls, union, pack) ==
  LET n == Len(ls)
      align(k) == IF pack = 0 THEN ls[k].align ELSE Min({pack, ls[k].align})
      offset[k \in 1..n] ==
        IF k = 1 \/ union THEN 0 ELSE Least(offset[k - 1] + ls[k - 1].size, align(k))
      most == Max({1} \cup {align(k) : k \in 1..n})
      last == Max({0} \cup {offset[k] + ls[k].size : k \in 1..n})
  IN  IF \E k \in 1..n : ~ls[k].ok THEN NoLayout
      ELSE [ok |-> TRUE, size |-> Least(last, most), align |-> most, offsets |-> [k \in 1..n |-> offset[k]]]

\* sizeof, alignof and offsetof in the Windows headers for arch, one definition
\* after the other, the innermost first.
CNested(def, structs) ==
  LET layout[n \in DOMAIN def.nested] ==
        Place(fieldLayouts(def.nested[n], structs, layout), def.nested[n].union, def.nested[n].pack)
  IN  layout
CLayouts(arch) ==
  LET upTo[i \in 0..Len(registry)] ==
        IF i = 0 THEN << >>
        ELSE LET v == pickVariant(i, arch) def == registry[i].variants[v]
                 before == upTo[i - 1]
             IN  Append(before, IF v = 0 THEN NoLayout
                                ELSE Place(fieldLayouts(def, before, CNested(def, before)), def.union, def.pack))
  IN  upTo[Len(registry)]

\* Scalars <<offset, class>> moved by x, and of n elements in a row.
At(x, leaves) == {<<x + leaf[1], leaf[2]>> : leaf \in leaves}
Row(size, n, one) == UNION {At(e * size, one) : e \in 0..(n - 1)}

\* The scalars of a field and of a list of fields laid out by l, given the layouts
\* and the scalars of the structs and of the nested types. What overlaps in a
\* union is met once.
FieldLeaves(f, structs, nested, leaves, within) ==
  CASE f.kind = "native"  -> Row(f.size, f.len, {<<0, f.class>>})
    [] f.kind = "pointer" -> Row(8, f.len, {<<0, "other">>})
    [] f.kind = "ref"     -> Row(structs[f.to].size, f.len, leaves[f.to])
    [] f.kind = "nested"  -> Row(nested[f.to].size, f.len, within[f.to])
MemberLeaves(d, l, structs, nested, leaves, within) ==
  UNION {At(l.offsets[k], FieldLeaves(d.fields[k], structs, nested, leaves, within)) : k \in DOMAIN d.fields}

VariantLeaves(def, l, structs, leaves) ==
  LET nested == CNested(def, structs)
      within[n \in DOMAIN def.nested] ==
        IF ~nested[n].ok THEN {} ELSE MemberLeaves(def.nested[n], nested[n], structs, nested, leaves, within)
  IN  MemberLeaves(def, l, structs, nested, leaves, within)

\* The scalars of every struct laid out as c says.
LeavesIn(c, arch) ==
  LET leaves[i \in Idx] ==
        IF ~c[i].ok THEN {} ELSE VariantLeaves(registry[i].variants[pickVariant(i, arch)], c[i], c, leaves)
  IN  leaves

CLeaves(arch) == LeavesIn(CLayouts(arch), arch)

\* The ARM64 rule: one to four elements, all of one floating-point type.
HFAByRule(leaves) ==
  LET of(c) == leaves # {} /\ Cardinality(leaves) <= 4 /\ \A leaf \in leaves : leaf[2] = c
  IN  CASE of("f32") -> <<Cardinality(leaves), "f32">>
        [] of("f64") -> <<Cardinality(leaves), "f64">>
        [] OTHER     -> NotHFA

\* The Go compiler's layout of a type, of a declaration, and of the declarations
\* for arch. A type that is not declared has none.
TypeLayout(t, structs, nested) ==
  ArrayOf(CASE t.kind = "memory"  -> Layout(t.size, t.align)
            [] t.kind = "pointer" -> wordLayout
            [] t.kind = "ref"     -> structs[t.to]
            [] t.kind = "nested"  -> IF t.to \in DOMAIN nested THEN nested[t.to] ELSE NoLayout
            [] OTHER              -> NoLayout,
          t.len)
DeclLayout(m, structs, nested) ==
  Place([k \in DOMAIN m.fields |-> TypeLayout(m.fields[k], structs, nested)], FALSE, 0)
TreeLayout(d, structs) ==
  LET layout[n \in DOMAIN d.nested] == DeclLayout(d.nested[n], structs, layout)
  IN  DeclLayout(d.self, structs, layout)

\* The structs there are, as opposed to those of which nested types are left.
There(arch) == {i \in DOMAIN emitted[arch] : emitted[arch][i].ok}

GoLayouts(arch) ==
  LET layout[i \in Idx] == IF i \in There(arch) THEN TreeLayout(emitted[arch][i], layout) ELSE NoLayout
  IN  layout

-----------------------------------------------------------------------------
(* Properties *)

\* Sets of structs, a round below the bound, a namespace or one past the last,
\* and declarations of structs only.
TypeOK ==
  /\ phase \in {"arch", "contain", "skip", "emit", "done"}
  /\ archStructs \subseteq Idx /\ skipped \subseteq Idx
  /\ round \in 0..(MaxRounds - 1) /\ grew \in BOOLEAN /\ ns \in 1..(Cardinality(Namespaces) + 1)
  /\ \A arch \in emitArches : DOMAIN emitted[arch] \subseteq Idx

\* The structs that what is declared of d names, by value and through pointers,
\* and its nested types that it names.
Declarations(d) == {d.nested[n] : n \in DOMAIN d.nested} \cup (IF d.ok THEN {d.self} ELSE {})
NamedBy(m, kinds) == {m.fields[k].to : k \in {j \in DOMAIN m.fields : m.fields[j].kind \in kinds}}
Names(d) == UNION {NamedBy(m, {"ref", "pointer"}) : m \in Declarations(d)}
NestedNames(d) == UNION {NamedBy(m, {"nested"}) : m \in Declarations(d)}

Other(arch) == IF arch = "amd64" THEN "arm64" ELSE "amd64"
Definition(i, arch) == registry[i].variants[pickVariant(i, IF i \in archStructs THEN arch ELSE "amd64")]

\* No declaration, those that a skipped struct leaves included, names a type that
\* is not declared (computeSkippedTypes: "so references to them degrade instead of
\* naming an undefined type"). Of the nested types, none that holds no others: the
\* rest is NestedDefined. A struct that only one architecture's variant of an
\* architecture-specific struct can be emitted for is not counted as skipped, and
\* is left out here.
NothingUndefined ==
  phase = "done" => \A arch \in emitArches : \A i \in DOMAIN emitted[arch] :
    LET d == emitted[arch][i] IN
    /\ \A j \in Names(d) : j \in There(arch) \/ (j \in archStructs /\ j \in There(Other(arch)))
    /\ \A n \in NestedNames(d) : n \in DOMAIN d.nested \/ Inner(Definition(i, arch), n) # {}

\* fieldGoType: "a by-value reference to a nested type that did not [emit] fails so
\* the parent is skipped rather than dangling".
NestedDefined ==
  phase = "done" => \A arch \in emitArches : \A i \in DOMAIN emitted[arch] :
    NestedNames(emitted[arch][i]) \subseteq DOMAIN emitted[arch][i].nested

\* On each architecture Go gives every emitted struct the size, the alignment
\* and, unless it is opaque, the field offsets that C gives it there: through
\* packing, nesting, unions, severed and skipped references, and variants that
\* only an embedded struct has. A struct that names, itself or in one it embeds,
\* what is not declared for arch has no Go layout and is left out.
GoMatchesC ==
  phase = "done" => \A arch \in emitArches :
    LET c == CLayouts(arch) go == GoLayouts(arch) IN
    \A i \in There(arch) : go[i].ok =>
      /\ c[i].ok /\ go[i].size = c[i].size /\ go[i].align = c[i].align
      /\ ~emitted[arch][i].self.opaque => go[i].offsets = c[i].offsets

\* The dry run has predicted the emission: exactly the structs that no
\* architecture's files declare are skipped types.
DryRunPredicts == skipped = {i \in Idx : \A arch \in emitArches : i \notin There(arch)}

\* Skips do not spread: a struct with a layout, whose nested types have theirs
\* and free names, is emitted, whatever it embeds was skipped or severed
\* (fieldGoType: "keep the layout correct with an opaque ... blob").
SkipsStayLocal ==
  \A i \in Idx : \A arch \in IF i \in archStructs THEN emitArches ELSE {"amd64"} :
    LET v == pickVariant(i, arch) IN
    /\ v # 0 /\ CLayouts(arch)[i].ok /\ CLayouts(arch)[i].size > 0
    /\ \A n \in DOMAIN registry[i].variants[v].nested : registry[i].variants[v].nested[n].free
    => i \in There(arch)

\* computeSkippedTypes finds the structs that cannot be emitted, and no others.
SkippedExactly == phase = "done" => DryRunPredicts /\ SkipsStayLocal

\* What either architecture's callees expect for the struct by value, and no
\* other descriptor.
ByRule(i) ==
  LET described == Descriptor(i)
      expected(c, floats) == IF c.size \in {1, 2, 4, 8} /\ floats = NotHFA THEN <<"word", c.size>>
                             ELSE <<"struct", c.size, c.align, floats>>
  IN  \A arch \in emitArches : described = expected(CLayouts(arch)[i], HFAByRule(CLeaves(arch)[i]))
Passed == {i \in There("amd64") \ archStructs : layouts("amd64")[i].ok}
SomeUnion == \E i \in Idx : \E v \in DOMAIN registry[i].variants :
            LET def == registry[i].variants[v]
            IN  def.union \/ \E n \in DOMAIN def.nested : def.nested[n].union

\* The one descriptor both architectures share is right on both: size, alignment,
\* word or composite, and float registers for the aggregates of one to four equal
\* floats alone, however nesting, arrays, packing or a union with an integer make
\* them up (structLayoutOf: "a union mixing floats with anything else (VARIANT) is
\* never classified as an HFA"). Not for unions of floats alone, see the next one.
DescriptorIsABI ==
  phase = "done" => \A i \in Passed :
    ~SomeUnion \/ (\E leaf \in CLeaves("amd64")[i] : leaf[2] = "other") => ByRule(i)

\* sizes.go: "an aggregate of one to four float32s (or float64s) and nothing else
\* travels in V registers, not X registers or memory", unions of floats included.
FloatUnionsByRule == phase = "done" => \A i \in Passed : ByRule(i)

(* The inductive invariant: what each phase leaves to the next.              *)

\* Different and containing structs are found: no other struct has two layouts.
ArchInv ==
  /\ phase # "arch" => \A i \in Idx :
       LET a == pickVariant(i, "amd64") b == pickVariant(i, "arm64") IN
       a # 0 /\ b # 0 /\ a # b => i \in archStructs
  /\ phase \notin {"arch", "contain"} => \A i \in Idx : ~Inherits(i)

\* What is emitted is what was built for the namespaces behind.
Emitting == phase \in {"emit", "done"}
EmitInv ==
  /\ phase = "done" => ns \notin Namespaces
  /\ \A arch \in emitArches :
       /\ DOMAIN emitted[arch] = {i \in Idx : Emitting /\ registry[i].ns < ns}
       /\ \A i \in DOMAIN emitted[arch] : emitted[arch][i] = Declared(i, arch)

\* A skipped struct cannot be emitted ...
Emits(i) == \E arch \in emitArches : Declared(i, arch).ok
SkippedInv ==
  /\ phase \in {"arch", "contain"} => skipped = {} /\ round = 0 /\ ns = 1 /\ ~grew
  /\ \A i \in skipped : ~Emits(i)

IInv == TypeOK /\ ArchInv /\ EmitInv /\ SkippedInv

\* ... and one that is embedded no deeper than there were rounds, or that a pass
\* which skipped nothing went over, is skipped or can be.
RefsOf(d) == {d.fields[k].to : k \in {j \in DOMAIN d.fields : d.fields[j].kind = "ref"}}
ByValue(def) == RefsOf(def) \cup UNION {RefsOf(def.nested[n]) : n \in DOMAIN def.nested}
Depths(r) ==
  {d \in [DOMAIN r -> 0..(MaxRounds - 1)] :
     \A i \in DOMAIN r : \A v \in DOMAIN r[i].variants : \A j \in ByValue(r[i].variants[v]) : d[j] < d[i]}
Depth == CHOOSE d \in Depths(registry) : TRUE
Settled(i) ==
  \/ Emitting
  \/ phase = "skip" /\ \/ Depth[i] < round
                       \/ registry[i].ns < ns /\ (Depth[i] = round \/ ~grew)
SettledInv == \A i \in Idx : Settled(i) => i \in skipped \/ Emits(i)

\* What structs have to be like: no chain of more than MaxRounds of them embed
\* each other by value ...
Shallow(r) == Depths(r) # {}

\* ... and nothing that is embedded is empty.
Filled(r) ==
  \A i \in DOMAIN r : \A v \in DOMAIN r[i].variants :
    /\ \A n \in DOMAIN r[i].variants[v].nested : r[i].variants[v].nested[n].fields # << >>
    /\ \A j \in ByValue(r[i].variants[v]) : \A w \in DOMAIN r[j].variants : r[j].variants[w].fields # << >>
=============================================================================
