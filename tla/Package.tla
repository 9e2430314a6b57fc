------------------------------ MODULE Package ------------------------------
(***************************************************************************)
(* From the winmd's rows to the declarations of Go packages, by name:       *)
(* internal/win32meta/ingest (what is projected, what is dropped),          *)
(* internal/codegen/pipeline/loader.go (function owners, vtable slots) and  *)
(* emitNamespace of internal/codegen/emit/raw, construct by construct over  *)
(* one set of claimed names. What is inside a declaration is in Structs and *)
(* Signatures; here a construct builds or it does not.                      *)
(***************************************************************************)
EXTENDS Integers, Sequences, FiniteSets, FiniteSetsExt

CONSTANTS
  Winmds,     \* the metadata the run tries: sets of rows
  Export,     \* naming.Export, from names to identifiers: it may join two
  Rank,       \* the sorted order of names
  IID,        \* "IID_" + an exported name
  CloserName, \* "Close" + an exported name
  Procs,      \* the identifier of the probe table
  None

(* A row has a namespace, a kind, a name and its place among the rows of that  *)
(* name. sig says whether its signature decodes ("ok"), does not ("bad") or is *)
(* not there ("none": no import, no Invoke, no value). A struct has a variant  *)
(* per architecture, or None.                                                  *)
TypeKinds == {"typedef", "enum", "struct", "delegate", "interface"}
emitArches == {"amd64", "arm64"}
Sigs == {"ok", "bad", "none"}

\* The kinds that a namespace keeps in a Go map by name. Structs are folded into one
\* by their name; constants and functions are slices.
MapKinds == {"typedef", "enum", "delegate", "interface"}
SameName(q, r) == q.ns = r.ns /\ q.kind = r.kind /\ q.name = r.name

ASSUME RowsAssumption ==
  \A w \in Winmds : IsFiniteSet(w) /\ \A r \in w :
    /\ {"ns", "kind", "name", "row"} \subseteq DOMAIN r /\ r.ns # None /\ r.row \in Nat
    /\ r.kind \in TypeKinds \cup {"constant", "function"}
    /\ r.name \in DOMAIN Export /\ r.name \in DOMAIN Rank
    /\ r.kind = "interface" =>
         {"methods", "base", "root"} \subseteq DOMAIN r /\ r.methods \in Seq({"fits", "unfit", "bad"})
    /\ r.kind \in {"delegate", "constant", "function"} => r.sig \in Sigs
    /\ r.kind = "function" => r.unsuffixed = None \/ r.unsuffixed \in DOMAIN Export
    /\ \A q \in w : SameName(q, r) /\ (r.kind = "struct" \/ q.row = r.row) => q = r

\* None is no identifier and no interface's key.
ASSUME NamingAssumption ==
  /\ \A n \in DOMAIN Export : Export[n] # None
  /\ \A w \in Winmds : \A r \in w : <<r.ns, r.name>> # None

VARIABLES
  winmd,       \* the rows
  ir,          \* the rows as projected
  emitted,     \* namespaces finished
  ns,          \* the namespace at hand
  stage, todo, \* the construct it is at, and the rows left of it
  claimedNames, typeNames, seen,  \* the generator's name state
  saved,       \* buildArchStructModels' copies
  decls,       \* package-level declarations
  methods,     \* vtable methods, with the slot they dispatch through
  embeds,      \* interfaces that embed their base
  diags        \* Diagnostics that report a loss, of the ingester and of the generator

names == <<claimedNames, typeNames, seen, saved>>
output == <<decls, methods, embeds, diags>>
vars == <<winmd, ir, emitted, ns, stage, todo, names, output>>

Namespaces == {r.ns : r \in winmd}
Id(r) == Export[r.name]
Decl(r, kind, id, arches) ==
  [ns |-> r.ns, kind |-> kind, of |-> r.name, row |-> r.row, id |-> id, arches |-> arches]
Diag(r, kind) == [ns |-> r.ns, kind |-> kind, of |-> r.name, row |-> r.row]

Init ==
  /\ winmd \in Winmds /\ ir = {} /\ emitted = {} /\ ns = None /\ stage = "ingest" /\ todo = {}
  /\ claimedNames = {} /\ typeNames = {} /\ seen = {}
  /\ saved = [claims |-> {}, types |-> {}, union |-> {}, left |-> {}]
  /\ decls = {} /\ methods = {} /\ embeds = {} /\ diags = {}

-----------------------------------------------------------------------------
(* Ingest *)

\* projectInterface leaves a method out that does not decode: the i-th method of
\* the projection is the i-th of those it keeps.
projectInterface(r) ==
  LET kept == {k \in DOMAIN r.methods : r.methods[k] # "bad"}
      place[i \in 1..Cardinality(kept)] == CHOOSE k \in kept : Cardinality(kept \cap 1..k) = i
  IN  [r EXCEPT !.methods = [i \in DOMAIN place |-> [pos |-> place[i], is |-> r.methods[place[i]]]]]

Project(r) == IF r.kind = "interface" THEN projectInterface(r) ELSE r
Projects(r) == r.kind \in {"delegate", "constant", "function"} => r.sig = "ok"
Undecoded(r) == \/ r.kind \in {"delegate", "constant"} /\ r.sig = "bad"
                \/ r.kind = "interface" /\ \E k \in DOMAIN r.methods : r.methods[k] = "bad"

\* A row of a map's kind takes the place of the one before it that has its name.
Stays(r) == r.kind \in MapKinds => \A q \in winmd : SameName(q, r) /\ Projects(q) => q.row <= r.row
Ingested == {r \in winmd : Projects(r) /\ Stays(r)}

\* A function whose signature does not decode ends the ingest.
Fatal(r) == r.kind = "function" /\ r.sig = "bad"

Ingest ==
  /\ stage = "ingest" /\ \A r \in winmd : ~Fatal(r)
  /\ ir' = {Project(r) : r \in Ingested}
  /\ diags' = {Diag(r, "ingest") : r \in {q \in winmd : Undecoded(q)}}
  /\ stage' = "loaded"
  /\ UNCHANGED <<winmd, emitted, ns, todo, names, decls, methods, embeds>>

IngestFails ==
  /\ stage = "ingest" /\ \E r \in winmd : Fatal(r)
  /\ stage' = "failed"
  /\ UNCHANGED <<winmd, ir, emitted, ns, todo, names, output>>

-----------------------------------------------------------------------------
(* The registry *)

\* Mutant of FunctionOwner: the first namespace keeps the function.
FunctionOwner_First(f) ==
  LET owners == {r.ns : r \in {q \in ir : q.kind = "function" /\ q.name = f}}
  IN  IF owners = {} THEN None ELSE CHOOSE n \in owners : TRUE

\* The one namespace with a function f; None when there is none or more than one.
FunctionOwner(f) ==
  LET owners == {r.ns : r \in {q \in ir : q.kind = "function" /\ q.name = f}}
  IN  IF Cardinality(owners) = 1 THEN CHOOSE n \in owners : TRUE ELSE None

Interfaces == {r \in ir : r.kind = "interface"}
InterfaceOf(key) == {r \in Interfaces : <<r.ns, r.name>> = key}
BaseOf(r) == CHOOSE b \in InterfaceOf(r.base) : TRUE

\* The number of methods of the base chain, -1 for one that dangles or closes.
VtableStartSlot(r) ==
  LET keys == {q.base : q \in Interfaces}
      slot[known \in SUBSET keys] == [q \in Interfaces |->
        IF q.base = None THEN 0
        ELSE IF q.base \in known \/ InterfaceOf(q.base) = {} THEN -1
        ELSE LET above == slot[known \cup {q.base}][BaseOf(q)]
             IN  IF above = -1 THEN -1 ELSE above + Len(BaseOf(q).methods)]
  IN  slot[{}][r]

-----------------------------------------------------------------------------
(* emitNamespace: the order of its constructs *)

Stages == <<"typedef", "enum", "struct", "amd64", "arm64", "delegate", "interface",
            "constant", "function", "procs", "closer">>
StageSet == {Stages[k] : k \in DOMAIN Stages}
Pos(s) == CHOOSE k \in DOMAIN Stages : Stages[k] = s
After(s) == Stages[1 + Pos(s)]

\* The rows of a stage, as emitNamespace and its builders collect them.
RowsIn(n, s) ==
  {r \in ir : /\ r.ns = n
              /\ CASE s = "struct"           -> r.kind = "struct" /\ ~r.perArch
                   [] s \in emitArches       -> r.kind = "struct" /\ r.perArch
                   [] s = "closer"           -> r.kind = "typedef" /\ r.free # None
                   [] OTHER                  -> r.kind = s}
RowsOf(s) == RowsIn(ns, s)

Enter(s) == stage' = s /\ todo' = RowsOf(s)

\* Builders take their rows in the order of the names. Functions of one name are
\* in any order, as the sort is not stable.
First(S) == {r \in S : \A q \in S : Rank[r.name] <= Rank[q.name]}

At(s, r) == stage = s /\ r \in First(todo) /\ todo' = todo \ {r} /\ UNCHANGED <<winmd, ir, emitted, ns, stage>>

\* Mutant of prepareNamespaceClaims: only what the first files declare.
prepareNamespaceClaims_NoInterfaces(n) ==
  {Id(r) : r \in {q \in ir : q.ns = n /\ q.kind \in {"typedef", "enum", "struct"}}}

\* Every top-level type name is claimed before anything is built.
prepareNamespaceClaims(n) ==
  {Id(r) : r \in {q \in ir : q.ns = n /\ q.kind \in TypeKinds}}

StartNamespace(n) ==
  /\ stage = "loaded" /\ n \in Namespaces \ emitted
  /\ ns' = n /\ stage' = "typedef" /\ todo' = {r \in ir : r.ns = n /\ r.kind = "typedef"}
  /\ claimedNames' = prepareNamespaceClaims(n) /\ typeNames' = prepareNamespaceClaims(n)
  /\ seen' = {}
  /\ UNCHANGED <<winmd, ir, emitted, saved, output>>

NextStage ==
  /\ stage \in {"typedef", "enum", "delegate", "interface", "constant", "function"} /\ todo = {}
  /\ Enter(After(stage))
  /\ UNCHANGED <<winmd, ir, emitted, ns, names, output>>

EndNamespace ==
  /\ stage = "closer" /\ todo = {}
  /\ emitted' = emitted \cup {ns} /\ ns' = None /\ stage' = "loaded"
  /\ UNCHANGED <<winmd, ir, todo, names, output>>

\* buildArchStructModels: both passes start from the same names ...
StartArch ==
  /\ stage = "struct" /\ todo = {} /\ Enter("amd64")
  /\ saved' = [claims |-> claimedNames, types |-> typeNames, union |-> claimedNames, left |-> typeNames]
  /\ UNCHANGED <<winmd, ir, emitted, ns, claimedNames, typeNames, seen, output>>

SwitchArch ==
  /\ stage = "amd64" /\ todo = {} /\ Enter("arm64")
  /\ saved' = [saved EXCEPT !.union = @ \cup claimedNames, !.left = @ \cap typeNames]
  /\ claimedNames' = saved.claims /\ typeNames' = saved.types
  /\ UNCHANGED <<winmd, ir, emitted, ns, seen, output>>

\* Mutant of EndArch: the names of the last pass are kept.
EndArch_LastPass ==
  /\ stage = "arm64" /\ todo = {} /\ Enter("delegate")
  /\ UNCHANGED <<winmd, ir, emitted, ns, names, output>>

\* ... and what either claimed or consumed stays so.
EndArch ==
  /\ stage = "arm64" /\ todo = {} /\ Enter("delegate")
  /\ claimedNames' = saved.union \cup claimedNames
  /\ typeNames' = saved.left \cap typeNames
  /\ UNCHANGED <<winmd, ir, emitted, ns, seen, saved, output>>

-----------------------------------------------------------------------------
(* The builders *)

\* claimTypeName fails: an earlier type has the name.
TypeNameTaken(s, r) ==
  /\ At(s, r) /\ Id(r) \notin typeNames
  /\ diags' = diags \cup {Diag(r, s)}
  /\ UNCHANGED <<names, decls, methods, embeds>>

\* Typedefs and delegates always build.
BuildSimple(s, r) ==
  /\ At(s, r) /\ Id(r) \in typeNames
  /\ typeNames' = typeNames \ {Id(r)}
  /\ decls' = decls \cup {Decl(r, s, Id(r), emitArches)}
  /\ UNCHANGED <<claimedNames, seen, saved, methods, embeds, diags>>

\* No two members have one identifier.
OneEach(ms) == \A m, n \in ms : Export[m] = Export[n] => m = n

\* An enum, and those of its members whose names are free.
BuildEnum(r) ==
  /\ At("enum", r) /\ Id(r) \in typeNames
  /\ LET members == {Export[m] : m \in r.members}
         free == members \ claimedNames
         each == free = members /\ OneEach(r.members)
     IN  /\ claimedNames' = claimedNames \cup free
         /\ decls' = decls \cup {Decl(r, "enum", Id(r), emitArches)}
                           \cup {Decl(r, "member", id, emitArches) : id \in free}
         /\ diags' = IF each THEN diags ELSE diags \cup {Diag(r, "member")}
  /\ typeNames' = typeNames \ {Id(r)}
  /\ UNCHANGED <<seen, saved, methods, embeds>>

\* The variant of a pass; structs that do not differ go by the amd64 one.
VariantIn(s, r) == r.variants[IF s = "struct" THEN "amd64" ELSE s]
ArchesOf(s) == IF s \in emitArches THEN {s} ELSE emitArches

NoVariant(s, r) ==
  /\ At(s, r) /\ VariantIn(s, r) = None
  /\ diags' = diags \cup {Diag(r, s)}
  /\ UNCHANGED <<names, decls, methods, embeds>>

StructNameTaken(s, r) == TypeNameTaken(s, r) /\ VariantIn(s, r) # None

\* buildStructTree: a union or packed struct has no siblings; otherwise the nested
\* types with free names come first and stay when the struct is given up, for want
\* of another or of a field's type. Its own name is then free.
BuildStruct(s, r) ==
  /\ At(s, r) /\ VariantIn(s, r) # None /\ Id(r) \in typeNames
  /\ LET v == VariantIn(s, r)
         siblings == IF v.opaque THEN {} ELSE v.nested \ claimedNames
         built == v.builds /\ (v.opaque \/ siblings = v.nested)
     IN  /\ claimedNames' = (claimedNames \cup siblings) \ (IF built THEN {} ELSE {Id(r)})
         /\ decls' = decls \cup {Decl(r, "nested", id, ArchesOf(s)) : id \in siblings}
                           \cup (IF built THEN {Decl(r, "struct", Id(r), ArchesOf(s))} ELSE {})
         /\ diags' = IF built THEN diags ELSE diags \cup {Diag(r, s)}
  /\ typeNames' = typeNames \ {Id(r)}
  /\ UNCHANGED <<seen, saved, methods, embeds>>

\* A base chain that dangles or closes: skipped, with its name claimed.
SkipInterface(r) ==
  /\ At("interface", r) /\ Id(r) \in typeNames /\ VtableStartSlot(r) = -1
  /\ typeNames' = typeNames \ {Id(r)}
  /\ diags' = diags \cup {Diag(r, "interface")}
  /\ UNCHANGED <<claimedNames, seen, saved, decls, methods, embeds>>

\* Mutant of Slot: methods that are skipped are not counted.
Slot_OfEmitted(r, i) ==
  VtableStartSlot(r) + Cardinality({j \in 1..(i - 1) : r.methods[j].is = "fits"})

Slot(r, i) == VtableStartSlot(r) + i - 1

\* The type, its IID when that name is free, its base embedded unless the import
\* is severed, and the methods that fit. The runtime has the root's methods.
BuildInterface(r) ==
  /\ At("interface", r) /\ Id(r) \in typeNames /\ VtableStartSlot(r) # -1
  /\ LET iid == IID[Id(r)]
         named == r.guid /\ iid \notin claimedNames
         fits == IF r.root THEN {} ELSE {i \in DOMAIN r.methods : r.methods[i].is = "fits"}
         unfit == ~r.root /\ \E i \in DOMAIN r.methods : r.methods[i].is # "fits"
         derived == r.base # None /\ ~r.root
     IN  /\ claimedNames' = claimedNames \cup (IF named THEN {iid} ELSE {})
         /\ decls' = decls \cup {Decl(r, "interface", Id(r), emitArches)}
                           \cup (IF named THEN {Decl(r, "iid", iid, emitArches)} ELSE {})
         /\ methods' = methods \cup
              {[ns |-> ns, of |-> r.name, pos |-> r.methods[i].pos, slot |-> Slot(r, i)] : i \in fits}
         /\ embeds' = IF derived /\ ~r.severed THEN embeds \cup {<<ns, r.name>>} ELSE embeds
         /\ diags' = diags \cup (IF r.guid /\ ~named THEN {Diag(r, "iid")} ELSE {})
                           \cup (IF unfit THEN {Diag(r, "method")} ELSE {})
                           \cup (IF derived /\ r.severed THEN {Diag(r, "base")} ELSE {})
  /\ typeNames' = typeNames \ {Id(r)}
  /\ UNCHANGED <<seen, saved>>

\* A constant's name is claimed first and given back when it does not build.
BuildConstant(r) ==
  /\ At("constant", r)
  /\ LET built == Id(r) \notin claimedNames /\ r.builds
     IN  /\ claimedNames' = IF built THEN claimedNames \cup {Id(r)} ELSE claimedNames
         /\ decls' = IF built THEN decls \cup {Decl(r, "constant", Id(r), emitArches)} ELSE decls
         /\ diags' = IF built THEN diags ELSE diags \cup {Diag(r, "constant")}
  /\ UNCHANGED <<typeNames, seen, saved, methods, embeds>>

\* Mutant of BuildsFirst: a name is seen before its architecture is looked at.
BuildsFirst_SeenAny(r) == r.amd64 /\ Id(r) \notin seen \cup {Id(q) : q \in {p \in ir : p.ns = r.ns /\ p.kind = "function" /\ p \notin todo}}

\* The first amd64 entry of a name is built, the others pass unmentioned.
BuildsFirst(r) == r.amd64 /\ Id(r) \notin seen

PassOver(r) ==
  /\ At("function", r) /\ ~BuildsFirst(r)
  /\ UNCHANGED <<names, output>>

\* claimFunctionName: the name without its W, else the raw one.
Candidates(r) == (IF r.unsuffixed = None THEN << >> ELSE <<Export[r.unsuffixed]>>) \o <<Id(r)>>
claimFunctionName(r) ==
  LET free == {k \in DOMAIN Candidates(r) : Candidates(r)[k] \notin claimedNames}
  IN  IF free = {} THEN None ELSE Candidates(r)[Min(free)]

\* buildFunction, or buildInlineFunction for what no module exports.
BuildFunction(r) ==
  /\ At("function", r) /\ BuildsFirst(r)
  /\ LET goName == IF r.builds THEN claimFunctionName(r) ELSE None
         kind == IF r.loadable THEN "function" ELSE "inline"
     IN  IF goName = None
         THEN diags' = diags \cup {Diag(r, "function")} /\ UNCHANGED <<claimedNames, decls>>
         ELSE /\ claimedNames' = claimedNames \cup {goName}
              /\ decls' = decls \cup {Decl(r, kind, goName, emitArches)}
              /\ UNCHANGED diags
  /\ seen' = seen \cup {Id(r)}
  /\ UNCHANGED <<typeNames, saved, methods, embeds>>

\* The probe table, when there is something to probe and its name is free.
DeclareProcs ==
  /\ stage = "procs" /\ Enter("closer")
  /\ LET table == [ns |-> ns, kind |-> "procs", of |-> Procs, row |-> 0, id |-> Procs, arches |-> emitArches]
         probed == \E d \in decls : d.ns = ns /\ d.kind = "function"
     IN  IF probed /\ Procs \notin claimedNames
         THEN claimedNames' = claimedNames \cup {Procs} /\ decls' = decls \cup {table} /\ UNCHANGED diags
         ELSE /\ diags' = IF probed THEN diags \cup {[ns |-> ns, kind |-> "procs", of |-> Procs, row |-> 0]} ELSE diags
              /\ UNCHANGED <<claimedNames, decls>>
  /\ UNCHANGED <<winmd, ir, emitted, ns, typeNames, seen, saved, methods, embeds>>

\* A closer can be written for the handle: one owner, whose function takes it.
Closable(r) ==
  \E f \in ir : f.kind = "function" /\ f.name = r.free /\ f.ns = FunctionOwner(r.free) /\ f.closes

BuildCloser(r) ==
  /\ At("closer", r) /\ r.handle
  /\ LET id == CloserName[Id(r)]
         built == Closable(r) /\ id \notin claimedNames
     IN  /\ claimedNames' = IF built THEN claimedNames \cup {id} ELSE claimedNames
         /\ decls' = IF built THEN decls \cup {Decl(r, "closer", id, emitArches)} ELSE decls
         /\ diags' = IF built THEN diags ELSE diags \cup {Diag(r, "closer")}
  /\ UNCHANGED <<typeNames, seen, saved, methods, embeds>>

\* Not a handle: no closer, and nobody is told.
NotAHandle(r) ==
  /\ At("closer", r) /\ ~r.handle
  /\ UNCHANGED <<names, output>>

Next ==
  \/ Ingest \/ IngestFails
  \/ \E n \in Namespaces : StartNamespace(n)
  \/ NextStage \/ EndNamespace \/ StartArch \/ SwitchArch \/ EndArch \/ DeclareProcs
  \/ \E r \in todo :
       \/ \E s \in {"typedef", "delegate"} : BuildSimple(s, r)
       \/ \E s \in {"typedef", "enum", "delegate", "interface"} : TypeNameTaken(s, r)
       \/ BuildEnum(r)
       \/ \E s \in {"struct", "amd64", "arm64"} : NoVariant(s, r) \/ StructNameTaken(s, r) \/ BuildStruct(s, r)
       \/ SkipInterface(r) \/ BuildInterface(r)
       \/ BuildConstant(r)
       \/ PassOver(r) \/ BuildFunction(r)
       \/ BuildCloser(r) \/ NotAHandle(r)

Spec == Init /\ [][Next]_vars
-----------------------------------------------------------------------------
(* Properties *)

\* Rows, names and stages are what they say.
TypeOK ==
  /\ stage \in {"ingest", "failed", "loaded"} \cup StageSet
  /\ emitted \subseteq Namespaces /\ ns \in Namespaces \cup {None} /\ todo \subseteq ir
  /\ typeNames \subseteq {Id(r) : r \in ir}
  /\ \A d \in decls \cup diags : d.ns \in Namespaces

Done == stage = "loaded" /\ emitted = Namespaces

\* No package declares an identifier twice on an architecture, whatever types,
\* members, nested types, IIDs, constants, functions, the probe table and closers
\* are called, and whichever of them were given up (claimName and its kin; the two
\* passes of buildArchStructModels: "later value names cannot collide with any of
\* them").
DeclaredOnce ==
  \A d, e \in decls : d.ns = e.ns /\ d.id = e.id /\ d.arches \cap e.arches # {} => d = e

Declared(r, kind, arch) ==
  \E d \in decls : d.ns = r.ns /\ d.of = r.name /\ d.row = r.row /\ d.kind = kind /\ arch \in d.arches

\* A diagnostic names the row, or another row of its name.
Named(r, kind) == \E d \in diags : d.ns = r.ns /\ d.of = r.name /\ d.kind = kind

\* The type can be emitted on the architecture as far as its own contents go. A
\* nested type is named like a value, and another construct can have its name.
IsType(n, id) == \E q \in ir : q.ns = n /\ q.kind \in TypeKinds /\ Id(q) = id
Sound(r, arch) ==
  CASE r.kind = "struct"    -> LET v == r.variants[IF r.perArch THEN arch ELSE "amd64"] IN
                                 /\ v # None /\ v.builds
                                 /\ v.opaque \/ \A id \in v.nested :
                                      ~IsType(r.ns, id) /\ \A d \in decls : d.ns = r.ns /\ d.id = id => d.of = r.name
    [] r.kind = "interface" -> VtableStartSlot(r) # -1
    [] OTHER                -> TRUE

\* No value costs a type its name, and no function costs another its own:
\* "types win any type-vs-value collision" (prepareNamespaceClaims), and a -W
\* variant takes the bare name only when no function has it.
TypesWin ==
  \A r \in {q \in ir : q.kind \in TypeKinds} : \A arch \in emitArches :
    /\ Sound(r, arch)
    /\ \A q \in ir : q.kind \in TypeKinds /\ q.ns = r.ns /\ Id(q) = Id(r) => q = r
    => Declared(r, r.kind, arch)
OtherThanFunction(n, id) == \E d \in decls : d.ns = n /\ d.id = id /\ d.kind \notin {"function", "inline"}
FunctionsKeepTheirs ==
  \A r \in {q \in ir : q.kind = "function" /\ q.amd64} :
    \/ ~r.builds
    \/ OtherThanFunction(r.ns, Id(r)) \/ IsType(r.ns, Id(r))
    \/ \E d \in decls : d.ns = r.ns /\ d.kind \in {"function", "inline"} /\ Export[d.of] = Id(r)
    \/ Named(r, "function") /\ \E q \in ir : q.kind = "function" /\ Id(q) = Id(r) /\ ~q.builds
NamesKept == Done => TypesWin /\ FunctionsKeepTheirs

\* The interfaces above r in the winmd, each by the last of its rows: those that every
\* set with r's base and the bases of its own members has. A method's slot is the
\* number of methods before it.
RowAt(key) == {r \in Ingested : r.kind = "interface" /\ <<r.ns, r.name>> = key}
Upward(r, S) == RowAt(r.base) \subseteq S /\ \A q \in S : RowAt(q.base) \subseteq S
Ancestors(r) ==
  LET rows == {q \in Ingested : q.kind = "interface"}
  IN  {q \in rows : \A S \in SUBSET rows : Upward(r, S) => q \in S}
MethodsOf(rows) == UNION {{q} \X DOMAIN q.methods : q \in rows}
SlotInWinmd(r, pos) == Cardinality(MethodsOf(Ancestors(r))) + pos - 1

\* A method, own or promoted, dispatches through the slot its place in the winmd
\* gives it, however many methods before it were skipped ("Skipping a method never
\* shifts slots", buildInterface); only where the ingester has reported a method it
\* could not decode, in the interface or above it, do slots shift. An embedded base
\* is declared, unless its name went to another type.
SlotsMatchWinmd ==
  /\ \A m \in methods : \A r \in RowAt(<<m.ns, m.of>>) :
       \/ m.slot = SlotInWinmd(r, m.pos)
       \/ \E q \in {r} \cup Ancestors(r) : Diag(q, "ingest") \in diags
  /\ Done => \A key \in embeds : \A r \in RowAt(key) : \A b \in RowAt(r.base) :
       Declared(b, "interface", "amd64")
       \/ \E q \in ir : q.kind \in TypeKinds /\ q.ns = b.ns /\ Id(q) = Id(b) /\ q # Project(b)

\* A closer calls a function that one namespace has, and that is declared there
\* under the name the closer uses (buildCloser: "their emitted Go name is
\* naming.Export(FreeFunc)"). The exceptions are functions the generator has
\* reported as skipped, that have no amd64 entry, or that carry the -W.
ClosersCallFunctions ==
  Done => \A d \in {c \in decls : c.kind = "closer"} :
    \A r \in {q \in ir : q.ns = d.ns /\ q.kind = "typedef" /\ q.name = d.of} :
      LET named == {f \in ir : f.kind = "function" /\ f.name = r.free} IN
      \E n \in Namespaces :
        /\ \A f \in named : f.ns = n
        /\ \/ \E c \in decls : c.ns = n /\ c.id = Export[r.free] /\ c.kind \in {"function", "inline"}
           \/ \A f \in named : Named(f, "function") \/ ~f.amd64 \/ f.unsuffixed # None

\* Each member of the enum is declared.
MembersDeclared(r) ==
  /\ OneEach(r.members)
  /\ \A m \in r.members : \E d \in decls :
       d.ns = r.ns /\ d.of = r.name /\ d.row = r.row /\ d.kind = "member" /\ d.id = Export[m]

\* What the generator is given is declared, or a diagnostic names it, on which the
\* ratchet rests: every type on each architecture, every member of an enum, every
\* method and every embedded base, every constant, one function of every identifier
\* that has an amd64 entry, every probe table and every handle's closer. And ingest
\* reports every row it cannot decode. This is not all that the winmd declares, as
\* docs/COVERAGE.md has it ("Everything the metadata declares is emitted unless a
\* diagnostic below says otherwise"). Nobody is told of rows that ingest does not hand
\* on (without an import, an Invoke or a value, or with a later row of their name in
\* their place), of typedefs that have a free function and are no handles, although
\* buildHandleClosers promises "everything else is skipped with a diagnostic", and of
\* the functions after the first of an identifier.
NoSilentLoss ==
  Done => (\A r \in winmd : Undecoded(r) => Diag(r, "ingest") \in diags) /\ \A r \in Ingested :
    LET told(kinds) == \E k \in kinds : Diag(r, k) \in diags IN
    /\ r.kind \in TypeKinds => \A arch \in emitArches : Declared(r, r.kind, arch) \/ told({r.kind, arch})
    /\ r.kind = "enum" => MembersDeclared(r) \/ told({"enum", "member"})
    /\ r.kind = "constant" => Declared(r, "constant", "amd64") \/ told({"constant"})
    /\ r.kind = "function" /\ r.amd64 =>
         \E f \in ir : /\ f.kind = "function" /\ f.ns = r.ns /\ Id(f) = Id(r)
                       /\ Declared(f, "function", "amd64") \/ Declared(f, "inline", "amd64") \/ Diag(f, "function") \in diags
    /\ Declared(r, "function", "amd64") => \E d \in decls \cup diags : d.ns = r.ns /\ d.kind = "procs"
    /\ r.kind = "typedef" /\ r.free # None /\ r.handle => Declared(r, "closer", "amd64") \/ told({"closer"})
    /\ r.kind = "interface" /\ ~r.root => \A k \in DOMAIN r.methods :
         \/ \E m \in methods : m.ns = r.ns /\ m.of = r.name /\ m.pos = k
         \/ told({"ingest", "interface", "method"})
    /\ r.kind = "interface" /\ ~r.root => r.base = None \/ <<r.ns, r.name>> \in embeds \/ told({"interface", "base"})

(* The inductive invariant of DeclaredOnce: the claims cover what is declared. *)

Building == stage \in StageSet

\* The architectures that what is built now is compiled for.
Live == ArchesOf(stage)

\* Declarations are of finished namespaces and the one at hand.
PlaceInv ==
  /\ stage = "ingest" => todo = {} /\ typeNames = {}
  /\ Building => ns \in Namespaces \ emitted
  /\ \A r \in ir : r.ns \in Namespaces
  /\ \A r \in todo : r.ns = ns
  /\ \A d \in decls : d.ns \in emitted \/ (Building /\ d.ns = ns)

\* What an architecture of S sees declared in the namespace at hand.
Visible(S) == {d \in decls : d.ns = ns /\ d.arches \cap S # {}}

\* A declaration's name is claimed, and no type waits for it; the pass over the
\* other architecture has it in the copies.
ClaimsInv ==
  /\ Building =>
       /\ typeNames \subseteq claimedNames
       /\ \A d \in Visible(Live) : d.id \in claimedNames \ typeNames
  /\ stage = "amd64" =>
       /\ saved.types \subseteq saved.claims \cap {Id(r) : r \in ir}
       /\ \A d \in Visible({"arm64"}) : d.id \in saved.claims \ saved.types
  /\ stage = "arm64" =>
       \A d \in Visible({"amd64"}) : d.id \in saved.union \ saved.left

IInv == TypeOK /\ PlaceInv /\ ClaimsInv /\ DeclaredOnce

(* The inductive invariant of what is emitted and what is reported: an account  *)
(* of every row that a construct has taken.                                     *)

\* The construct s has taken the row r.
Took(s, r) ==
  /\ r \in RowsIn(r.ns, s)
  /\ \/ r.ns \in emitted
     \/ Building /\ r.ns = ns /\ (Pos(s) < Pos(stage) \/ (s = stage /\ r \notin todo))

\* The rows left to take are rows of the construct.
TodoInv == Building => todo \subseteq RowsOf(stage)

\* What ingest leaves, and reports.
IngestInv ==
  /\ stage \in {"ingest", "failed"} => ir = {} /\ emitted = {} /\ decls = {} /\ methods = {} /\ embeds = {}
  /\ stage \notin {"ingest", "failed"} =>
       /\ ir = {Project(r) : r \in Ingested}
       /\ \A r \in winmd : ~Fatal(r) /\ (Undecoded(r) => Diag(r, "ingest") \in diags)

\* Another type has the type's identifier.
Rival(r) == \E q \in ir : q.kind \in TypeKinds /\ q.ns = r.ns /\ Id(q) = Id(r) /\ q # r

\* The types that are still to come wait for their names, unless they have rivals.
TypeStages == {"typedef", "enum", "struct", "amd64", "arm64", "delegate", "interface"}
Waiting(s, waits) == \A r \in RowsOf(s) : Took(s, r) \/ Rival(r) \/ Id(r) \in waits
WaitInv ==
  Building =>
    /\ \A s \in TypeStages \ (IF stage = "amd64" THEN {"arm64"} ELSE {}) : Waiting(s, typeNames)
    /\ stage = "amd64" => /\ saved.left = saved.types /\ saved.union = saved.claims
                          /\ \A s \in TypeStages \ {"amd64"} : Waiting(s, saved.types)
    /\ stage = "arm64" => \A s \in TypeStages \ {"arm64"} : Waiting(s, saved.left)

\* A name is claimed for a type or by a declaration.
Reason(id, arches) == IsType(ns, id) \/ \E d \in Visible(arches) : d.id = id
ReasonInv ==
  Building =>
    /\ \A id \in claimedNames : Reason(id, Live)
    /\ stage = "amd64" => \A id \in saved.claims : Reason(id, {"amd64"}) /\ Reason(id, {"arm64"})
    /\ stage = "arm64" => \A id \in saved.union : Reason(id, {"amd64"})

\* A declaration comes from a row that was taken.
FunctionKinds == {"function", "inline"}
FunctionIds(f) == {Id(f)} \cup (IF f.unsuffixed = None THEN {} ELSE {Export[f.unsuffixed]})
From(d, s, r) ==
  /\ Took(s, r) /\ d.ns = r.ns /\ d.of = r.name /\ d.arches = ArchesOf(s)
  /\ d.kind \in FunctionKinds => s = "function" /\ d.id \in FunctionIds(r)
  /\ d.kind = "closer" => s = "closer" /\ Closable(r)
OriginInv ==
  \A d \in decls :
    \/ d.kind = "procs" /\ (d.ns \in emitted \/ stage = "closer")
    \/ d.kind # "procs" /\ \E s \in StageSet : \E r \in ir : From(d, s, r)

\* A type is declared, or reported for a reason.
TypeAccount(s, r) ==
  \A arch \in ArchesOf(s) : Declared(r, r.kind, arch) \/ (Diag(r, s) \in diags /\ (Rival(r) \/ ~Sound(r, arch)))

InterfaceAccount(r) ==
  \/ Diag(r, "interface") \in diags
  \/ /\ \/ Diag(r, "method") \in diags
        \/ \A i \in DOMAIN r.methods : \E m \in methods : m.ns = r.ns /\ m.of = r.name /\ m.pos = r.methods[i].pos
     /\ r.base = None \/ <<r.ns, r.name>> \in embeds \/ Diag(r, "base") \in diags

\* Why a function that builds could not have its own name.
NameGone(f) ==
  \/ IsType(f.ns, Id(f))
  \/ \E d \in decls :
       /\ d.ns = f.ns /\ d.id = Id(f)
       /\ \/ d.kind \notin FunctionKinds
          \/ \E g \in ir : /\ g.kind = "function" /\ g.ns = f.ns /\ g.name = d.of
                           /\ d.id \in FunctionIds(g) /\ Rank[g.name] <= Rank[f.name]
Emitted(f) == \E d \in decls :
  /\ d.ns = f.ns /\ d.of = f.name /\ d.row = f.row /\ d.kind \in FunctionKinds
  /\ d.id \in FunctionIds(f) /\ d.arches = emitArches
Tried(n, id) == \E f \in ir :
  /\ f.kind = "function" /\ f.ns = n /\ Id(f) = id
  /\ Emitted(f) \/ (Diag(f, "function") \in diags /\ (~f.builds \/ NameGone(f)))

\* An enum's members are declared, or one of them or the enum is reported.
MembersAccount(r) == MembersDeclared(r) \/ Diag(r, "enum") \in diags \/ Diag(r, "member") \in diags

\* What is due for a row that the construct s has taken.
Accounted(s, r) ==
  /\ s \in TypeStages => TypeAccount(s, r)
  /\ s = "enum" => MembersAccount(r)
  /\ s = "interface" /\ ~r.root => InterfaceAccount(r)
  /\ s = "function" /\ r.amd64 => Tried(r.ns, Id(r))
  /\ s = "constant" => Declared(r, "constant", "amd64") \/ Diag(r, "constant") \in diags
  /\ s = "closer" /\ r.handle => Declared(r, "closer", "amd64") \/ Diag(r, "closer") \in diags
RowsInv == \A s \in StageSet : \A r \in ir : Took(s, r) => Accounted(s, r)

\* A name is seen when a function of it was tried; functions are taken in order.
SeenInv ==
  /\ Building => \A id \in seen : Tried(ns, id)
  /\ stage = "function" => \A r \in RowsOf("function") \ todo : \A q \in todo : Rank[r.name] <= Rank[q.name]

ProcsInv ==
  \A d \in decls : d.kind = "function" =>
    \/ Building /\ d.ns = ns /\ stage \in {"function", "procs"}
    \/ \E e \in decls \cup diags : e.ns = d.ns /\ e.kind = "procs"

AccountInv ==
  /\ TodoInv /\ IngestInv /\ WaitInv /\ ReasonInv /\ OriginInv
  /\ RowsInv /\ SeenInv /\ ProcsInv

\* A method's slot is counted from where its interface's slots start, and only an
\* interface whose slots start somewhere embeds its base.
MethodsInv ==
  /\ \A m \in methods : \E q \in Interfaces : \E i \in DOMAIN q.methods :
       /\ VtableStartSlot(q) # -1 /\ m.ns = q.ns /\ m.of = q.name
       /\ m.pos = q.methods[i].pos /\ m.slot = Slot(q, i)
  /\ \A key \in embeds : \E q \in Interfaces : VtableStartSlot(q) # -1 /\ <<q.ns, q.name>> = key

(* What the names of functions have to be like. *)

\* Functions of a namespace that Export gives one identifier are entries of one
\* function, and one that carries a W is sorted behind the one that has its name
\* without it. So it is in the metadata: only a name that differs from another in
\* leading underscores or the case of its first letter could break it.
FunctionNames ==
  \A w \in Winmds : \A f, g \in {r \in w : r.kind = "function"} : f.ns = g.ns =>
    /\ Id(f) = Id(g) => f.name = g.name /\ f.unsuffixed = g.unsuffixed
    /\ g.unsuffixed # None /\ Export[g.unsuffixed] = Id(f) => ~(Rank[g.name] <= Rank[f.name])
=============================================================================
