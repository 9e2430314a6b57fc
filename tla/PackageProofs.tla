--------------------------- MODULE PackageProofs ----------------------------
(* Proofs about Package, for any metadata and any naming.                    *)
EXTENDS Package, TLAPS, FiniteSetTheorems, WellFoundedInduction, NaturalsInduction

\* The metadata at hand is one of the given ones.
WinmdOK == winmd \in Winmds
Inv == WinmdOK /\ IInv

\* The stages are eleven, and their order is that of emitNamespace.
LEMMA StageFacts ==
  /\ StageSet = {"typedef", "enum", "struct", "amd64", "arm64", "delegate", "interface",
                 "constant", "function", "procs", "closer"}
  /\ Pos("typedef") = 1 /\ Pos("enum") = 2 /\ Pos("struct") = 3 /\ Pos("amd64") = 4 /\ Pos("arm64") = 5
  /\ Pos("delegate") = 6 /\ Pos("interface") = 7 /\ Pos("constant") = 8 /\ Pos("function") = 9
  /\ Pos("procs") = 10 /\ Pos("closer") = 11
  /\ After("typedef") = "enum" /\ After("enum") = "struct" /\ After("delegate") = "interface"
  /\ After("interface") = "constant" /\ After("constant") = "function" /\ After("function") = "procs"
<1>1. DOMAIN Stages = 1..11
  BY DEF Stages
<1>2. \A k \in 1..11 : k \in {1, 2, 3, 4, 5, 6, 7, 8, 9, 10, 11}
  OBVIOUS
<1>3. StageSet = {"typedef", "enum", "struct", "amd64", "arm64", "delegate", "interface",
                  "constant", "function", "procs", "closer"}
  BY <1>1, <1>2 DEF Stages, StageSet
<1>4. \A i \in 1..11, j \in 1..11 : Stages[i] = Stages[j] => i = j
  BY <1>2 DEF Stages
<1>5. \A i \in 1..11 : Pos(Stages[i]) = i
  BY <1>1, <1>4 DEF Pos
<1>6. /\ Stages[1] = "typedef" /\ Stages[2] = "enum" /\ Stages[3] = "struct" /\ Stages[4] = "amd64"
      /\ Stages[5] = "arm64" /\ Stages[6] = "delegate" /\ Stages[7] = "interface" /\ Stages[8] = "constant"
      /\ Stages[9] = "function" /\ Stages[10] = "procs" /\ Stages[11] = "closer"
  BY DEF Stages
<1>7. /\ Pos("typedef") = 1 /\ Pos("enum") = 2 /\ Pos("struct") = 3 /\ Pos("amd64") = 4 /\ Pos("arm64") = 5
      /\ Pos("delegate") = 6 /\ Pos("interface") = 7 /\ Pos("constant") = 8 /\ Pos("function") = 9
      /\ Pos("procs") = 10 /\ Pos("closer") = 11
  BY <1>5, <1>6
<1>8. /\ After("typedef") = "enum" /\ After("enum") = "struct" /\ After("delegate") = "interface"
      /\ After("interface") = "constant" /\ After("constant") = "function" /\ After("function") = "procs"
  BY <1>6, <1>7 DEF After
<1> QED
  BY <1>3, <1>7, <1>8

\* A row keeps its namespace when it is projected.
LEMMA ProjectKeeps ==
  ASSUME WinmdOK, NEW r \in winmd
  PROVE  Project(r).ns = r.ns
<1>1. "ns" \in DOMAIN r
  BY RowsAssumption DEF WinmdOK
<1> QED
  BY <1>1 DEF Project, projectInterface

\* Nothing is declared at first.
LEMMA InitInv == Init => Inv
<1> SUFFICES ASSUME Init PROVE Inv
  OBVIOUS
<1>1. stage = "ingest" /\ ~Building
  BY StageFacts DEF Init, Building
<1>2. TypeOK
  BY <1>1 DEF Init, TypeOK
<1>3. PlaceInv /\ ClaimsInv /\ DeclaredOnce
  BY <1>1 DEF Init, PlaceInv, ClaimsInv, DeclaredOnce
<1> QED
  BY <1>2, <1>3 DEF Init, Inv, IInv, WinmdOK

-----------------------------------------------------------------------------
(* One construct *)

\* A builder's step keeps the invariant when the names it declares were free, or
\* were waiting for the type it declares, and are claimed and waited for by no type
\* afterwards; when it gives up no other name than one that waited for its type;
\* and when it declares for the architectures at hand.
LEMMA BuildKeeps ==
  ASSUME Inv, Building, UNCHANGED <<winmd, ir, emitted, ns, stage, saved>>, todo' \subseteq todo,
         NEW new, decls' = decls \cup new,
         \A d \in new : /\ d.ns = ns /\ d.arches \subseteq Live
                        /\ d.id \in typeNames \/ d.id \notin claimedNames
                        /\ d.id \in claimedNames' \ typeNames',
         \A d, e \in new : d.id = e.id => d = e,
         typeNames' \subseteq typeNames, typeNames' \subseteq claimedNames',
         claimedNames \ claimedNames' \subseteq typeNames,
         \A d \in diags' : d \in diags \/ d.ns = ns
  PROVE  Inv'
<1> USE DEF Inv, IInv
<1>1. /\ WinmdOK' /\ Namespaces' = Namespaces /\ Live' = Live /\ Building' = Building
      /\ ns \in Namespaces \ emitted
  BY DEF WinmdOK, Namespaces, Live, Building, PlaceInv
<1>2. TypeOK'
  BY <1>1 DEF TypeOK, Id
<1>3. PlaceInv'
  <2>1. stage # "ingest"
    BY StageFacts DEF Building
  <2> QED
    BY <1>1, <2>1 DEF PlaceInv
<1>4. \A S : Visible(S)' = Visible(S) \cup {d \in new : d.arches \cap S # {}}
  BY DEF Visible
<1>5. ClaimsInv'
  <2>1. \A d \in Visible(Live)' : d.id \in claimedNames' \ typeNames'
    BY <1>1, <1>4 DEF ClaimsInv
  <2>2. stage = "amd64" => Visible({"arm64"})' = Visible({"arm64"})
    BY <1>4 DEF Live, ArchesOf, emitArches
  <2>3. stage = "arm64" => Visible({"amd64"})' = Visible({"amd64"})
    BY <1>4 DEF Live, ArchesOf, emitArches
  <2> QED
    BY <1>1, <2>1, <2>2, <2>3 DEF ClaimsInv
<1>6. DeclaredOnce'
  <2>1. ASSUME NEW d \in decls, NEW e \in new, d.ns = e.ns, d.id = e.id, d.arches \cap e.arches # {}
        PROVE  FALSE
    <3>1. d \in Visible(Live)
      BY <2>1 DEF Visible
    <3> QED
      BY <2>1, <3>1 DEF ClaimsInv
  <2> QED
    BY <2>1 DEF DeclaredOnce
<1> QED
  BY <1>1, <1>2, <1>3, <1>5, <1>6

-----------------------------------------------------------------------------
(* Each construct *)

\* A row that is passed over or refused declares nothing.
LEMMA RefuseKeeps ==
  ASSUME Inv, NEW r \in todo,
         \/ \E s \in {"typedef", "enum", "delegate", "interface"} : TypeNameTaken(s, r)
         \/ \E s \in {"struct", "amd64", "arm64"} : NoVariant(s, r) \/ StructNameTaken(s, r)
         \/ PassOver(r) \/ NotAHandle(r) \/ SkipInterface(r)
  PROVE  Inv'
<1> USE DEF At
<1>1. Building /\ r.ns = ns /\ typeNames \subseteq claimedNames
  BY StageFacts DEF Building, Inv, IInv, PlaceInv, ClaimsInv, TypeNameTaken, NoVariant, StructNameTaken, PassOver,
     NotAHandle, SkipInterface
<1>2. /\ UNCHANGED <<winmd, ir, emitted, ns, stage, saved, decls>> /\ todo' \subseteq todo
      /\ typeNames' \subseteq typeNames /\ claimedNames' = claimedNames
      /\ \A d \in diags' : d \in diags \/ d.ns = r.ns
  BY DEF TypeNameTaken, NoVariant, StructNameTaken, PassOver, NotAHandle, SkipInterface, names, output, Diag
<1> DEFINE new == {}
<1>3. /\ decls' = decls \cup new
      /\ \A d \in new : /\ d.ns = ns /\ d.arches \subseteq Live
                        /\ d.id \in typeNames \/ d.id \notin claimedNames
                        /\ d.id \in claimedNames' \ typeNames'
      /\ \A d, e \in new : d.id = e.id => d = e
  BY <1>2
<1>4. typeNames' \subseteq claimedNames' /\ claimedNames \ claimedNames' \subseteq typeNames
  BY <1>1, <1>2
<1> HIDE DEF new
<1> QED
  BY <1>1, <1>2, <1>3, <1>4, BuildKeeps

\* A typedef or a delegate takes the name that waits for it.
LEMMA SimpleKeeps ==
  ASSUME Inv, NEW r \in todo, NEW s \in {"typedef", "delegate"}, BuildSimple(s, r)
  PROVE  Inv'
<1> USE DEF BuildSimple, At
<1> DEFINE new == {Decl(r, s, Id(r), emitArches)}
<1>1. Building /\ r.ns = ns /\ typeNames \subseteq claimedNames
  BY StageFacts DEF Building, Inv, IInv, PlaceInv, ClaimsInv
<1>2. /\ \A d \in new : d.ns = ns /\ d.arches \subseteq Live /\ d.id = Id(r)
      /\ \A d, e \in new : d = e
  BY <1>1 DEF Decl, Live, ArchesOf, emitArches
<1>3. UNCHANGED <<winmd, ir, emitted, ns, stage, saved>> /\ todo' \subseteq todo
  OBVIOUS
<1>4. decls' = decls \cup new /\ UNCHANGED <<claimedNames, diags>> /\ typeNames' = typeNames \ {Id(r)}
  OBVIOUS
<1> HIDE DEF new
<1>5. \A d \in new : /\ d.ns = ns /\ d.arches \subseteq Live
                     /\ d.id \in typeNames \/ d.id \notin claimedNames
                     /\ d.id \in claimedNames' \ typeNames'
  BY <1>1, <1>2, <1>4
<1>6. typeNames' \subseteq typeNames /\ typeNames' \subseteq claimedNames' /\ claimedNames \ claimedNames' \subseteq typeNames
  BY <1>1, <1>4
<1>7. \A d, e \in new : d.id = e.id => d = e
  BY <1>2
<1>8. \A d \in diags' : d \in diags \/ d.ns = ns
  BY <1>4
<1> QED
  BY <1>1, <1>3, <1>4, <1>5, <1>6, <1>7, <1>8, BuildKeeps

\* An enum takes its name, and its members names that nothing has.
LEMMA EnumKeeps ==
  ASSUME Inv, NEW r \in todo, BuildEnum(r)
  PROVE  Inv'
<1> USE DEF BuildEnum, At
<1> DEFINE free == {Export[m] : m \in r.members} \ claimedNames
           own == Decl(r, "enum", Id(r), emitArches)
           member(id) == Decl(r, "member", id, emitArches)
           new == {own} \cup {member(id) : id \in free}
<1>1. Building /\ r.ns = ns /\ typeNames \subseteq claimedNames /\ Id(r) \in typeNames
  BY StageFacts DEF Building, Inv, IInv, PlaceInv, ClaimsInv
<1>2. /\ own.ns = ns /\ own.arches \subseteq Live /\ own.id = Id(r)
      /\ \A id : member(id).ns = ns /\ member(id).arches \subseteq Live /\ member(id).id = id
  BY <1>1 DEF Decl, Live, ArchesOf, emitArches
<1>3. UNCHANGED <<winmd, ir, emitted, ns, stage, saved>> /\ todo' \subseteq todo
  OBVIOUS
<1>4. /\ decls' = decls \cup new /\ claimedNames' = claimedNames \cup free
      /\ typeNames' = typeNames \ {Id(r)}
      /\ \A d \in diags' : d \in diags \/ d.ns = ns
  BY <1>1 DEF Diag
<1> HIDE DEF free, own, member
<1>5. \A d \in new : \/ d = own
                     \/ d.id \in free /\ d = member(d.id)
  BY <1>2
<1>6. free \cap claimedNames = {}
  BY DEF free
<1>7. \A d \in new : /\ d.ns = ns /\ d.arches \subseteq Live
                     /\ d.id \in typeNames \/ d.id \notin claimedNames
                     /\ d.id \in claimedNames' \ typeNames'
  BY <1>1, <1>2, <1>4, <1>5, <1>6
<1>8. \A d, e \in new : d.id = e.id => d = e
  BY <1>1, <1>2, <1>5, <1>6
<1>9. typeNames' \subseteq typeNames /\ typeNames' \subseteq claimedNames' /\ claimedNames \ claimedNames' \subseteq typeNames
  BY <1>1, <1>4
<1> HIDE DEF new
<1> QED
  BY <1>1, <1>3, <1>4, <1>7, <1>8, <1>9, BuildKeeps

\* A struct and its nested types take names that nothing has, for the
\* architecture of the pass; one that is given up frees its own.
LEMMA StructKeeps ==
  ASSUME Inv, NEW r \in todo, NEW s \in {"struct", "amd64", "arm64"}, BuildStruct(s, r)
  PROVE  Inv'
<1> USE DEF BuildStruct, At
<1> DEFINE v == VariantIn(s, r)
           siblings == IF v.opaque THEN {} ELSE v.nested \ claimedNames
           built == v.builds /\ (v.opaque \/ siblings = v.nested)
           own == Decl(r, "struct", Id(r), ArchesOf(s))
           nested(id) == Decl(r, "nested", id, ArchesOf(s))
           new == {nested(id) : id \in siblings} \cup (IF built THEN {own} ELSE {})
<1>1. Building /\ r.ns = ns /\ typeNames \subseteq claimedNames /\ Id(r) \in typeNames /\ stage = s
  BY StageFacts DEF Building, Inv, IInv, PlaceInv, ClaimsInv
<1>2. /\ own.ns = ns /\ own.arches \subseteq Live /\ own.id = Id(r)
      /\ \A id : nested(id).ns = ns /\ nested(id).arches \subseteq Live /\ nested(id).id = id
  BY <1>1 DEF Decl, Live, ArchesOf, emitArches
<1>3. UNCHANGED <<winmd, ir, emitted, ns, stage, saved>> /\ todo' \subseteq todo
  OBVIOUS
<1>4. /\ decls' = decls \cup new
      /\ claimedNames' = (claimedNames \cup siblings) \ (IF built THEN {} ELSE {Id(r)})
      /\ typeNames' = typeNames \ {Id(r)}
      /\ \A d \in diags' : d \in diags \/ d.ns = ns
  BY <1>1 DEF Diag
<1>5. siblings \cap claimedNames = {}
  OBVIOUS
<1> HIDE DEF siblings, own, nested, built
<1>6. \A d \in new : \/ d = own /\ built
                     \/ d.id \in siblings /\ d = nested(d.id)
  BY <1>2
<1>7. \A d \in new : /\ d.ns = ns /\ d.arches \subseteq Live
                     /\ d.id \in typeNames \/ d.id \notin claimedNames
                     /\ d.id \in claimedNames' \ typeNames'
  <2> TAKE d \in new
  <2>1. CASE d = own /\ built
    BY <1>1, <1>2, <1>4, <2>1
  <2>2. CASE d.id \in siblings /\ d = nested(d.id)
    <3>1. d.id \notin claimedNames /\ d.id # Id(r) /\ d.id \notin typeNames
      BY <1>1, <1>5, <2>2
    <3>2. d.id \in claimedNames' /\ d.id \notin typeNames'
      BY <1>4, <2>2, <3>1
    <3>3. d.ns = ns /\ d.arches \subseteq Live
      BY <1>2, <2>2
    <3> QED
      BY <3>1, <3>2, <3>3
  <2> QED
    BY <1>6, <2>1, <2>2
<1>8. \A d, e \in new : d.id = e.id => d = e
  BY <1>1, <1>2, <1>5, <1>6
<1>9. typeNames' \subseteq typeNames /\ typeNames' \subseteq claimedNames' /\ claimedNames \ claimedNames' \subseteq typeNames
  BY <1>1, <1>4
<1> HIDE DEF new
<1> QED
  BY <1>1, <1>3, <1>4, <1>7, <1>8, <1>9, BuildKeeps

\* An interface takes its name, and its IID one that nothing has.
LEMMA InterfaceKeeps ==
  ASSUME Inv, NEW r \in todo, BuildInterface(r)
  PROVE  Inv'
<1> USE DEF BuildInterface, At
<1> DEFINE iid == IID[Id(r)]
           named == r.guid /\ iid \notin claimedNames
           own == Decl(r, "interface", Id(r), emitArches)
           guid == Decl(r, "iid", iid, emitArches)
           new == {own} \cup (IF named THEN {guid} ELSE {})
<1>1. Building /\ r.ns = ns /\ typeNames \subseteq claimedNames /\ Id(r) \in typeNames
  BY StageFacts DEF Building, Inv, IInv, PlaceInv, ClaimsInv
<1>2. /\ own.ns = ns /\ own.arches \subseteq Live /\ own.id = Id(r)
      /\ guid.ns = ns /\ guid.arches \subseteq Live /\ guid.id = iid
  BY <1>1 DEF Decl, Live, ArchesOf, emitArches
<1>3. UNCHANGED <<winmd, ir, emitted, ns, stage, saved>> /\ todo' \subseteq todo
  OBVIOUS
<1>4. /\ decls' = decls \cup new
      /\ claimedNames' = claimedNames \cup (IF named THEN {iid} ELSE {})
      /\ typeNames' = typeNames \ {Id(r)}
  OBVIOUS
<1>5. \A d \in diags' : d \in diags \/ d.ns = ns
  BY <1>1 DEF Diag
<1>6. named => iid \notin claimedNames
  OBVIOUS
<1> HIDE DEF own, guid, named, iid
<1>7. \A d \in new : d = own \/ (d = guid /\ named)
  OBVIOUS
<1>8. \A d \in new : /\ d.ns = ns /\ d.arches \subseteq Live
                     /\ d.id \in typeNames \/ d.id \notin claimedNames
                     /\ d.id \in claimedNames' \ typeNames'
  BY <1>1, <1>2, <1>4, <1>6, <1>7
<1>9. \A d, e \in new : d.id = e.id => d = e
  BY <1>1, <1>2, <1>6, <1>7
<1>10. typeNames' \subseteq typeNames /\ typeNames' \subseteq claimedNames' /\ claimedNames \ claimedNames' \subseteq typeNames
  BY <1>1, <1>4
<1> HIDE DEF new
<1> QED
  BY <1>1, <1>3, <1>4, <1>5, <1>8, <1>9, <1>10, BuildKeeps

\* A constant takes a name that nothing has.
LEMMA ConstantKeeps ==
  ASSUME Inv, NEW r \in todo, BuildConstant(r)
  PROVE  Inv'
<1> USE DEF BuildConstant, At
<1> DEFINE built == Id(r) \notin claimedNames /\ r.builds
           own == Decl(r, "constant", Id(r), emitArches)
           new == IF built THEN {own} ELSE {}
<1>1. Building /\ r.ns = ns /\ typeNames \subseteq claimedNames
  BY StageFacts DEF Building, Inv, IInv, PlaceInv, ClaimsInv
<1>2. own.ns = ns /\ own.arches \subseteq Live /\ own.id = Id(r)
  BY <1>1 DEF Decl, Live, ArchesOf, emitArches
<1>3. UNCHANGED <<winmd, ir, emitted, ns, stage, saved, typeNames>> /\ todo' \subseteq todo
  OBVIOUS
<1>4. /\ decls' = decls \cup new
      /\ claimedNames' = claimedNames \cup (IF built THEN {Id(r)} ELSE {})
      /\ \A d \in diags' : d \in diags \/ d.ns = ns
  BY <1>1 DEF Diag
<1>5. \A d \in new : d = own /\ built /\ Id(r) \notin claimedNames
  OBVIOUS
<1> HIDE DEF built, own, new
<1>6. \A d \in new : /\ d.ns = ns /\ d.arches \subseteq Live
                     /\ d.id \in typeNames \/ d.id \notin claimedNames
                     /\ d.id \in claimedNames' \ typeNames'
  BY <1>1, <1>2, <1>3, <1>4, <1>5
<1>7. \A d, e \in new : d.id = e.id => d = e
  BY <1>5
<1>8. typeNames' \subseteq typeNames /\ typeNames' \subseteq claimedNames' /\ claimedNames \ claimedNames' \subseteq typeNames
  BY <1>1, <1>3, <1>4
<1> QED
  BY <1>1, <1>3, <1>4, <1>6, <1>7, <1>8, BuildKeeps

\* A function takes one of its two names that nothing has.
LEMMA FunctionKeeps ==
  ASSUME Inv, NEW r \in todo, BuildFunction(r)
  PROVE  Inv'
<1> USE DEF BuildFunction, At
<1> DEFINE goName == IF r.builds THEN claimFunctionName(r) ELSE None
           own == Decl(r, IF r.loadable THEN "function" ELSE "inline", goName, emitArches)
           new == IF goName = None THEN {} ELSE {own}
<1>1. Building /\ r.ns = ns /\ typeNames \subseteq claimedNames
  BY StageFacts DEF Building, Inv, IInv, PlaceInv, ClaimsInv
<1>2. own.ns = ns /\ own.arches \subseteq Live /\ own.id = goName
  BY <1>1 DEF Decl, Live, ArchesOf, emitArches
<1>3. UNCHANGED <<winmd, ir, emitted, ns, stage, saved, typeNames>> /\ todo' \subseteq todo
  OBVIOUS
<1>4. /\ decls' = decls \cup new
      /\ claimedNames' = claimedNames \cup (IF goName = None THEN {} ELSE {goName})
  OBVIOUS
<1>5. \A d \in diags' : d \in diags \/ d.ns = ns
  BY <1>1 DEF Diag
<1>6. goName # None => goName \notin claimedNames
  <2> SUFFICES ASSUME goName # None, r.builds PROVE claimFunctionName(r) \notin claimedNames
    OBVIOUS
  <2> DEFINE c == Candidates(r)
             free == {k \in DOMAIN c : c[k] \notin claimedNames}
  <2>1. DOMAIN c = {1} \/ DOMAIN c = {1, 2}
    <3>1. DOMAIN <<Id(r)>> = {1}
      OBVIOUS
    <3> QED
      BY DEF Candidates
  <2>2. free # {}
    BY DEF claimFunctionName
  <2>3. Min(free) \in free
    BY <2>1, <2>2 DEF Min
  <2> QED
    BY <2>2, <2>3 DEF claimFunctionName
<1>7. \A d \in new : d = own /\ goName # None
  OBVIOUS
<1> HIDE DEF goName, own, new
<1>8. \A d \in new : /\ d.ns = ns /\ d.arches \subseteq Live
                     /\ d.id \in typeNames \/ d.id \notin claimedNames
                     /\ d.id \in claimedNames' \ typeNames'
  BY <1>1, <1>2, <1>3, <1>4, <1>6, <1>7
<1>9. \A d, e \in new : d.id = e.id => d = e
  BY <1>7
<1>10. typeNames' \subseteq typeNames /\ typeNames' \subseteq claimedNames' /\ claimedNames \ claimedNames' \subseteq typeNames
  BY <1>1, <1>3, <1>4
<1> QED
  BY <1>1, <1>3, <1>4, <1>5, <1>8, <1>9, <1>10, BuildKeeps

\* A closer takes a name that nothing has.
LEMMA CloserKeeps ==
  ASSUME Inv, NEW r \in todo, BuildCloser(r)
  PROVE  Inv'
<1> USE DEF BuildCloser, At
<1> DEFINE id == CloserName[Id(r)]
           built == Closable(r) /\ id \notin claimedNames
           own == Decl(r, "closer", id, emitArches)
           new == IF built THEN {own} ELSE {}
<1>1. Building /\ r.ns = ns /\ typeNames \subseteq claimedNames
  BY StageFacts DEF Building, Inv, IInv, PlaceInv, ClaimsInv
<1>2. own.ns = ns /\ own.arches \subseteq Live /\ own.id = id
  BY <1>1 DEF Decl, Live, ArchesOf, emitArches
<1>3. UNCHANGED <<winmd, ir, emitted, ns, stage, saved, typeNames>> /\ todo' \subseteq todo
  OBVIOUS
<1>4. /\ decls' = decls \cup new
      /\ claimedNames' = claimedNames \cup (IF built THEN {id} ELSE {})
      /\ \A d \in diags' : d \in diags \/ d.ns = ns
  BY <1>1 DEF Diag
<1>5. \A d \in new : d = own /\ built /\ id \notin claimedNames
  OBVIOUS
<1> HIDE DEF id, built, own, new
<1>6. \A d \in new : /\ d.ns = ns /\ d.arches \subseteq Live
                     /\ d.id \in typeNames \/ d.id \notin claimedNames
                     /\ d.id \in claimedNames' \ typeNames'
  BY <1>1, <1>2, <1>3, <1>4, <1>5
<1>7. \A d, e \in new : d.id = e.id => d = e
  BY <1>5
<1>8. typeNames' \subseteq typeNames /\ typeNames' \subseteq claimedNames' /\ claimedNames \ claimedNames' \subseteq typeNames
  BY <1>1, <1>3, <1>4
<1> QED
  BY <1>1, <1>3, <1>4, <1>6, <1>7, <1>8, BuildKeeps

-----------------------------------------------------------------------------
(* From construct to construct and from namespace to namespace *)

\* The ingest declares nothing.
LEMMA IngestKeeps ==
  ASSUME Inv, Ingest \/ IngestFails
  PROVE  Inv'
<1> USE DEF Inv, IInv
<1>1. ~Building /\ ~Building' /\ stage' \in {"loaded", "failed"} /\ stage = "ingest"
  BY StageFacts DEF Building, Ingest, IngestFails
<1>2. /\ UNCHANGED <<winmd, emitted, ns, todo, names, decls>> /\ Namespaces' = Namespaces /\ WinmdOK'
  BY DEF Ingest, IngestFails, output, names, Namespaces, WinmdOK
<1>3. todo = {} /\ typeNames = {}
  BY <1>1 DEF PlaceInv
<1>4. \A r \in ir' : r.ns \in Namespaces
  <2>1. CASE Ingest
    BY <2>1, ProjectKeeps DEF Ingest, Ingested, Namespaces
  <2>2. CASE IngestFails
    BY <2>2 DEF IngestFails, PlaceInv
  <2> QED
    BY <2>1, <2>2
<1>5. \A d \in diags' : d.ns \in Namespaces
  <2>1. CASE Ingest
    BY <2>1 DEF Ingest, Namespaces, Diag
  <2>2. CASE IngestFails
    BY <2>2 DEF IngestFails, output, TypeOK
  <2> QED
    BY <2>1, <2>2
<1>6. TypeOK'
  BY <1>1, <1>2, <1>3, <1>5 DEF TypeOK, names
<1>7. PlaceInv'
  BY <1>1, <1>2, <1>3, <1>4 DEF PlaceInv, names
<1>8. ClaimsInv' /\ DeclaredOnce'
  <2>1. stage' \notin {"amd64", "arm64"}
    BY <1>1
  <2> QED
    BY <1>1, <1>2, <2>1 DEF ClaimsInv, DeclaredOnce
<1> QED
  BY <1>2, <1>6, <1>7, <1>8

\* A namespace starts with the names of its types, all waiting, and nothing
\* declared.
LEMMA StartKeeps ==
  ASSUME Inv, NEW n \in Namespaces, StartNamespace(n)
  PROVE  Inv'
<1> USE DEF Inv, IInv
<1>1. /\ stage = "loaded" /\ ~Building /\ Building' /\ stage' = "typedef" /\ n \notin emitted
  BY StageFacts DEF Building, StartNamespace
<1>2. /\ UNCHANGED <<winmd, ir, emitted, decls, diags>> /\ Namespaces' = Namespaces /\ WinmdOK'
      /\ ns' = n /\ claimedNames' = prepareNamespaceClaims(n) /\ typeNames' = prepareNamespaceClaims(n)
      /\ todo' \subseteq {r \in ir : r.ns = n}
  BY DEF StartNamespace, output, Namespaces, WinmdOK
<1>3. TypeOK'
  BY <1>1, <1>2, StageFacts DEF TypeOK, prepareNamespaceClaims, Id
<1>4. PlaceInv'
  BY <1>1, <1>2 DEF PlaceInv
<1>5. Visible(Live)' = {}
  BY <1>1, <1>2 DEF Visible, PlaceInv
<1>6. ClaimsInv' /\ DeclaredOnce'
  BY <1>1, <1>2, <1>5 DEF ClaimsInv, DeclaredOnce
<1> QED
  BY <1>2, <1>3, <1>4, <1>6

\* The next construct starts with the names as they are.
LEMMA NextStageKeeps ==
  ASSUME Inv, NextStage
  PROVE  Inv'
<1> USE DEF Inv, IInv
<1>1. /\ stage \in {"typedef", "enum", "delegate", "interface", "constant", "function"}
      /\ stage' \in {"enum", "struct", "interface", "constant", "function", "procs"}
      /\ Building /\ Building' /\ Live' = emitArches /\ Live = emitArches
  BY StageFacts DEF NextStage, Enter, Building, Live, ArchesOf, emitArches
<1>2. /\ UNCHANGED <<winmd, ir, emitted, ns, claimedNames, typeNames, decls, diags>> /\ Namespaces' = Namespaces
      /\ WinmdOK' /\ todo' \subseteq {r \in ir : r.ns = ns}
  BY DEF NextStage, Enter, RowsOf, RowsIn, output, names, Namespaces, WinmdOK
<1>3. TypeOK'
  BY <1>1, <1>2, StageFacts DEF TypeOK, Id
<1>4. PlaceInv'
  BY <1>1, <1>2 DEF PlaceInv
<1>5. Visible(Live)' = Visible(Live)
  BY <1>1, <1>2 DEF Visible
<1>6. ClaimsInv' /\ DeclaredOnce'
  BY <1>1, <1>2, <1>5 DEF ClaimsInv, DeclaredOnce
<1> QED
  BY <1>2, <1>3, <1>4, <1>6

\* A finished namespace is not entered again.
LEMMA EndKeeps ==
  ASSUME Inv, EndNamespace
  PROVE  Inv'
<1> USE DEF Inv, IInv
<1>1. /\ stage = "closer" /\ stage' = "loaded" /\ Building /\ ~Building'
  BY StageFacts DEF EndNamespace, Building
<1>2. /\ UNCHANGED <<winmd, ir, claimedNames, typeNames, decls, diags, todo>> /\ Namespaces' = Namespaces
      /\ WinmdOK' /\ todo = {} /\ ns' = None /\ emitted' = emitted \cup {ns}
  BY DEF EndNamespace, output, names, Namespaces, WinmdOK
<1>3. TypeOK'
  BY <1>1, <1>2 DEF TypeOK, Id, PlaceInv
<1>4. PlaceInv'
  BY <1>1, <1>2 DEF PlaceInv
<1>5. ClaimsInv' /\ DeclaredOnce'
  BY <1>1, <1>2 DEF ClaimsInv, DeclaredOnce
<1> QED
  BY <1>2, <1>3, <1>4, <1>5

\* The two passes over the architectures: the second starts from what the first
\* started from, and after it the names of both are claimed.
LEMMA ArchKeeps ==
  ASSUME Inv, StartArch \/ SwitchArch \/ EndArch
  PROVE  Inv'
<1> USE DEF Inv, IInv
<1>1. /\ stage \in {"struct", "amd64", "arm64"} /\ stage' \in {"amd64", "arm64", "delegate"}
      /\ Building /\ Building'
  BY StageFacts DEF StartArch, SwitchArch, EndArch, Enter, Building
<1>2. /\ UNCHANGED <<winmd, ir, emitted, ns, decls, diags>> /\ Namespaces' = Namespaces
      /\ WinmdOK' /\ todo' \subseteq {r \in ir : r.ns = ns}
  BY DEF StartArch, SwitchArch, EndArch, Enter, RowsOf, RowsIn, output, names, Namespaces, WinmdOK
<1>3. \A S : Visible(S)' = Visible(S)
  BY <1>2 DEF Visible
<1>4. /\ Visible({"amd64"}) \subseteq Visible(emitArches) /\ Visible({"arm64"}) \subseteq Visible(emitArches)
      /\ \A d \in Visible(emitArches) : d \in Visible({"amd64"}) \/ d \in Visible({"arm64"})
  BY DEF Visible, emitArches
<1>5. typeNames \subseteq claimedNames /\ \A d \in Visible(Live) : d.id \in claimedNames \ typeNames
  BY <1>1 DEF ClaimsInv
<1>6. ASSUME StartArch PROVE ClaimsInv' /\ typeNames' \subseteq {Id(r) : r \in ir}
  <2>1. /\ stage' = "amd64" /\ Live = emitArches /\ Live' = {"amd64"}
        /\ UNCHANGED <<claimedNames, typeNames>>
        /\ saved'.claims = claimedNames /\ saved'.types = typeNames
    BY <1>6 DEF StartArch, Enter, Live, ArchesOf, emitArches
  <2>2. typeNames \subseteq {Id(r) : r \in ir}
    BY DEF TypeOK
  <2>3. {Id(r) : r \in ir}' = {Id(r) : r \in ir}
    BY <1>2 DEF Id
  <2> QED
    BY <1>1, <1>3, <1>4, <1>5, <2>1, <2>2, <2>3 DEF ClaimsInv
<1>7. ASSUME SwitchArch PROVE ClaimsInv' /\ typeNames' \subseteq {Id(r) : r \in ir}
  <2>1. /\ stage = "amd64" /\ stage' = "arm64" /\ Live = {"amd64"} /\ Live' = {"arm64"}
        /\ claimedNames' = saved.claims /\ typeNames' = saved.types
        /\ claimedNames \subseteq saved'.union /\ saved'.left \subseteq typeNames
    <3>1. saved' = [saved EXCEPT !.union = @ \cup claimedNames, !.left = @ \cap typeNames]
      BY <1>7 DEF SwitchArch
    <3> QED
      BY <1>7, <3>1 DEF SwitchArch, Enter, Live, ArchesOf, emitArches
  <2>2. /\ saved.types \subseteq saved.claims \cap {Id(r) : r \in ir}
        /\ \A d \in Visible({"arm64"}) : d.id \in saved.claims \ saved.types
    BY <2>1 DEF ClaimsInv
  <2> QED
    BY <1>1, <1>3, <1>5, <2>1, <2>2 DEF ClaimsInv
<1>8. ASSUME EndArch PROVE ClaimsInv' /\ typeNames' \subseteq {Id(r) : r \in ir}
  <2>1. /\ stage = "arm64" /\ stage' = "delegate" /\ Live = {"arm64"} /\ Live' = emitArches
        /\ claimedNames' = saved.union \cup claimedNames /\ typeNames' = saved.left \cap typeNames
    BY <1>8 DEF EndArch, Enter, Live, ArchesOf, emitArches
  <2>2. \A d \in Visible({"amd64"}) : d.id \in saved.union \ saved.left
    BY <2>1 DEF ClaimsInv
  <2>3. typeNames \subseteq {Id(r) : r \in ir}
    BY DEF TypeOK
  <2> QED
    BY <1>1, <1>3, <1>4, <1>5, <2>1, <2>2, <2>3 DEF ClaimsInv
<1>9. ClaimsInv' /\ typeNames' \subseteq {Id(r) : r \in ir}
  BY <1>6, <1>7, <1>8
<1>10. TypeOK'
  BY <1>1, <1>2, <1>9, StageFacts DEF TypeOK, Id
<1>11. PlaceInv'
  BY <1>1, <1>2 DEF PlaceInv
<1>12. DeclaredOnce'
  BY <1>2 DEF DeclaredOnce
<1> QED
  BY <1>2, <1>9, <1>10, <1>11, <1>12

\* The probe table takes a name that nothing has.
LEMMA ProcsKeeps ==
  ASSUME Inv, DeclareProcs
  PROVE  Inv'
<1> USE DEF Inv, IInv
<1> DEFINE table == [ns |-> ns, kind |-> "procs", of |-> Procs, row |-> 0, id |-> Procs, arches |-> emitArches]
<1>1. /\ stage = "procs" /\ stage' = "closer" /\ Building /\ Building'
      /\ Live = emitArches /\ Live' = emitArches
  BY StageFacts DEF DeclareProcs, Enter, Building, Live, ArchesOf, emitArches
<1>2. /\ UNCHANGED <<winmd, ir, emitted, ns, typeNames>> /\ Namespaces' = Namespaces
      /\ WinmdOK' /\ todo' \subseteq {r \in ir : r.ns = ns} /\ ns \in Namespaces
  BY <1>1 DEF DeclareProcs, Enter, RowsOf, RowsIn, Namespaces, WinmdOK, PlaceInv
<1>3. \/ decls' = decls /\ claimedNames' = claimedNames
      \/ decls' = decls \cup {table} /\ claimedNames' = claimedNames \cup {Procs} /\ Procs \notin claimedNames
  BY DEF DeclareProcs
<1>4. \A d \in diags' : d \in diags \/ d.ns = ns
  BY DEF DeclareProcs
<1>5. table.ns = ns /\ table.id = Procs
  OBVIOUS
<1> HIDE DEF table
<1>6. TypeOK'
  BY <1>1, <1>2, <1>3, <1>4, <1>5, StageFacts DEF TypeOK, Id
<1>7. PlaceInv'
  BY <1>1, <1>2, <1>3, <1>5 DEF PlaceInv
<1>8. \A d \in Visible(Live)' : d \in Visible(Live) \/ (d = table /\ decls' # decls)
  BY <1>1, <1>2, <1>3 DEF Visible
<1>9. ClaimsInv'
  BY <1>1, <1>2, <1>3, <1>5, <1>8 DEF ClaimsInv
<1>10. DeclaredOnce'
  <2>1. ASSUME NEW d \in decls, d.ns = ns, d.id = Procs, d.arches \cap table.arches # {}, Procs \notin claimedNames
        PROVE  FALSE
    <3>1. table.arches = emitArches
      BY DEF table
    <3>2. d \in Visible(Live)
      BY <1>1, <2>1, <3>1 DEF Visible
    <3> QED
      BY <1>1, <2>1, <3>2 DEF ClaimsInv
  <2> QED
    BY <1>3, <1>5, <2>1 DEF DeclaredOnce
<1> QED
  BY <1>2, <1>6, <1>7, <1>9, <1>10

-----------------------------------------------------------------------------
(* Theorems *)

\* Every step keeps the invariant.
LEMMA NextInv ==
  ASSUME Inv, [Next]_vars
  PROVE  Inv'
<1>1. ASSUME NEW r \in todo, \E s \in {"typedef", "delegate"} : BuildSimple(s, r) PROVE Inv'
  BY <1>1, SimpleKeeps
<1>2. ASSUME NEW r \in todo,
         \/ \E s \in {"typedef", "enum", "delegate", "interface"} : TypeNameTaken(s, r)
         \/ \E s \in {"struct", "amd64", "arm64"} : NoVariant(s, r) \/ StructNameTaken(s, r)
         \/ PassOver(r) \/ NotAHandle(r) \/ SkipInterface(r)
      PROVE Inv'
  BY <1>2, RefuseKeeps
<1>3. ASSUME NEW r \in todo, \E s \in {"struct", "amd64", "arm64"} : BuildStruct(s, r) PROVE Inv'
  BY <1>3, StructKeeps
<1>4. ASSUME NEW r \in todo,
             BuildEnum(r) \/ BuildInterface(r) \/ BuildConstant(r) \/ BuildFunction(r) \/ BuildCloser(r)
      PROVE Inv'
  BY <1>4, EnumKeeps, InterfaceKeeps, ConstantKeeps, FunctionKeeps, CloserKeeps
<1>5. ASSUME \/ Ingest \/ IngestFails \/ \E n \in Namespaces : StartNamespace(n)
             \/ NextStage \/ EndNamespace \/ StartArch \/ SwitchArch \/ EndArch \/ DeclareProcs
      PROVE Inv'
  BY <1>5, IngestKeeps, StartKeeps, NextStageKeeps, EndKeeps, ArchKeeps, ProcsKeeps
<1>6. ASSUME UNCHANGED vars PROVE Inv'
  <2> USE <1>6 DEF vars, names, output
  <2>1. /\ WinmdOK' /\ Namespaces' = Namespaces /\ Building' = Building /\ Live' = Live
        /\ \A S : Visible(S)' = Visible(S)
    BY DEF Inv, WinmdOK, Namespaces, Building, Live, Visible
  <2>2. TypeOK'
    BY <2>1 DEF Inv, IInv, TypeOK, Id
  <2>3. PlaceInv'
    BY <2>1 DEF Inv, IInv, PlaceInv
  <2>4. ClaimsInv' /\ DeclaredOnce'
    BY <2>1 DEF Inv, IInv, ClaimsInv, DeclaredOnce, Id
  <2> QED
    BY <2>1, <2>2, <2>3, <2>4 DEF Inv, IInv
<1> QED
  BY <1>1, <1>2, <1>3, <1>4, <1>5, <1>6 DEF Next

\* The inductive invariant.
THEOREM InvariantCorrect == Spec => []Inv
<1> QED
  BY InitInv, NextInv, PTL DEF Spec

\* Type correctness.
THEOREM TypeCorrect == Spec => []TypeOK
<1>1. Inv => TypeOK
  BY DEF Inv, IInv
<1> QED
  BY <1>1, InvariantCorrect, PTL

\* No package declares an identifier twice on an architecture.
THEOREM DeclaredOnceCorrect == Spec => []DeclaredOnce
<1>1. Inv => DeclaredOnce
  BY DEF Inv, IInv
<1> QED
  BY <1>1, InvariantCorrect, PTL

-----------------------------------------------------------------------------
(* The account of every row *)

\* What depends on the rows alone stays when they do.
LEMMA IrSame ==
  ASSUME UNCHANGED ir
  PROVE  /\ \A n, s : RowsIn(n, s)' = RowsIn(n, s)
         /\ \A n, id : IsType(n, id)' = IsType(n, id)
         /\ \A r : /\ Rival(r)' = Rival(r) /\ Closable(r)' = Closable(r)
                   /\ VtableStartSlot(r)' = VtableStartSlot(r)
<1>1. \A n, s : RowsIn(n, s)' = RowsIn(n, s)
  BY DEF RowsIn
<1>2. \A n, id : IsType(n, id)' = IsType(n, id)
  BY DEF IsType, Id
<1>3. \A r : Rival(r)' = Rival(r)
  BY DEF Rival, Id
<1>4. \A r : Closable(r)' = Closable(r)
  BY DEF Closable, FunctionOwner
<1>5. \A r : VtableStartSlot(r)' = VtableStartSlot(r)
  BY DEF VtableStartSlot, Interfaces, InterfaceOf, BaseOf
<1> QED
  BY <1>1, <1>2, <1>3, <1>4, <1>5

\* An account is not spoilt by what is declared or reported later.
LEMMA AccountGrows ==
  ASSUME UNCHANGED ir, decls \subseteq decls', diags \subseteq diags', methods \subseteq methods', embeds \subseteq embeds'
  PROVE  /\ \A r, arch : ~Sound(r, arch) => ~Sound(r, arch)'
         /\ \A n, id : Tried(n, id) => Tried(n, id)'
         /\ \A s, r : Accounted(s, r) => Accounted(s, r)'
<1>1. \A r, arch : ~Sound(r, arch) => ~Sound(r, arch)'
  <2>1. \A r : VtableStartSlot(r)' = VtableStartSlot(r)
    BY IrSame
  <2>2. \A n, id : IsType(n, id)' = IsType(n, id)
    BY IrSame
  <2> QED
    BY <2>1, <2>2 DEF Sound
<1>2. \A r, kind, arch : Declared(r, kind, arch) => Declared(r, kind, arch)'
  BY DEF Declared
<1>3. \A n, id : Tried(n, id) => Tried(n, id)'
  <2>1. \A f : Emitted(f) => Emitted(f)'
    BY DEF Emitted
  <2>2. \A f : NameGone(f) => NameGone(f)'
    BY IrSame DEF NameGone
  <2> QED
    BY <2>1, <2>2 DEF Tried, Diag
<1>4. \A s, r : TypeAccount(s, r) => TypeAccount(s, r)'
  BY <1>1, <1>2, IrSame DEF TypeAccount, Diag
<1>5. \A r : InterfaceAccount(r) => InterfaceAccount(r)'
  BY DEF InterfaceAccount, Diag
<1>6. \A r : MembersAccount(r) => MembersAccount(r)'
  BY DEF MembersAccount, MembersDeclared, OneEach, Diag
<1>7. \A s, r : Accounted(s, r) => Accounted(s, r)'
  BY <1>2, <1>3, <1>4, <1>5, <1>6 DEF Accounted, Diag, Id
<1> QED
  BY <1>1, <1>3, <1>7

\* A row is projected from one of the winmd, and all but interfaces as they are.
LEMMA IrRows ==
  ASSUME WinmdOK, IngestInv, NEW r \in ir
  PROVE  /\ r.kind \in TypeKinds \cup {"constant", "function"}
         /\ \E q \in winmd : q \in Ingested /\ r = Project(q)
         /\ r.kind # "interface" => r \in winmd /\ r \in Ingested
<1>1. PICK q \in winmd : q \in Ingested /\ r = Project(q)
  BY DEF IngestInv, Ingested
<1>2. q.kind \in TypeKinds \cup {"constant", "function"} /\ {"ns", "kind", "name"} \subseteq DOMAIN q
  BY RowsAssumption DEF WinmdOK
<1>3. r.kind = q.kind /\ (q.kind # "interface" => r = q)
  BY <1>1, <1>2 DEF Project, projectInterface
<1> QED
  BY <1>1, <1>2, <1>3

\* The invariant of the names and the account together.
Account == Inv /\ AccountInv

\* A builder's step takes its row, and no other.
LEMMA TookBuild ==
  ASSUME Account, NEW s0 \in StageSet, NEW r0 \in todo, At(s0, r0)
  PROVE  /\ Building /\ Building' /\ stage = s0 /\ r0 \in RowsIn(ns, s0) /\ r0 \in ir /\ r0.ns = ns /\ ns \notin emitted
         /\ ~Took(s0, r0)
         /\ Took(s0, r0)'
         /\ \A s, r : Took(s, r) => Took(s, r)'
         /\ \A s, r : Took(s, r)' => Took(s, r) \/ (s = s0 /\ r = r0)
<1>1. UNCHANGED <<ir, emitted, ns, stage>> /\ todo' = todo \ {r0} /\ stage = s0
  BY DEF At
<1>2. Building /\ Building'
  BY <1>1 DEF Building
<1>3. r0 \in ir /\ r0.ns = ns /\ ns \notin emitted
  BY <1>2 DEF Account, Inv, IInv, TypeOK, PlaceInv
<1>4. r0 \in RowsIn(ns, s0)
  BY <1>1, <1>2 DEF Account, AccountInv, TodoInv, RowsOf
<1>5. \A n, s : RowsIn(n, s)' = RowsIn(n, s)
  BY <1>1, IrSame
<1>6. Pos(s0) \in Nat
  BY StageFacts
<1>7. ~Took(s0, r0)
  BY <1>1, <1>3, <1>6 DEF Took
<1>8. Took(s0, r0)'
  BY <1>1, <1>2, <1>3, <1>4, <1>5 DEF Took
<1>9. \A s, r : Took(s, r) => Took(s, r)'
  BY <1>1, <1>2, <1>5 DEF Took
<1>10. \A s, r : Took(s, r)' => Took(s, r) \/ (s = s0 /\ r = r0)
  BY <1>1, <1>2, <1>5 DEF Took
<1> QED
  BY <1>1, <1>2, <1>3, <1>4, <1>7, <1>8, <1>9, <1>10

\* A row of the types' constructs is a type, and one of two constructs at most
\* are about: those of the architectures.
LEMMA RowKinds ==
  /\ \A n : \A s \in TypeStages : \A r \in RowsIn(n, s) : r.kind \in TypeKinds
  /\ \A n : \A s \in TypeStages, t \in TypeStages : \A r \in RowsIn(n, s) \cap RowsIn(n, t) :
       s = t \/ (s \in emitArches /\ t \in emitArches)
<1>1. \A n : \A s \in TypeStages : \A r \in RowsIn(n, s) : r.kind \in TypeKinds
  BY DEF TypeStages, RowsIn, TypeKinds, emitArches
<1>2. \A n : \A s \in TypeStages, t \in TypeStages : \A r \in RowsIn(n, s) \cap RowsIn(n, t) :
       s = t \/ (s \in emitArches /\ t \in emitArches)
  BY DEF TypeStages, RowsIn, emitArches
<1> QED
  BY <1>1, <1>2

\* A builder's step keeps the account when its row gets what is due to it, what it
\* declares comes from the row, and what it claims it declares.
LEMMA BuildAccount ==
  ASSUME Account, NEW s0 \in StageSet, NEW r0 \in todo, At(s0, r0), UNCHANGED saved,
         diags \subseteq diags', methods \subseteq methods', embeds \subseteq embeds',
         NEW new, decls' = decls \cup new,
         \A d \in new : /\ d.ns = ns /\ d.of = r0.name /\ d.arches = ArchesOf(s0) /\ d.kind # "procs"
                        /\ d.kind \in FunctionKinds => s0 = "function" /\ d.id \in FunctionIds(r0)
                        /\ d.kind = "closer" => s0 = "closer" /\ Closable(r0),
         \/ typeNames' = typeNames
         \/ s0 \in TypeStages /\ typeNames' = typeNames \ {Id(r0)},
         \A id \in claimedNames' : id \in claimedNames \/ \E d \in new : d.id = id,
         \A id \in seen' : id \in seen \/ Tried(ns, id)',
         Accounted(s0, r0)'
  PROVE  AccountInv'
<1> USE DEF Account, AccountInv
<1>1. /\ UNCHANGED <<winmd, ir, emitted, ns, stage, saved>> /\ todo' = todo \ {r0} /\ stage = s0
      /\ decls \subseteq decls'
  BY DEF At
<1>2. /\ Building /\ Building' /\ r0 \in RowsIn(ns, s0) /\ r0 \in ir /\ r0.ns = ns /\ ns \notin emitted
      /\ Took(s0, r0)'
      /\ \A s, r : Took(s, r) => Took(s, r)'
      /\ \A s, r : Took(s, r)' => Took(s, r) \/ (s = s0 /\ r = r0)
  BY TookBuild
<1>3. /\ \A n, s : RowsIn(n, s)' = RowsIn(n, s)
      /\ \A n, id : IsType(n, id)' = IsType(n, id)
      /\ \A r : Rival(r)' = Rival(r) /\ Closable(r)' = Closable(r)
  BY <1>1, IrSame
<1>4. /\ \A n, id : Tried(n, id) => Tried(n, id)'
      /\ \A s, r : Accounted(s, r) => Accounted(s, r)'
  BY <1>1, AccountGrows
<1>5. TodoInv'
  BY <1>1, <1>2, <1>3 DEF TodoInv, RowsOf
<1>6. IngestInv'
  <2>1. stage \notin {"ingest", "failed"}
    BY <1>2, StageFacts DEF Building
  <2> QED
    BY <1>1, <2>1 DEF IngestInv, Ingested, Stays, SameName, Project, projectInterface, Projects, Fatal, Undecoded, Diag
<1>7. WaitInv'
  <2>1. \A s, w : Waiting(s, w) => Waiting(s, w)'
    BY <1>1, <1>2, <1>3 DEF Waiting, RowsOf, Id
  <2>2. ASSUME NEW s \in TypeStages, s \notin (IF stage = "amd64" THEN {"arm64"} ELSE {}), Waiting(s, typeNames)
        PROVE  Waiting(s, typeNames)'
    <3>1. CASE typeNames' = typeNames
      BY <2>1, <2>2, <3>1 DEF Waiting
    <3>2. CASE s0 \in TypeStages /\ typeNames' = typeNames \ {Id(r0)}
      <4> SUFFICES ASSUME NEW r \in RowsIn(ns, s), Id(r) = Id(r0), ~Rival(r)
                   PROVE  Took(s, r)'
        BY <1>1, <1>2, <1>3, <2>2, <3>2 DEF Waiting, RowsOf, Id
      <4>1. r0.kind \in TypeKinds /\ r \in ir /\ r.ns = ns
        BY <1>2, <3>2, RowKinds DEF RowsIn
      <4>2. r = r0
        BY <1>2, <4>1 DEF Rival
      <4>3. s = s0 \/ (s0 = "arm64" /\ s = "amd64")
        BY <1>1, <1>2, <2>2, <3>2, <4>2, RowKinds DEF emitArches
      <4>4. CASE s0 = "arm64" /\ s = "amd64"
        BY <1>1, <1>2, <1>3, <4>1, <4>4, StageFacts DEF Took
      <4> QED
        BY <1>2, <4>2, <4>3, <4>4
    <3> QED
      BY <3>1, <3>2
  <2> QED
    BY <1>1, <1>2, <2>1, <2>2 DEF WaitInv
<1>8. ReasonInv'
  <2>1. \A id, S : Reason(id, S) => Reason(id, S)'
    BY <1>1, <1>3 DEF Reason, Visible
  <2>2. \A d \in new : Reason(d.id, Live)'
    <3>1. \A d \in new : d \in decls' /\ d.ns = ns' /\ d.arches = Live'
      BY <1>1 DEF Live, ArchesOf
    <3>2. Live' # {}
      BY DEF Live, ArchesOf, emitArches
    <3> QED
      BY <3>1, <3>2 DEF Reason, Visible
  <2>3. Live' = Live
    BY <1>1 DEF Live, ArchesOf
  <2> QED
    BY <1>1, <1>2, <2>1, <2>2, <2>3 DEF ReasonInv
<1>9. OriginInv'
  <2>1. \A d, s, r : From(d, s, r) => From(d, s, r)'
    BY <1>1, <1>2, <1>3 DEF From, ArchesOf, FunctionIds, Id
  <2>2. \A d \in new : From(d, s0, r0)'
    BY <1>1, <1>2, <1>3 DEF From, ArchesOf, FunctionIds, Id
  <2> QED
    BY <1>1, <1>2, <2>1, <2>2 DEF OriginInv
<1>10. RowsInv'
  BY <1>1, <1>2, <1>4 DEF RowsInv
<1>11. SeenInv'
  <2>1. \A id \in seen' : Tried(ns, id)'
    BY <1>1, <1>2, <1>4 DEF SeenInv
  <2>2. ASSUME stage = "function", NEW r \in RowsOf("function") \ todo', NEW q \in todo'
        PROVE  Rank[r.name] <= Rank[q.name]
    <3>1. CASE r = r0
      BY <1>1, <3>1 DEF At, First
    <3>2. CASE r # r0
      BY <1>1, <2>2, <3>2 DEF SeenInv
    <3> QED
      BY <3>1, <3>2
  <2>3. RowsOf("function")' = RowsOf("function")
    BY <1>1, <1>3 DEF RowsOf
  <2> QED
    BY <1>1, <1>2, <2>1, <2>2, <2>3 DEF SeenInv
<1>12. ProcsInv'
  <2>1. \A d \in new : d.kind = "function" => s0 = "function"
    BY DEF FunctionKinds
  <2> QED
    BY <1>1, <1>2, <2>1 DEF ProcsInv
<1> QED
  BY <1>5, <1>6, <1>7, <1>8, <1>9, <1>10, <1>11, <1>12

\* A type that does not find its name waiting for it has a rival.
LEMMA TakenHasRival ==
  ASSUME Account, NEW s \in TypeStages, NEW r \in todo, At(s, r), Id(r) \notin typeNames
  PROVE  Rival(r)
<1>1. s \in StageSet
  BY StageFacts DEF TypeStages
<1>2. Building /\ stage = s /\ r \in RowsOf(s) /\ ~Took(s, r)
  BY <1>1, TookBuild DEF RowsOf
<1>3. s \notin (IF stage = "amd64" THEN {"arm64"} ELSE {})
  BY <1>2
<1>4. Waiting(s, typeNames)
  BY <1>2, <1>3 DEF Account, AccountInv, WaitInv
<1> QED
  BY <1>2, <1>4 DEF Waiting

\* The stages of the types are stages.
LEMMA TypeStagesFacts == TypeStages \subseteq StageSet /\ \A s \in TypeStages : s \notin {"constant", "function", "closer"}
  BY StageFacts DEF TypeStages

\* A type that is refused is reported, with the reason.
LEMMA RefuseAccount ==
  ASSUME Account, NEW s \in TypeStages, NEW r \in todo, At(s, r),
         UNCHANGED <<claimedNames, seen, saved, decls, methods, embeds>>, diags' = diags \cup {Diag(r, s)},
         UNCHANGED typeNames \/ typeNames' = typeNames \ {Id(r)},
         Rival(r) \/ \A arch \in ArchesOf(s) : ~Sound(r, arch)
  PROVE  AccountInv'
<1>1. s \in StageSet /\ s \notin {"constant", "function", "closer"}
  BY TypeStagesFacts
<1>2. UNCHANGED ir /\ Diag(r, s) \in diags'
  BY DEF At
<1>3. TypeAccount(s, r)'
  <2>1. \A arch : ~Sound(r, arch) => ~Sound(r, arch)'
    BY <1>2, AccountGrows
  <2>2. Rival(r)' = Rival(r)
    BY <1>2, IrSame
  <2> QED
    BY <1>2, <2>1, <2>2 DEF TypeAccount, Diag
<1>4. Accounted(s, r)'
  BY <1>1, <1>2, <1>3 DEF Accounted, InterfaceAccount, MembersAccount, Diag
<1> DEFINE new == {}
<1>5. /\ decls' = decls \cup new
      /\ \A d \in new : /\ d.ns = ns /\ d.of = r.name /\ d.arches = ArchesOf(s) /\ d.kind # "procs"
                        /\ d.kind \in FunctionKinds => s = "function" /\ d.id \in FunctionIds(r)
                        /\ d.kind = "closer" => s = "closer" /\ Closable(r)
  OBVIOUS
<1> HIDE DEF new
<1> QED
  BY <1>1, <1>4, <1>5, BuildAccount

\* The name is taken, there is no variant for the architecture, or no slot.
LEMMA TypeRefusedAccount ==
  ASSUME Account, NEW r \in todo,
         \/ \E s \in {"typedef", "enum", "delegate", "interface"} : TypeNameTaken(s, r)
         \/ \E s \in {"struct", "amd64", "arm64"} : NoVariant(s, r) \/ StructNameTaken(s, r)
         \/ SkipInterface(r)
  PROVE  AccountInv'
<1>1. ASSUME NEW s \in TypeStages, TypeNameTaken(s, r) PROVE AccountInv'
  <2>1. Rival(r)
    BY <1>1, TakenHasRival DEF TypeNameTaken
  <2> QED
    BY <1>1, <2>1, RefuseAccount DEF TypeNameTaken, names
<1>2. ASSUME NEW s \in {"struct", "amd64", "arm64"}, NoVariant(s, r) PROVE AccountInv'
  <2>1. s \in TypeStages
    BY DEF TypeStages
  <2>2. r \in RowsIn(ns, s)
    BY <1>2, <2>1, TypeStagesFacts, TookBuild DEF NoVariant
  <2>3. r.kind = "struct" /\ (IF r.perArch THEN s \in emitArches ELSE s = "struct")
    BY <2>2 DEF RowsIn, emitArches
  <2>4. \A arch \in ArchesOf(s) : ~Sound(r, arch)
    BY <1>2, <2>3 DEF NoVariant, VariantIn, ArchesOf, emitArches, Sound
  <2> QED
    BY <1>2, <2>1, <2>4, RefuseAccount DEF NoVariant, names
<1>3. ASSUME SkipInterface(r) PROVE AccountInv'
  <2>1. "interface" \in TypeStages /\ "interface" \in StageSet
    BY StageFacts DEF TypeStages
  <2>2. r \in RowsIn(ns, "interface")
    BY <1>3, <2>1, TookBuild DEF SkipInterface
  <2>3. \A arch : ~Sound(r, arch)
    BY <1>3, <2>2 DEF SkipInterface, RowsIn, emitArches, Sound
  <2> QED
    BY <1>3, <2>1, <2>3, RefuseAccount DEF SkipInterface
<1>4. {"typedef", "enum", "delegate", "interface"} \subseteq TypeStages /\ {"struct", "amd64", "arm64"} \subseteq TypeStages
  BY DEF TypeStages
<1>5. ASSUME NEW s \in {"struct", "amd64", "arm64"}, StructNameTaken(s, r) PROVE AccountInv'
  BY <1>1, <1>4, <1>5 DEF StructNameTaken
<1> QED
  BY <1>1, <1>2, <1>3, <1>4, <1>5

\* A type that is declared, and what it declares beside itself.
LEMMA DeclareAccount ==
  ASSUME Account, NEW s \in TypeStages, NEW r \in todo, At(s, r), UNCHANGED <<seen, saved>>,
         typeNames' = typeNames \ {Id(r)},
         diags \subseteq diags', methods \subseteq methods', embeds \subseteq embeds',
         NEW new, decls' = decls \cup new,
         \A d \in new : d.ns = ns /\ d.of = r.name /\ d.arches = ArchesOf(s)
                          /\ d.kind \notin {"procs", "function", "inline", "closer"},
         \A id \in claimedNames' : id \in claimedNames \/ \E d \in new : d.id = id,
         TypeAccount(s, r)', s = "interface" /\ ~r.root => InterfaceAccount(r)', s = "enum" => MembersAccount(r)'
  PROVE  AccountInv'
<1>1. s \in StageSet /\ s \notin {"constant", "function", "closer"}
  BY TypeStagesFacts
<1>2. Accounted(s, r)'
  BY <1>1 DEF Accounted
<1>3. \A d \in new : /\ d.ns = ns /\ d.of = r.name /\ d.arches = ArchesOf(s) /\ d.kind # "procs"
                     /\ d.kind \in FunctionKinds => s = "function" /\ d.id \in FunctionIds(r)
                     /\ d.kind = "closer" => s = "closer" /\ Closable(r)
  BY DEF FunctionKinds
<1>4. \A id \in seen' : id \in seen \/ Tried(ns, id)'
  OBVIOUS
<1> QED
  BY <1>1, <1>2, <1>3, <1>4, BuildAccount

\* A typedef or a delegate is declared.
LEMMA SimpleAccount ==
  ASSUME Account, NEW s \in {"typedef", "delegate"}, NEW r \in todo, BuildSimple(s, r)
  PROVE  AccountInv'
<1> DEFINE new == {Decl(r, s, Id(r), emitArches)}
<1>1. s \in TypeStages /\ s \in StageSet /\ At(s, r)
  BY StageFacts DEF TypeStages, BuildSimple
<1>2. r.ns = ns /\ r.kind = s /\ ArchesOf(s) = emitArches
  BY <1>1, TookBuild DEF RowsIn, emitArches, ArchesOf
<1>3. /\ UNCHANGED <<seen, saved, claimedNames, methods, embeds, diags>>
      /\ typeNames' = typeNames \ {Id(r)} /\ decls' = decls \cup new
  BY DEF BuildSimple
<1>4. \A d \in new : d.ns = ns /\ d.of = r.name /\ d.arches = ArchesOf(s)
                       /\ d.kind \notin {"procs", "function", "inline", "closer"}
  BY <1>2 DEF Decl
<1>5. TypeAccount(s, r)'
  <2> DEFINE own == Decl(r, s, Id(r), emitArches)
  <2>1. own \in decls' /\ own.ns = r.ns /\ own.of = r.name /\ own.row = r.row /\ own.kind = s /\ own.arches = emitArches
    BY <1>3 DEF Decl
  <2> HIDE DEF own, new
  <2> QED
    BY <1>2, <2>1 DEF TypeAccount, Declared, ArchesOf
<1> HIDE DEF new
<1> QED
  BY <1>1, <1>3, <1>4, <1>5, DeclareAccount

\* An enum is declared, and its free members beside it.
LEMMA EnumAccount ==
  ASSUME Account, NEW r \in todo, BuildEnum(r)
  PROVE  AccountInv'
<1> DEFINE free == {Export[m] : m \in r.members} \ claimedNames
           own == Decl(r, "enum", Id(r), emitArches)
           new == {own} \cup {Decl(r, "member", id, emitArches) : id \in free}
<1>1. "enum" \in TypeStages /\ "enum" \in StageSet /\ At("enum", r)
  BY StageFacts DEF TypeStages, BuildEnum
<1>2. r.ns = ns /\ r.kind = "enum" /\ ArchesOf("enum") = emitArches
  BY <1>1, TookBuild DEF RowsIn, emitArches, ArchesOf
<1>3. /\ UNCHANGED <<seen, saved, methods, embeds>> /\ diags \subseteq diags'
      /\ typeNames' = typeNames \ {Id(r)} /\ decls' = decls \cup new /\ claimedNames' = claimedNames \cup free
  BY DEF BuildEnum
<1>4. \A d \in new : d.ns = ns /\ d.of = r.name /\ d.arches = ArchesOf("enum")
                       /\ d.kind \notin {"procs", "function", "inline", "closer"}
  BY <1>2 DEF Decl
<1>5. \A id \in claimedNames' : id \in claimedNames \/ \E d \in new : d.id = id
  <2>1. \A id \in free : Decl(r, "member", id, emitArches) \in new /\ Decl(r, "member", id, emitArches).id = id
    BY DEF Decl
  <2> HIDE DEF new, free
  <2> QED
    BY <1>3, <2>1
<1>6. TypeAccount("enum", r)'
  <2>1. own \in decls' /\ own.ns = r.ns /\ own.of = r.name /\ own.row = r.row /\ own.kind = "enum" /\ own.arches = emitArches
    BY <1>3 DEF Decl
  <2> HIDE DEF own, new
  <2> QED
    BY <1>2, <2>1 DEF TypeAccount, Declared, ArchesOf
<1>7. MembersAccount(r)'
  <2>1. CASE free = {Export[m] : m \in r.members} /\ OneEach(r.members)
    <3>1. \A m \in r.members : Decl(r, "member", Export[m], emitArches) \in decls'
      BY <1>3, <2>1
    <3>2. \A id : LET d == Decl(r, "member", id, emitArches) IN
            d.ns = r.ns /\ d.of = r.name /\ d.row = r.row /\ d.kind = "member" /\ d.id = id
      BY DEF Decl
    <3> HIDE DEF new, free, own
    <3> QED
      BY <2>1, <3>1, <3>2 DEF MembersAccount, MembersDeclared, OneEach
  <2>2. CASE ~(free = {Export[m] : m \in r.members} /\ OneEach(r.members))
    BY <2>2 DEF BuildEnum, MembersAccount, Diag
  <2> QED
    BY <2>1, <2>2
<1> HIDE DEF new, free
<1> QED
  BY <1>1, <1>3, <1>4, <1>5, <1>6, <1>7, DeclareAccount

\* A nested name of the struct at hand that something has claimed: a type has it,
\* or the declaration of another row, unless that row is the struct's rival.
LEMMA ClaimedByAnother ==
  ASSUME Account, NEW s \in {"struct", "amd64", "arm64"}, NEW r \in todo, At(s, r),
         NEW id \in claimedNames, ~IsType(r.ns, id), \A d \in decls : d.ns = r.ns /\ d.id = id => d.of = r.name
  PROVE  Rival(r)
<1> USE DEF Account, AccountInv
<1>1. s \in StageSet /\ s \in TypeStages
  BY StageFacts DEF TypeStages
<1>2. /\ Building /\ stage = s /\ r \in RowsIn(ns, s) /\ r \in ir /\ r.ns = ns /\ ns \notin emitted /\ ~Took(s, r)
  BY <1>1, TookBuild
<1>3. Live = ArchesOf(s)
  BY <1>2 DEF Live
<1>4. PICK d \in Visible(Live) : d.id = id
  BY <1>2 DEF ReasonInv, Reason
<1>5. d \in decls /\ d.ns = ns /\ d.of = r.name /\ d.arches \cap ArchesOf(s) # {}
  BY <1>2, <1>3, <1>4 DEF Visible
<1>6. PICK t \in StageSet, q \in ir : From(d, t, q)
  BY <1>2, <1>5 DEF OriginInv
<1>7. Took(t, q) /\ q.ns = ns /\ q.name = r.name /\ d.arches = ArchesOf(t) /\ q \in RowsIn(ns, t)
  BY <1>5, <1>6 DEF From, Took
<1>8. Pos(t) < Pos(s) \/ t = s
  BY <1>2, <1>7 DEF Took
<1>9. t \in {"typedef", "enum", "struct", "amd64", "arm64"}
  BY <1>8, StageFacts
<1>10. t \in TypeStages /\ q.kind \in TypeKinds
  BY <1>7, <1>9, RowKinds DEF TypeStages
<1>11. q # r
  <2> SUFFICES ASSUME q = r PROVE FALSE
    OBVIOUS
  <2>1. t # s
    BY <1>2, <1>7
  <2>2. s = "arm64" /\ t = "amd64"
    BY <1>1, <1>2, <1>7, <1>8, <1>10, <2>1, RowKinds, StageFacts DEF emitArches
  <2> QED
    BY <1>5, <1>7, <2>2 DEF ArchesOf, emitArches
<1> QED
  BY <1>2, <1>7, <1>10, <1>11 DEF Rival, Id

\* A struct is declared, or given up: a nested name was claimed, or it cannot be.
LEMMA StructAccount ==
  ASSUME Account, NEW s \in {"struct", "amd64", "arm64"}, NEW r \in todo, BuildStruct(s, r)
  PROVE  AccountInv'
<1> DEFINE v == VariantIn(s, r)
           siblings == IF v.opaque THEN {} ELSE v.nested \ claimedNames
           built == v.builds /\ (v.opaque \/ siblings = v.nested)
           own == Decl(r, "struct", Id(r), ArchesOf(s))
           nested(id) == Decl(r, "nested", id, ArchesOf(s))
           new == {nested(id) : id \in siblings} \cup (IF built THEN {own} ELSE {})
<1>1. s \in TypeStages /\ s \in StageSet /\ At(s, r)
  BY StageFacts DEF TypeStages, BuildStruct
<1>2. r.ns = ns /\ r.kind = "struct" /\ (IF r.perArch THEN s \in emitArches ELSE s = "struct") /\ r \in RowsIn(ns, s)
  BY <1>1, TookBuild DEF RowsIn, emitArches
<1>3. /\ UNCHANGED <<ir, seen, saved, methods, embeds>> /\ diags \subseteq diags' /\ (~built => Diag(r, s) \in diags')
      /\ typeNames' = typeNames \ {Id(r)} /\ decls' = decls \cup new
      /\ claimedNames' = (claimedNames \cup siblings) \ (IF built THEN {} ELSE {Id(r)})
  BY DEF BuildStruct, At
<1>4. \A d \in new : d.ns = ns /\ d.of = r.name /\ d.arches = ArchesOf(s)
                       /\ d.kind \notin {"procs", "function", "inline", "closer"}
  BY <1>2 DEF Decl
<1>5. \A id \in claimedNames' : id \in claimedNames \/ \E d \in new : d.id = id
  <2>1. \A id \in siblings : nested(id) \in new /\ nested(id).id = id
    BY DEF Decl
  <2> HIDE DEF new, siblings, built
  <2> QED
    BY <1>3, <2>1
<1>6. TypeAccount(s, r)'
  <2>1. CASE built
    <3>1. own \in decls' /\ own.ns = r.ns /\ own.of = r.name /\ own.row = r.row /\ own.kind = "struct" /\ own.arches = ArchesOf(s)
      BY <1>3, <2>1 DEF Decl
    <3> HIDE DEF own, new, built, siblings
    <3> QED
      BY <1>2, <3>1 DEF TypeAccount, Declared, ArchesOf
  <2>2. CASE ~built
    <3>1. ASSUME NEW arch \in ArchesOf(s), Sound(r, arch)' PROVE Rival(r)
      <4>1. v = r.variants[IF r.perArch THEN arch ELSE "amd64"]
        BY <1>2, <3>1 DEF VariantIn, ArchesOf, emitArches
      <4>2. \A n, id : IsType(n, id)' = IsType(n, id)
        BY <1>3, IrSame
      <4>3. /\ v.builds
            /\ v.opaque \/ \A id \in v.nested :
                             ~IsType(r.ns, id) /\ \A d \in decls : d.ns = r.ns /\ d.id = id => d.of = r.name
        BY <1>2, <1>3, <3>1, <4>1, <4>2 DEF Sound
      <4>4. PICK id \in v.nested : id \in claimedNames /\ ~v.opaque
        BY <2>2, <4>3
      <4> QED
        BY <1>1, <4>3, <4>4, ClaimedByAnother
    <3>2. Rival(r)' = Rival(r)
      BY <1>3, IrSame
    <3>3. Diag(r, s) \in diags'
      BY <1>3, <2>2
    <3> QED
      BY <3>1, <3>2, <3>3 DEF TypeAccount, Diag, ArchesOf
  <2> QED
    BY <2>1, <2>2
<1> HIDE DEF new
<1> QED
  BY <1>1, <1>3, <1>4, <1>5, <1>6, DeclareAccount

\* An interface is declared; its methods and its base are there or are reported.
LEMMA InterfaceAccountKept ==
  ASSUME Account, NEW r \in todo, BuildInterface(r)
  PROVE  AccountInv'
<1> DEFINE iid == IID[Id(r)]
           named == r.guid /\ iid \notin claimedNames
           own == Decl(r, "interface", Id(r), emitArches)
           guid == Decl(r, "iid", iid, emitArches)
           new == {own} \cup (IF named THEN {guid} ELSE {})
           fits == IF r.root THEN {} ELSE {i \in DOMAIN r.methods : r.methods[i].is = "fits"}
           unfit == ~r.root /\ \E i \in DOMAIN r.methods : r.methods[i].is # "fits"
           derived == r.base # None /\ ~r.root
           method(i) == [ns |-> ns, of |-> r.name, pos |-> r.methods[i].pos, slot |-> Slot(r, i)]
<1>1. "interface" \in TypeStages /\ "interface" \in StageSet /\ At("interface", r)
  BY StageFacts DEF TypeStages, BuildInterface
<1>2. r.ns = ns /\ r.kind = "interface" /\ ArchesOf("interface") = emitArches
  BY <1>1, TookBuild DEF RowsIn, emitArches, ArchesOf
<1>3. /\ UNCHANGED <<seen, saved>> /\ diags \subseteq diags' /\ methods \subseteq methods' /\ embeds \subseteq embeds'
      /\ typeNames' = typeNames \ {Id(r)} /\ decls' = decls \cup new
      /\ claimedNames' = claimedNames \cup (IF named THEN {iid} ELSE {})
  BY DEF BuildInterface
<1>4. /\ unfit => Diag(r, "method") \in diags'
      /\ derived /\ ~r.severed => <<ns, r.name>> \in embeds'
      /\ derived /\ r.severed => Diag(r, "base") \in diags'
      /\ \A i \in fits : method(i) \in methods'
  BY DEF BuildInterface
<1>5. \A d \in new : d.ns = ns /\ d.of = r.name /\ d.arches = ArchesOf("interface")
                       /\ d.kind \notin {"procs", "function", "inline", "closer"}
  BY <1>2 DEF Decl
<1>6. \A id \in claimedNames' : id \in claimedNames \/ \E d \in new : d.id = id
  <2>1. named => guid \in new /\ guid.id = iid
    BY DEF Decl
  <2> HIDE DEF new, named, guid, iid
  <2> QED
    BY <1>3, <2>1
<1>7. TypeAccount("interface", r)'
  <2>1. own \in decls' /\ own.ns = r.ns /\ own.of = r.name /\ own.row = r.row /\ own.kind = "interface" /\ own.arches = emitArches
    BY <1>3 DEF Decl
  <2> HIDE DEF own, new
  <2> QED
    BY <1>2, <2>1 DEF TypeAccount, Declared, ArchesOf
<1>8. ASSUME ~r.root PROVE InterfaceAccount(r)'
  <2>1. \A i : method(i).ns = ns /\ method(i).of = r.name /\ method(i).pos = r.methods[i].pos
    OBVIOUS
  <2>2. unfit \/ \A i \in DOMAIN r.methods : i \in fits
    BY <1>8
  <2>3. Diag(r, "method") \in diags' \/ \A i \in DOMAIN r.methods : \E m \in methods' : m.ns = r.ns /\ m.of = r.name /\ m.pos = r.methods[i].pos
    <3> HIDE DEF unfit, fits, method
    <3> QED
      BY <1>2, <1>4, <2>1, <2>2
  <2>4. r.base = None \/ <<r.ns, r.name>> \in embeds' \/ Diag(r, "base") \in diags'
    BY <1>2, <1>4, <1>8
  <2> QED
    BY <2>3, <2>4 DEF InterfaceAccount, Diag
<1> HIDE DEF new, named, iid
<1> QED
  BY <1>1, <1>3, <1>5, <1>6, <1>7, <1>8, DeclareAccount

\* A value that is declared or reported, and no type's name is taken.
LEMMA ValueAccount ==
  ASSUME Account, NEW s \in {"constant", "function", "closer"}, NEW r \in todo, At(s, r), UNCHANGED <<typeNames, saved, methods, embeds>>,
         diags \subseteq diags',
         NEW new, decls' = decls \cup new,
         \A d \in new : /\ d.ns = ns /\ d.of = r.name /\ d.arches = emitArches /\ d.kind # "procs"
                        /\ d.kind \in FunctionKinds => s = "function" /\ d.id \in FunctionIds(r)
                        /\ d.kind = "closer" => s = "closer" /\ Closable(r),
         \A id \in claimedNames' : id \in claimedNames \/ \E d \in new : d.id = id,
         \A id \in seen' : id \in seen \/ Tried(ns, id)',
         s = "function" /\ r.amd64 => Tried(ns, Id(r))',
         s = "constant" => Declared(r, "constant", "amd64")' \/ Diag(r, "constant") \in diags',
         s = "closer" /\ r.handle => Declared(r, "closer", "amd64")' \/ Diag(r, "closer") \in diags'
  PROVE  AccountInv'
<1>1. s \in StageSet /\ s \notin TypeStages /\ ArchesOf(s) = emitArches
  BY StageFacts DEF TypeStages, ArchesOf, emitArches
<1>2. r.ns = ns /\ ns' = ns /\ UNCHANGED ir
  BY <1>1, TookBuild DEF At
<1>3. Accounted(s, r)'
  <2>1. Tried(r.ns, Id(r))' <=> Tried(ns, Id(r))'
    BY <1>2
  <2> QED
    BY <1>1, <2>1 DEF Accounted, TypeStages, Diag
<1>4. \A d \in new : d.arches = ArchesOf(s)
  BY <1>1
<1> QED
  BY <1>1, <1>3, <1>4, BuildAccount

\* A constant is declared or reported.
LEMMA ConstantAccount ==
  ASSUME Account, NEW r \in todo, BuildConstant(r)
  PROVE  AccountInv'
<1> DEFINE built == Id(r) \notin claimedNames /\ r.builds
           own == Decl(r, "constant", Id(r), emitArches)
           new == IF built THEN {own} ELSE {}
<1>1. At("constant", r) /\ "constant" \in StageSet
  BY StageFacts DEF BuildConstant
<1>2. r.ns = ns
  BY <1>1, TookBuild
<1>3. /\ UNCHANGED <<seen, saved, typeNames, methods, embeds>> /\ diags \subseteq diags' /\ decls' = decls \cup new
      /\ claimedNames' = claimedNames \cup (IF built THEN {Id(r)} ELSE {})
      /\ ~built => Diag(r, "constant") \in diags'
  BY DEF BuildConstant
<1>4. own.ns = ns /\ own.of = r.name /\ own.row = r.row /\ own.arches = emitArches /\ own.kind = "constant" /\ own.id = Id(r)
  BY <1>2 DEF Decl
<1> HIDE DEF own, built
<1>5. Declared(r, "constant", "amd64")' \/ Diag(r, "constant") \in diags'
  BY <1>2, <1>3, <1>4 DEF Declared, emitArches
<1>6. \A id \in claimedNames' : id \in claimedNames \/ \E d \in new : d.id = id
  BY <1>3, <1>4
<1>7. \A d \in new : /\ d.ns = ns /\ d.of = r.name /\ d.arches = emitArches /\ d.kind = "constant"
  BY <1>4
<1> HIDE DEF new
<1> QED
  BY <1>1, <1>3, <1>5, <1>6, <1>7, ValueAccount DEF FunctionKinds

\* A closer is declared or reported.
LEMMA CloserAccount ==
  ASSUME Account, NEW r \in todo, BuildCloser(r)
  PROVE  AccountInv'
<1> DEFINE cid == CloserName[Id(r)]
           built == Closable(r) /\ cid \notin claimedNames
           own == Decl(r, "closer", cid, emitArches)
           new == IF built THEN {own} ELSE {}
<1>1. At("closer", r) /\ "closer" \in StageSet
  BY StageFacts DEF BuildCloser
<1>2. r.ns = ns
  BY <1>1, TookBuild
<1>3. /\ UNCHANGED <<seen, saved, typeNames, methods, embeds>> /\ diags \subseteq diags' /\ decls' = decls \cup new
      /\ claimedNames' = claimedNames \cup (IF built THEN {cid} ELSE {})
      /\ ~built => Diag(r, "closer") \in diags'
  BY DEF BuildCloser
<1>4. own.ns = ns /\ own.of = r.name /\ own.row = r.row /\ own.arches = emitArches /\ own.kind = "closer" /\ own.id = cid
  BY <1>2 DEF Decl
<1>5. built => Closable(r)
  OBVIOUS
<1> HIDE DEF own, built, cid
<1>6. Declared(r, "closer", "amd64")' \/ Diag(r, "closer") \in diags'
  BY <1>2, <1>3, <1>4 DEF Declared, emitArches
<1>7. \A id \in claimedNames' : id \in claimedNames \/ \E d \in new : d.id = id
  BY <1>3, <1>4
<1>8. \A d \in new : /\ d.ns = ns /\ d.of = r.name /\ d.arches = emitArches /\ d.kind = "closer" /\ Closable(r)
  BY <1>4, <1>5
<1> HIDE DEF new
<1> QED
  BY <1>1, <1>3, <1>6, <1>7, <1>8, ValueAccount DEF FunctionKinds

\* A row that is passed over: no handle, or no first function of its name.
LEMMA PassAccount ==
  ASSUME Account, NEW r \in todo, PassOver(r) \/ NotAHandle(r)
  PROVE  AccountInv'
<1> DEFINE new == {}
<1>1. /\ UNCHANGED <<claimedNames, typeNames, seen, saved, methods, embeds, diags>> /\ decls' = decls \cup new
      /\ \A d \in new : /\ d.ns = ns /\ d.of = r.name /\ d.arches = emitArches /\ d.kind # "procs"
                        /\ d.kind \notin FunctionKinds /\ d.kind # "closer"
  BY DEF PassOver, NotAHandle, names, output
<1> HIDE DEF new
<1>2. CASE PassOver(r)
  <2>1. At("function", r) /\ "function" \in StageSet
    BY <1>2, StageFacts DEF PassOver
  <2>2. Building /\ UNCHANGED <<ir, ns>>
    BY <2>1, TookBuild DEF At
  <2>3. ~r.amd64 \/ Tried(ns, Id(r))
    BY <1>2, <2>2 DEF PassOver, BuildsFirst, Account, AccountInv, SeenInv
  <2>4. r.amd64 => Tried(ns, Id(r))'
    <3>1. \A n, id : Tried(n, id) => Tried(n, id)'
      BY <1>1, <2>2, AccountGrows
    <3> QED
      BY <2>2, <2>3, <3>1
  <2> QED
    BY <1>1, <2>1, <2>4, ValueAccount
<1>3. CASE NotAHandle(r)
  BY <1>1, <1>3, ValueAccount DEF NotAHandle
<1> QED
  BY <1>2, <1>3

\* A name that is claimed for a function is one of its own, and not claimed yet.
LEMMA ClaimFacts ==
  ASSUME WinmdOK, NEW r \in winmd, r.kind = "function"
  PROVE  /\ claimFunctionName(r) = None => Id(r) \in claimedNames
         /\ claimFunctionName(r) # None => claimFunctionName(r) \in FunctionIds(r)
<1> DEFINE c == Candidates(r)
           free == {k \in DOMAIN c : c[k] \notin claimedNames}
<1>1. \/ r.unsuffixed = None /\ DOMAIN c = {1} /\ c[1] = Id(r)
      \/ r.unsuffixed # None /\ DOMAIN c = {1, 2} /\ c[1] = Export[r.unsuffixed] /\ c[2] = Id(r)
  <2>1. DOMAIN <<Id(r)>> = {1} /\ DOMAIN <<Export[r.unsuffixed], Id(r)>> = {1, 2}
    OBVIOUS
  <2> QED
    BY <2>1 DEF Candidates
<1>2. Id(r) # None /\ (r.unsuffixed # None => Export[r.unsuffixed] # None)
  BY RowsAssumption, NamingAssumption DEF WinmdOK, Id
<1>3. free # {} => Min(free) \in free
  BY <1>1 DEF Min
<1>4. claimFunctionName(r) = IF free = {} THEN None ELSE c[Min(free)]
  BY DEF claimFunctionName
<1>5. \A k \in free : c[k] \in FunctionIds(r) /\ c[k] # None
  BY <1>1, <1>2 DEF FunctionIds
<1>6. free = {} => Id(r) \in claimedNames
  BY <1>1
<1> HIDE DEF free, c
<1> QED
  BY <1>3, <1>4, <1>5, <1>6

\* A function that builds and has not got its name cannot have it.
LEMMA NoNameLeft ==
  ASSUME Account, NEW r \in todo, At("function", r), Id(r) \in claimedNames
  PROVE  NameGone(r)
<1> USE DEF Account, AccountInv
<1>1. /\ "function" \in StageSet /\ Building /\ stage = "function" /\ r \in ir /\ r.ns = ns /\ ns \notin emitted
  BY StageFacts, TookBuild
<1>2. Reason(Id(r), Live)
  BY <1>1 DEF ReasonInv
<1>3. ASSUME NEW d \in decls, d.ns = ns, d.id = Id(r), d.kind \in FunctionKinds PROVE NameGone(r)
  <2>1. PICK t \in StageSet, g \in ir : From(d, t, g)
    BY <1>1, <1>3 DEF OriginInv, FunctionKinds
  <2>2. Took("function", g) /\ g.ns = ns /\ g.name = d.of /\ d.id \in FunctionIds(g)
    BY <1>3, <2>1 DEF From
  <2>3. g \in RowsOf("function") \ todo
    BY <1>1, <2>2, StageFacts DEF Took, RowsOf
  <2>4. Rank[g.name] <= Rank[r.name]
    BY <1>1, <2>3 DEF SeenInv
  <2>5. g.kind = "function"
    BY <2>3 DEF RowsOf, RowsIn, emitArches
  <2> QED
    BY <1>1, <1>3, <2>2, <2>4, <2>5 DEF NameGone
<1>4. ASSUME NEW d \in decls, d.ns = ns, d.id = Id(r), d.kind \notin FunctionKinds PROVE NameGone(r)
  BY <1>1, <1>4 DEF NameGone
<1> QED
  BY <1>1, <1>2, <1>3, <1>4 DEF Reason, Visible, NameGone

\* A function is declared under a name of its own, or reported for want of one.
LEMMA FunctionAccount ==
  ASSUME Account, NEW r \in todo, BuildFunction(r)
  PROVE  AccountInv'
<1> DEFINE goName == IF r.builds THEN claimFunctionName(r) ELSE None
           own == Decl(r, IF r.loadable THEN "function" ELSE "inline", goName, emitArches)
           new == IF goName = None THEN {} ELSE {own}
<1>1. At("function", r) /\ "function" \in StageSet
  BY StageFacts DEF BuildFunction
<1>2. /\ r.ns = ns /\ r \in ir /\ r \in RowsIn(ns, "function") /\ UNCHANGED <<ir, ns>> /\ Building
  BY <1>1, TookBuild DEF At
<1>3. r.kind = "function" /\ r \in winmd
  <2>1. r.kind = "function"
    BY <1>2 DEF RowsIn, emitArches
  <2> QED
    BY <1>2, <2>1, IrRows DEF Account, AccountInv, Inv
<1>4. /\ UNCHANGED <<saved, typeNames, methods, embeds>> /\ diags \subseteq diags' /\ decls' = decls \cup new
      /\ claimedNames' = claimedNames \cup (IF goName = None THEN {} ELSE {goName})
      /\ goName = None => Diag(r, "function") \in diags'
      /\ seen' = seen \cup {Id(r)}
  BY DEF BuildFunction
<1>5. /\ own.ns = ns /\ own.of = r.name /\ own.row = r.row /\ own.arches = emitArches /\ own.kind \in FunctionKinds
      /\ own.id = goName /\ own.kind \notin {"procs", "closer"}
  BY <1>2 DEF Decl, FunctionKinds
<1>6. /\ goName # None => goName \in FunctionIds(r)
      /\ goName = None => ~r.builds \/ Id(r) \in claimedNames
  BY <1>3, ClaimFacts DEF Account, Inv
<1> HIDE DEF goName, own
<1>7. Tried(ns, Id(r))'
  <2>1. CASE goName # None
    <3>1. own \in decls'
      BY <1>4, <2>1
    <3>2. Emitted(r)'
      BY <1>2, <1>5, <1>6, <2>1, <3>1 DEF Emitted, FunctionIds, Id
    <3> QED
      BY <1>2, <1>3, <3>2 DEF Tried
  <2>2. CASE goName = None
    <3>1. ~r.builds \/ NameGone(r)
      BY <1>1, <1>6, <2>2, NoNameLeft
    <3>2. NameGone(r) => NameGone(r)'
      BY <1>2, <1>4, IrSame DEF NameGone
    <3> QED
      BY <1>2, <1>3, <1>4, <2>2, <3>1, <3>2 DEF Tried, Diag
  <2> QED
    BY <2>1, <2>2
<1>8. \A id \in claimedNames' : id \in claimedNames \/ \E d \in new : d.id = id
  BY <1>4, <1>5
<1>9. \A d \in new : /\ d.ns = ns /\ d.of = r.name /\ d.arches = emitArches /\ d.kind \notin {"procs", "closer"}
                     /\ d.id \in FunctionIds(r)
  BY <1>5, <1>6
<1>10. \A id \in seen' : id \in seen \/ Tried(ns, id)'
  BY <1>4, <1>7
<1> HIDE DEF new
<1> QED
  BY <1>1, <1>4, <1>7, <1>8, <1>9, <1>10, ValueAccount

-----------------------------------------------------------------------------
(* The account from construct to construct *)

\* The next construct starts with what the ones before it have taken.
LEMMA TookMove ==
  ASSUME Account, NEW next \in StageSet, Building, todo = {}, Enter(next), Pos(next) = Pos(stage) + 1,
         UNCHANGED <<winmd, ir, emitted, ns>>
  PROVE  /\ Building'
         /\ \A s \in StageSet : \A r : Took(s, r)' <=> Took(s, r)
         /\ \A r \in RowsOf(stage) : Took(stage, r)
         /\ \A n, s : RowsIn(n, s)' = RowsIn(n, s)
         /\ \A s : RowsOf(s)' = RowsOf(s)
         /\ \A S : decls' = decls => Visible(S)' = Visible(S)
<1>1. Building' /\ stage' = next
  BY DEF Enter, Building
<1>2. \A n, s : RowsIn(n, s)' = RowsIn(n, s)
  BY IrSame
<1>3. \A s : RowsOf(s)' = RowsOf(s)
  BY <1>2 DEF RowsOf
<1>4. /\ \A s \in StageSet : Pos(s) \in Nat
      /\ \A s \in StageSet, t \in StageSet : Pos(s) = Pos(t) => s = t
  BY StageFacts
<1>5. \A s \in StageSet : \A r : Took(s, r) => Took(s, r)'
  BY <1>1, <1>2, <1>4 DEF Took, Building
<1>6. \A s \in StageSet : \A r : Took(s, r)' => Took(s, r)
  <2> SUFFICES ASSUME NEW s \in StageSet, NEW r, Took(s, r)' PROVE Took(s, r)
    OBVIOUS
  <2>1. CASE r.ns \in emitted
    BY <1>2, <2>1 DEF Took
  <2>2. CASE r.ns \notin emitted
    <3>1. r.ns = ns /\ r \in RowsIn(ns, s) /\ (Pos(s) < Pos(next) \/ (s = next /\ r \notin todo'))
      BY <1>1, <1>2, <2>2 DEF Took
    <3>2. todo' = RowsIn(ns, next)
      BY DEF Enter, RowsOf
    <3>3. Pos(s) < Pos(next)
      BY <3>1, <3>2
    <3>4. Pos(s) < Pos(stage) \/ s = stage
      BY <1>4, <3>3 DEF Building
    <3> QED
      BY <3>1, <3>4 DEF Took
  <2> QED
    BY <2>1, <2>2
<1>7. \A r \in RowsOf(stage) : Took(stage, r)
  BY DEF Took, RowsOf, RowsIn
<1>8. \A S : decls' = decls => Visible(S)' = Visible(S)
  BY DEF Visible
<1> QED
  BY <1>1, <1>2, <1>3, <1>5, <1>6, <1>7, <1>8

\* What does not depend on the names is carried over to the next construct.
LEMMA MoveAccount ==
  ASSUME Account, NEW next \in StageSet, Building, todo = {}, Enter(next), Pos(next) = Pos(stage) + 1,
         UNCHANGED <<winmd, ir, emitted, ns, seen, output>>, next # "closer"
  PROVE  TodoInv' /\ IngestInv' /\ OriginInv' /\ RowsInv' /\ SeenInv' /\ ProcsInv'
<1> USE DEF Account, AccountInv
<1>1. /\ Building' /\ stage' = next /\ todo' = RowsOf(next)
      /\ \A s \in StageSet : \A r : Took(s, r)' <=> Took(s, r)
      /\ \A s : RowsOf(s)' = RowsOf(s)
  BY TookMove DEF Enter
<1>2. UNCHANGED <<decls, diags, methods, embeds>>
  BY DEF output
<1>3. /\ \A n, id : Tried(n, id) => Tried(n, id)'
      /\ \A s, r : Accounted(s, r) => Accounted(s, r)'
  BY <1>2, AccountGrows
<1>4. TodoInv'
  BY <1>1 DEF TodoInv
<1>5. IngestInv'
  <2>1. stage \notin {"ingest", "failed"} /\ stage' \notin {"ingest", "failed"}
    BY <1>1, StageFacts DEF Building
  <2> QED
    BY <1>2, <2>1 DEF IngestInv, Ingested, Stays, SameName, Project, projectInterface, Projects, Fatal, Undecoded, Diag
<1>6. OriginInv'
  <2>1. \A d, s, r : s \in StageSet /\ From(d, s, r) => From(d, s, r)'
    BY <1>1, IrSame DEF From, ArchesOf, FunctionIds, Id
  <2>2. stage # "closer"
    <3>1. Pos(next) \in 1..11
      BY StageFacts
    <3> QED
      BY <3>1, StageFacts
  <2> QED
    BY <1>2, <2>1, <2>2 DEF OriginInv
<1>7. RowsInv'
  BY <1>1, <1>3 DEF RowsInv
<1>8. SeenInv'
  BY <1>1, <1>3 DEF SeenInv
<1>9. ProcsInv'
  <2>1. stage \in {"function", "procs"} => next \in {"function", "procs"}
    BY StageFacts
  <2> QED
    BY <1>1, <1>2, <2>1 DEF ProcsInv
<1> QED
  BY <1>4, <1>5, <1>6, <1>7, <1>8, <1>9

\* From construct to construct.
LEMMA NextStageAccount ==
  ASSUME Account, NextStage
  PROVE  AccountInv'
<1> DEFINE next == After(stage)
<1>1. /\ stage \in {"typedef", "enum", "delegate", "interface", "constant", "function"} /\ Building
      /\ next \in {"enum", "struct", "interface", "constant", "function", "procs"}
      /\ next \in StageSet /\ Pos(next) = Pos(stage) + 1
  BY StageFacts DEF NextStage, Building
<1>2. todo = {} /\ Enter(next) /\ UNCHANGED <<winmd, ir, emitted, ns, claimedNames, typeNames, seen, output>>
  BY DEF NextStage, names
<1>3. stage' = next
  BY <1>2 DEF Enter
<1> HIDE DEF next
<1>4. TodoInv' /\ IngestInv' /\ OriginInv' /\ RowsInv' /\ SeenInv' /\ ProcsInv'
  BY <1>1, <1>2, MoveAccount
<1>5. /\ Building' /\ \A s \in StageSet : \A r : Took(s, r)' <=> Took(s, r)
      /\ \A s : RowsOf(s)' = RowsOf(s)
      /\ \A S : Visible(S)' = Visible(S)
  BY <1>1, <1>2, TookMove DEF output
<1>6. WaitInv'
  <2>1. \A s \in TypeStages : Waiting(s, typeNames)
    BY <1>1 DEF Account, AccountInv, WaitInv
  <2>2. \A s \in TypeStages : Waiting(s, typeNames)'
    BY <1>2, <1>5, <2>1, TypeStagesFacts, IrSame DEF Waiting, Id
  <2> QED
    BY <1>1, <1>3, <2>2 DEF WaitInv
<1>7. ReasonInv'
  <2>1. Live' = Live
    BY <1>1, <1>3 DEF Live, ArchesOf, emitArches
  <2>2. \A id \in claimedNames : Reason(id, Live)
    BY <1>1 DEF Account, AccountInv, ReasonInv
  <2>3. \A id, S : Reason(id, S) => Reason(id, S)'
    BY <1>2, <1>5, IrSame DEF Reason
  <2> QED
    BY <1>1, <1>2, <1>3, <2>1, <2>2, <2>3 DEF ReasonInv
<1> QED
  BY <1>4, <1>6, <1>7 DEF AccountInv

\* Before the two passes a claimed name has the same reason on each architecture.
LEMMA ReasonOnEach ==
  ASSUME Account, stage = "struct", NEW id \in claimedNames, NEW arch \in emitArches
  PROVE  Reason(id, {arch})
<1> USE DEF Account, AccountInv
<1>1. Building /\ ns \notin emitted /\ Live = emitArches
  BY StageFacts DEF Building, Live, ArchesOf, emitArches, Inv, IInv, PlaceInv
<1>2. ASSUME NEW d \in Visible(Live), d.id = id PROVE d \in Visible({arch})
  <2>1. d \in decls /\ d.ns = ns
    BY <1>2 DEF Visible
  <2>2. PICK t \in StageSet, q \in ir : From(d, t, q)
    BY <1>1, <2>1 DEF OriginInv
  <2>3. Took(t, q) /\ q.ns = ns /\ d.arches = ArchesOf(t)
    BY <2>1, <2>2 DEF From
  <2>4. Pos(t) <= 3
    BY <1>1, <2>3, StageFacts DEF Took
  <2>5. t \notin emitArches
    BY <2>4, StageFacts DEF emitArches
  <2> QED
    BY <2>1, <2>3, <2>5 DEF Visible, ArchesOf
<1>3. Reason(id, Live)
  BY <1>1 DEF ReasonInv
<1> QED
  BY <1>2, <1>3 DEF Reason

\* The two passes.
LEMMA ArchAccount ==
  ASSUME Account, StartArch \/ SwitchArch \/ EndArch
  PROVE  AccountInv'
<1> DEFINE next == IF stage = "struct" THEN "amd64" ELSE IF stage = "amd64" THEN "arm64" ELSE "delegate"
<1>1. /\ stage \in {"struct", "amd64", "arm64"} /\ Building
      /\ next \in StageSet /\ Pos(next) = Pos(stage) + 1 /\ next \in {"amd64", "arm64", "delegate"}
  BY StageFacts DEF StartArch, SwitchArch, EndArch, Building
<1>2. todo = {} /\ Enter(next) /\ UNCHANGED <<winmd, ir, emitted, ns, seen, output>>
  BY DEF StartArch, SwitchArch, EndArch
<1>3. stage' = next
  BY <1>2 DEF Enter
<1>4. TodoInv' /\ IngestInv' /\ OriginInv' /\ RowsInv' /\ SeenInv' /\ ProcsInv'
  <2> HIDE DEF next
  <2> QED
    BY <1>1, <1>2, MoveAccount
<1>5. /\ Building' /\ \A s \in StageSet : \A r : Took(s, r)' <=> Took(s, r)
      /\ \A s : RowsOf(s)' = RowsOf(s)
      /\ \A S : Visible(S)' = Visible(S)
      /\ \A r \in RowsOf(stage) : Took(stage, r)
  <2> HIDE DEF next
  <2> QED
    BY <1>1, <1>2, TookMove DEF output
<1>6. \A id, S : Reason(id, S)' <=> Reason(id, S)
  BY <1>2, <1>5, IrSame DEF Reason
<1> DEFINE Waits(s, w) == \A r \in RowsOf(s) : Took(s, r) \/ Rival(r) \/ Id(r) \in w
<1>7. \A w : Waits(stage, w)
  BY <1>5
<1>8. \A s, w, x : Waits(s, w) /\ Waits(s, x) => Waits(s, w \cap x)
  OBVIOUS
<1>9. \A s, w : Waiting(s, w) <=> Waits(s, w)
  BY DEF Waiting
<1>10. ASSUME NEW s \in TypeStages PROVE /\ Waiting(s, typeNames)' <=> Waits(s, typeNames')
                                         /\ Waiting(s, saved.types)' <=> Waits(s, saved'.types)
                                         /\ Waiting(s, saved.left)' <=> Waits(s, saved'.left)
  <2>1. \A r : (Took(s, r)' <=> Took(s, r)) /\ Rival(r)' = Rival(r)
    BY <1>2, <1>5, IrSame, TypeStagesFacts
  <2> QED
    BY <1>5, <2>1 DEF Waiting, Id
<1> HIDE DEF Waits
<1>11. WaitInv /\ ReasonInv
  BY DEF Account, AccountInv
<1>12. CASE StartArch
  <2>1. stage = "struct" /\ stage' = "amd64" /\ Live = emitArches /\ Live' = {"amd64"}
    BY <1>12 DEF StartArch, Enter, Live, ArchesOf, emitArches
  <2>2. /\ UNCHANGED <<claimedNames, typeNames>> /\ saved'.claims = claimedNames /\ saved'.types = typeNames
        /\ saved'.union = claimedNames /\ saved'.left = typeNames
    BY <1>12 DEF StartArch
  <2>3. \A s \in TypeStages : Waits(s, typeNames)
    BY <1>1, <1>9, <1>11, <2>1 DEF WaitInv
  <2>4. WaitInv'
    BY <1>10, <2>1, <2>2, <2>3 DEF WaitInv
  <2>5. \A id \in claimedNames : Reason(id, {"amd64"}) /\ Reason(id, {"arm64"})
    BY <2>1, ReasonOnEach DEF emitArches
  <2>6. ReasonInv'
    BY <1>6, <2>1, <2>2, <2>5 DEF ReasonInv
  <2> QED
    BY <1>4, <2>4, <2>6 DEF AccountInv
<1>13. CASE SwitchArch
  <2>1. stage = "amd64" /\ stage' = "arm64" /\ Live = {"amd64"} /\ Live' = {"arm64"}
    BY <1>13 DEF SwitchArch, Enter, Live, ArchesOf, emitArches
  <2>2. saved' = [saved EXCEPT !.union = @ \cup claimedNames, !.left = @ \cap typeNames]
    BY <1>13 DEF SwitchArch
  <2>3. saved.left = saved.types /\ saved.union = saved.claims
    BY <1>1, <1>11, <2>1 DEF WaitInv
  <2>4. /\ claimedNames' = saved.claims /\ typeNames' = saved.types
        /\ \A id \in saved'.union : id \in saved.claims \/ id \in claimedNames
        /\ saved'.left = saved.types \cap typeNames \/ saved'.left = saved.left
    BY <1>13, <2>2, <2>3 DEF SwitchArch
  <2>5. \A s \in TypeStages : Waits(s, saved.types)
    BY <1>1, <1>7, <1>9, <1>11, <2>1 DEF WaitInv
  <2>6. \A s \in TypeStages \ {"arm64"} : Waits(s, typeNames)
    BY <1>1, <1>9, <1>11, <2>1 DEF WaitInv
  <2>7. WaitInv'
    BY <1>8, <1>10, <2>1, <2>3, <2>4, <2>5, <2>6 DEF WaitInv
  <2>8. /\ \A id \in claimedNames : Reason(id, {"amd64"})
        /\ \A id \in saved.claims : Reason(id, {"amd64"}) /\ Reason(id, {"arm64"})
    BY <1>1, <1>11, <2>1 DEF ReasonInv
  <2>9. ReasonInv'
    BY <1>6, <2>1, <2>4, <2>8 DEF ReasonInv
  <2> QED
    BY <1>4, <2>7, <2>9 DEF AccountInv
<1>14. CASE EndArch
  <2>1. stage = "arm64" /\ stage' = "delegate" /\ Live = {"arm64"} /\ Live' = emitArches
    BY <1>14 DEF EndArch, Enter, Live, ArchesOf, emitArches
  <2>2. claimedNames' = saved.union \cup claimedNames /\ typeNames' = saved.left \cap typeNames
    BY <1>14 DEF EndArch
  <2>3. \A s \in TypeStages : Waits(s, saved.left) /\ Waits(s, typeNames)
    BY <1>1, <1>7, <1>9, <1>11, <2>1 DEF WaitInv
  <2>4. WaitInv'
    BY <1>8, <1>10, <2>1, <2>2, <2>3 DEF WaitInv
  <2>5. /\ \A id \in claimedNames : Reason(id, {"arm64"})
        /\ \A id \in saved.union : Reason(id, {"amd64"})
    BY <1>1, <1>11, <2>1 DEF ReasonInv
  <2>6. \A id : Reason(id, {"amd64"}) \/ Reason(id, {"arm64"}) => Reason(id, emitArches)
    BY DEF Reason, Visible, emitArches
  <2>7. ReasonInv'
    BY <1>6, <2>1, <2>2, <2>5, <2>6 DEF ReasonInv
  <2> QED
    BY <1>4, <2>4, <2>7 DEF AccountInv
<1> QED
  BY <1>12, <1>13, <1>14

\* The probe table is nobody's row.
LEMMA ProcsAccount ==
  ASSUME Account, DeclareProcs
  PROVE  AccountInv'
<1> USE DEF Account, AccountInv
<1> DEFINE table == [ns |-> ns, kind |-> "procs", of |-> Procs, row |-> 0, id |-> Procs, arches |-> emitArches]
           probed == \E d \in decls : d.ns = ns /\ d.kind = "function"
           lost == [ns |-> ns, kind |-> "procs", of |-> Procs, row |-> 0]
<1>1. /\ stage = "procs" /\ stage' = "closer" /\ Building /\ Enter("closer") /\ "closer" \in StageSet
      /\ Pos("closer") = Pos(stage) + 1 /\ Live = emitArches /\ Live' = emitArches
  BY StageFacts DEF DeclareProcs, Enter, Building, Live, ArchesOf, emitArches
<1>2. UNCHANGED <<winmd, ir, emitted, ns, typeNames, seen, saved, methods, embeds>> /\ diags \subseteq diags'
  BY DEF DeclareProcs
<1>3. \/ decls' = decls /\ claimedNames' = claimedNames
      \/ decls' = decls \cup {table} /\ claimedNames' = claimedNames \cup {Procs}
  BY DEF DeclareProcs
<1>4. probed => table \in decls' \/ lost \in diags'
  BY DEF DeclareProcs
<1>5. /\ table.ns = ns /\ table.kind = "procs" /\ table.id = Procs /\ table.arches = emitArches
      /\ lost.ns = ns /\ lost.kind = "procs"
  OBVIOUS
<1>6. todo = {}
  <2>1. \A r \in ir : r.kind # "procs"
    BY IrRows DEF Inv, TypeKinds
  <2> QED
    BY <1>1, <2>1 DEF TodoInv, RowsOf, RowsIn, emitArches
<1> HIDE DEF table, lost
<1>7. /\ Building'
      /\ \A s \in StageSet : \A r : Took(s, r)' <=> Took(s, r)
      /\ \A s : RowsOf(s)' = RowsOf(s)
  BY <1>1, <1>2, <1>6, TookMove
<1>8. decls \subseteq decls' /\ \A d \in decls' : d \in decls \/ d = table
  BY <1>3
<1>9. /\ \A n, id : Tried(n, id) => Tried(n, id)'
      /\ \A s, r : Accounted(s, r) => Accounted(s, r)'
  BY <1>2, <1>8, AccountGrows
<1>10. TodoInv'
  BY <1>1, <1>7 DEF TodoInv, Enter
<1>11. IngestInv'
  BY <1>1, <1>2 DEF IngestInv, Ingested, Stays, SameName, Project, projectInterface, Projects, Fatal, Undecoded, Diag
<1>12. WaitInv'
  <2>1. \A s \in TypeStages : Waiting(s, typeNames)
    BY <1>1 DEF WaitInv
  <2>2. \A s \in TypeStages : Waiting(s, typeNames)'
    BY <1>2, <1>7, <2>1, TypeStagesFacts, IrSame DEF Waiting, Id
  <2> QED
    BY <1>1, <2>2 DEF WaitInv
<1>13. ReasonInv'
  <2>1. \A id \in claimedNames : Reason(id, emitArches)
    BY <1>1 DEF ReasonInv
  <2>2. \A id : Reason(id, emitArches) => Reason(id, emitArches)'
    BY <1>2, <1>8, IrSame DEF Reason, Visible, emitArches
  <2>3. table \in decls' => Reason(Procs, emitArches)'
    BY <1>2, <1>5 DEF Reason, Visible, emitArches
  <2> QED
    BY <1>1, <1>3, <2>1, <2>2, <2>3 DEF ReasonInv
<1>14. OriginInv'
  <2>1. \A d, s, r : s \in StageSet /\ From(d, s, r) => From(d, s, r)'
    BY <1>2, <1>7, IrSame DEF From, ArchesOf, FunctionIds, Id
  <2> QED
    BY <1>1, <1>2, <1>5, <1>8, <2>1 DEF OriginInv
<1>15. RowsInv'
  BY <1>2, <1>7, <1>9 DEF RowsInv
<1>16. SeenInv'
  BY <1>1, <1>2, <1>9 DEF SeenInv
<1>17. ProcsInv'
  <2>1. ASSUME NEW d \in decls, d.kind = "function"
        PROVE  \E e \in decls' \cup diags' : e.ns = d.ns /\ e.kind = "procs"
    <3>1. CASE d.ns = ns
      BY <1>4, <1>5, <2>1, <3>1
    <3>2. CASE d.ns # ns
      BY <1>2, <1>8, <2>1, <3>2 DEF ProcsInv
    <3> QED
      BY <3>1, <3>2
  <2> QED
    BY <1>5, <1>8, <2>1 DEF ProcsInv
<1> QED
  BY <1>10, <1>11, <1>12, <1>13, <1>14, <1>15, <1>16, <1>17

\* What does not depend on the construct at hand is carried over between
\* namespaces.
LEMMA BetweenAccount ==
  ASSUME Account, UNCHANGED <<winmd, ir, output>>, stage \notin {"ingest", "failed"}, stage' \notin {"ingest", "failed"},
         \A s \in StageSet, r \in ir : Took(s, r)' <=> Took(s, r),
         \A d \in decls : d.kind = "procs" => d.ns \in emitted'
  PROVE  IngestInv' /\ OriginInv' /\ RowsInv'
<1> USE DEF Account, AccountInv
<1>1. UNCHANGED <<decls, diags, methods, embeds>>
  BY DEF output
<1>2. IngestInv'
  BY <1>1 DEF IngestInv, Ingested, Stays, SameName, Project, projectInterface, Projects, Fatal, Undecoded, Diag
<1>3. OriginInv'
  <2>1. \A d : \A s \in StageSet, r \in ir : From(d, s, r) => From(d, s, r)'
    BY IrSame DEF From, ArchesOf, FunctionIds, Id
  <2> QED
    BY <1>1, <2>1 DEF OriginInv
<1>4. RowsInv'
  BY <1>1, AccountGrows DEF RowsInv
<1> QED
  BY <1>2, <1>3, <1>4

\* A finished namespace keeps what its constructs have taken.
LEMMA EndAccount ==
  ASSUME Account, EndNamespace
  PROVE  AccountInv'
<1> USE DEF Account, AccountInv
<1>1. /\ stage = "closer" /\ stage' = "loaded" /\ Building /\ ~Building' /\ todo = {} /\ emitted' = emitted \cup {ns}
      /\ UNCHANGED <<winmd, ir, output>> /\ ns \notin emitted
  BY StageFacts DEF EndNamespace, Building, Inv, IInv, PlaceInv
<1>2. \A s \in StageSet, r \in ir : Took(s, r)' <=> Took(s, r)
  <2>1. \A n, s : RowsIn(n, s)' = RowsIn(n, s)
    BY <1>1, IrSame
  <2>2. \A s \in StageSet : Pos(s) < Pos(stage) \/ s = stage
    BY <1>1, StageFacts
  <2> QED
    BY <1>1, <2>1, <2>2 DEF Took
<1>3. \A d \in decls : d.ns \in emitted'
  BY <1>1 DEF Inv, IInv, PlaceInv
<1>4. IngestInv' /\ OriginInv' /\ RowsInv'
  BY <1>1, <1>2, <1>3, BetweenAccount
<1>5. TodoInv' /\ WaitInv' /\ ReasonInv' /\ SeenInv'
  BY <1>1 DEF TodoInv, WaitInv, ReasonInv, SeenInv
<1>6. ProcsInv'
  BY <1>1 DEF ProcsInv, output
<1> QED
  BY <1>4, <1>5, <1>6

\* A namespace starts with its types waiting and nothing taken.
LEMMA StartAccount ==
  ASSUME Account, NEW n \in Namespaces, StartNamespace(n)
  PROVE  AccountInv'
<1> USE DEF Account, AccountInv
<1>1. /\ stage = "loaded" /\ stage' = "typedef" /\ ~Building /\ Building' /\ ns' = n /\ n \notin emitted
      /\ UNCHANGED <<winmd, ir, emitted, output>> /\ seen' = {} /\ Live' = emitArches
      /\ claimedNames' = prepareNamespaceClaims(n) /\ typeNames' = prepareNamespaceClaims(n)
      /\ todo' = {r \in ir : r.ns = n /\ r.kind = "typedef"}
  BY StageFacts DEF StartNamespace, Building, Live, ArchesOf, emitArches
<1>2. \A m, s : RowsIn(m, s)' = RowsIn(m, s)
  BY <1>1, IrSame
<1>3. todo' = RowsIn(n, "typedef")
  BY <1>1 DEF RowsIn, emitArches
<1>4. \A s \in StageSet, r \in ir : Took(s, r)' <=> Took(s, r)
  <2>1. \A s \in StageSet : ~(Pos(s) < Pos("typedef"))
    BY StageFacts
  <2> QED
    BY <1>1, <1>2, <1>3, <2>1 DEF Took
<1>5. \A d \in decls : d.kind = "procs" => d.ns \in emitted'
  BY <1>1 DEF OriginInv
<1>6. IngestInv' /\ OriginInv' /\ RowsInv'
  BY <1>1, <1>4, <1>5, BetweenAccount
<1>7. TodoInv'
  BY <1>1, <1>2, <1>3 DEF TodoInv, RowsOf
<1>8. WaitInv'
  <2>1. ASSUME NEW s \in TypeStages, NEW r \in RowsIn(n, s) PROVE Id(r) \in prepareNamespaceClaims(n)
    <3>1. r \in ir /\ r.ns = n /\ r.kind \in TypeKinds
      BY RowKinds DEF RowsIn
    <3> QED
      BY <3>1 DEF prepareNamespaceClaims
  <2>2. \A s \in TypeStages : Waiting(s, typeNames)'
    BY <1>1, <1>2, <2>1 DEF Waiting, RowsOf, Id
  <2> QED
    BY <1>1, <2>2 DEF WaitInv
<1>9. ReasonInv'
  <2>1. \A id \in prepareNamespaceClaims(n) : IsType(n, id)
    BY DEF prepareNamespaceClaims, IsType
  <2>2. \A id : IsType(n, id) => Reason(id, Live)'
    BY <1>1, IrSame DEF Reason
  <2> QED
    BY <1>1, <2>1, <2>2 DEF ReasonInv
<1>10. SeenInv' /\ ProcsInv'
  BY <1>1 DEF SeenInv, ProcsInv, output
<1> QED
  BY <1>6, <1>7, <1>8, <1>9, <1>10

\* The ingest reports what it leaves out, and nothing is taken yet.
LEMMA IngestAccount ==
  ASSUME Account, Ingest \/ IngestFails
  PROVE  AccountInv'
<1> USE DEF Account, AccountInv
<1>1. /\ stage = "ingest" /\ stage' \in {"loaded", "failed"} /\ ~Building'
      /\ UNCHANGED <<winmd, emitted, decls, methods, embeds>>
  BY StageFacts DEF Ingest, IngestFails, Building, output
<1>2. emitted = {} /\ decls = {} /\ methods = {} /\ embeds = {} /\ ir = {}
  BY <1>1 DEF IngestInv
<1>3. IngestInv'
  <2>1. CASE Ingest
    BY <1>1, <1>2, <2>1 DEF Ingest, IngestInv, Ingested, Stays, SameName, Project, projectInterface, Projects, Fatal, Undecoded, Diag
  <2>2. CASE IngestFails
    BY <1>1, <1>2, <2>2 DEF IngestFails, IngestInv
  <2> QED
    BY <2>1, <2>2
<1>4. TodoInv' /\ WaitInv' /\ ReasonInv' /\ OriginInv' /\ SeenInv' /\ ProcsInv'
  BY <1>1, <1>2 DEF TodoInv, WaitInv, ReasonInv, OriginInv, SeenInv, ProcsInv
<1>5. RowsInv'
  BY <1>1, <1>2 DEF RowsInv, Took
<1> QED
  BY <1>3, <1>4, <1>5

\* Nothing is due at first.
LEMMA InitAccount == Init => AccountInv
<1> SUFFICES ASSUME Init PROVE AccountInv
  OBVIOUS
<1>1. stage = "ingest" /\ ~Building /\ emitted = {} /\ decls = {} /\ ir = {} /\ methods = {} /\ embeds = {}
  BY StageFacts DEF Init, Building
<1> QED
  BY <1>1 DEF AccountInv, TodoInv, IngestInv, WaitInv, ReasonInv, OriginInv, RowsInv, SeenInv, ProcsInv

\* Every step keeps the account.
LEMMA NextAccount ==
  ASSUME Account, [Next]_vars
  PROVE  AccountInv'
<1>1. ASSUME NEW r \in todo,
         \/ \E s \in {"typedef", "delegate"} : BuildSimple(s, r)
         \/ \E s \in {"typedef", "enum", "delegate", "interface"} : TypeNameTaken(s, r)
         \/ BuildEnum(r)
         \/ \E s \in {"struct", "amd64", "arm64"} : NoVariant(s, r) \/ StructNameTaken(s, r) \/ BuildStruct(s, r)
         \/ SkipInterface(r) \/ BuildInterface(r)
         \/ BuildConstant(r)
         \/ PassOver(r) \/ BuildFunction(r)
         \/ BuildCloser(r) \/ NotAHandle(r)
      PROVE AccountInv'
  BY <1>1, SimpleAccount, TypeRefusedAccount, EnumAccount, StructAccount, InterfaceAccountKept, ConstantAccount,
     PassAccount, FunctionAccount, CloserAccount
<1>2. ASSUME \/ Ingest \/ IngestFails \/ \E n \in Namespaces : StartNamespace(n)
             \/ NextStage \/ EndNamespace \/ StartArch \/ SwitchArch \/ EndArch \/ DeclareProcs
      PROVE AccountInv'
  BY <1>2, IngestAccount, StartAccount, NextStageAccount, EndAccount, ArchAccount, ProcsAccount
<1>3. ASSUME UNCHANGED vars PROVE AccountInv'
  <2> USE <1>3 DEF vars, names, output
  <2>1. /\ Building' = Building /\ Live' = Live
        /\ \A S : Visible(S)' = Visible(S)
        /\ \A n, s : RowsIn(n, s)' = RowsIn(n, s)
    BY IrSame DEF Building, Live, Visible
  <2>2. \A s, r : Took(s, r)' <=> Took(s, r)
    BY <2>1 DEF Took
  <2>3. TodoInv' /\ IngestInv'
    BY <2>1 DEF Account, AccountInv, TodoInv, RowsOf, IngestInv, Ingested, Stays, SameName, Project, projectInterface, Projects, Fatal, Undecoded, Diag
  <2>4. WaitInv'
    <3>1. /\ \A s : Waiting(s, typeNames)' <=> Waiting(s, typeNames)
          /\ \A s : Waiting(s, saved.types)' <=> Waiting(s, saved.types)
          /\ \A s : Waiting(s, saved.left)' <=> Waiting(s, saved.left)
      BY <2>1, <2>2, IrSame DEF Waiting, RowsOf, Id
    <3> QED
      BY <2>1, <3>1 DEF Account, AccountInv, WaitInv
  <2>5. ReasonInv'
    BY <2>1, IrSame DEF Account, AccountInv, ReasonInv, Reason
  <2>6. OriginInv'
    <3>1. \A d, s, r : From(d, s, r) => From(d, s, r)'
      BY <2>2, IrSame DEF From, ArchesOf, FunctionIds, Id
    <3> QED
      BY <3>1 DEF Account, AccountInv, OriginInv
  <2>7. RowsInv' /\ SeenInv' /\ ProcsInv'
    BY <2>1, <2>2, AccountGrows DEF Account, AccountInv, RowsInv, SeenInv, ProcsInv, RowsOf
  <2> QED
    BY <2>3, <2>4, <2>5, <2>6, <2>7 DEF AccountInv
<1> QED
  BY <1>1, <1>2, <1>3 DEF Next

\* Every row is accounted for.
THEOREM AccountCorrect == Spec => []Account
<1>1. Init => Account
  BY InitInv, InitAccount DEF Account
<1>2. Account /\ [Next]_vars => Account'
  BY NextInv, NextAccount DEF Account
<1> QED
  BY <1>1, <1>2, PTL DEF Spec

-----------------------------------------------------------------------------
(* What the account comes to at the end *)

\* At the end every construct has taken each of its rows.
LEMMA DoneFacts ==
  ASSUME Account, Done
  PROVE  /\ ~Building /\ stage \notin {"ingest", "failed"}
         /\ \A r \in ir : r.ns \in Namespaces
         /\ \A s \in StageSet, r \in ir : r \in RowsIn(r.ns, s) => Accounted(s, r)
         /\ \A q \in Ingested : q \in winmd /\ Project(q) \in ir
         /\ \A q \in winmd : ~Fatal(q) /\ (Undecoded(q) => Diag(q, "ingest") \in diags)
<1> USE DEF Account, AccountInv
<1>1. ~Building /\ stage \notin {"ingest", "failed"}
  BY StageFacts DEF Done, Building
<1>2. \A r \in ir : r.ns \in Namespaces
  BY DEF Inv, IInv, PlaceInv
<1>3. \A s \in StageSet, r \in ir : r \in RowsIn(r.ns, s) => Accounted(s, r)
  BY <1>2 DEF Done, Took, RowsInv
<1>4. /\ \A q \in Ingested : q \in winmd /\ Project(q) \in ir
      /\ \A q \in winmd : ~Fatal(q) /\ (Undecoded(q) => Diag(q, "ingest") \in diags)
  BY <1>1 DEF IngestInv, Ingested
<1> QED
  BY <1>1, <1>2, <1>3, <1>4

\* The projection of an interface keeps what the account asks for, and when every
\* method decodes it keeps each in its place.
LEMMA ProjectFacts ==
  ASSUME WinmdOK, NEW r \in winmd
  PROVE  /\ Project(r).ns = r.ns /\ Project(r).kind = r.kind /\ Project(r).name = r.name /\ Project(r).row = r.row
         /\ r.kind # "interface" => Project(r) = r
         /\ r.kind = "interface" => Project(r).root = r.root /\ Project(r).base = r.base
         /\ r.kind = "interface" /\ ~Undecoded(r) =>
              /\ DOMAIN Project(r).methods = DOMAIN r.methods
              /\ \A k \in DOMAIN r.methods : Project(r).methods[k].pos = k
<1>1. {"ns", "kind", "name", "row"} \subseteq DOMAIN r
  BY RowsAssumption DEF WinmdOK
<1>2. CASE r.kind # "interface"
  BY <1>2 DEF Project
<1>3. CASE r.kind = "interface"
  <2>1. {"methods", "base", "root"} \subseteq DOMAIN r /\ r.methods \in Seq({"fits", "unfit", "bad"})
    BY <1>3, RowsAssumption DEF WinmdOK
  <2> DEFINE kept == {k \in DOMAIN r.methods : r.methods[k] # "bad"}
             place == [i \in 1..Cardinality(kept) |-> CHOOSE k \in kept : Cardinality(kept \cap 1..k) = i]
             ms == [i \in DOMAIN place |-> [pos |-> place[i], is |-> r.methods[place[i]]]]
  <2>2. Project(r) = [r EXCEPT !.methods = ms]
    BY <1>3 DEF Project, projectInterface
  <2>3. Project(r).methods = ms
    BY <2>1, <2>2
  <2>4. /\ Project(r).ns = r.ns /\ Project(r).kind = r.kind /\ Project(r).name = r.name /\ Project(r).row = r.row
        /\ Project(r).root = r.root /\ Project(r).base = r.base
    <3> HIDE DEF ms
    <3> QED
      BY <1>1, <2>1, <2>2
  <2>5. ASSUME ~Undecoded(r) PROVE /\ DOMAIN ms = DOMAIN r.methods
                                   /\ \A k \in DOMAIN r.methods : ms[k].pos = k
    <3>1. PICK n \in Nat : DOMAIN r.methods = 1..n
      BY <2>1
    <3>2. kept = 1..n
      BY <1>3, <2>5, <3>1 DEF Undecoded
    <3> HIDE DEF kept
    <3>3. \A k \in 1..n : kept \cap 1..k = 1..k /\ k \in Nat
      BY <3>2
    <3>4. \A k \in Nat : Cardinality(1..k) = k
      BY FS_Interval
    <3>5. Cardinality(kept) = n /\ \A k \in 1..n : Cardinality(kept \cap 1..k) = k
      BY <3>2, <3>3, <3>4
    <3>6. DOMAIN place = 1..n /\ \A i \in 1..n : place[i] = i
      BY <3>2, <3>5
    <3> HIDE DEF place
    <3>7. DOMAIN ms = 1..n
      BY <3>6
    <3>8. \A k \in 1..n : ms[k].pos = place[k]
      BY <3>6
    <3> HIDE DEF ms
    <3> QED
      BY <3>1, <3>6, <3>7, <3>8
  <2> QED
    BY <1>3, <2>3, <2>4, <2>5
<1> QED
  BY <1>2, <1>3

\* What a finished run has for a row that the generator was given.
LEMMA NothingLost ==
  ASSUME Account
  PROVE  NoSilentLoss
<1> USE DEF Account, Inv
<1>1. Done => \A q \in winmd : Undecoded(q) => Diag(q, "ingest") \in diags
  BY DoneFacts
<1> SUFFICES ASSUME Done, NEW r \in Ingested
             PROVE  LET told(kinds) == \E k \in kinds : Diag(r, k) \in diags IN
    /\ r.kind \in TypeKinds => \A arch \in emitArches : Declared(r, r.kind, arch) \/ told({r.kind, arch})
    /\ r.kind = "enum" => MembersDeclared(r) \/ told({"enum", "member"})
    /\ r.kind = "constant" => Declared(r, "constant", "amd64") \/ told({"constant"})
    /\ r.kind = "function" /\ r.amd64 =>
         \E f \in ir : /\ f.kind = "function" /\ f.ns = r.ns /\ Id(f) = Id(r)
                       /\ Declared(f, "function", "amd64") \/ Declared(f, "inline", "amd64") \/ Diag(f, "function") \in diags
    /\ Declared(r, "function", "amd64") => \E d \in decls \cup diags : d.ns = r.ns /\ d.kind = "procs"
    /\ r.kind = "typedef" /\ r.free # None /\ r.handle => Declared(r, "closer", "amd64") \/ told({"closer"})
    /\ r.kind = "interface" /\ ~r.root => \A k \in DOMAIN r.methods :
         \/ \E m \in methods : m.ns = r.ns /\ m.of = r.name /\ m.pos = k
         \/ told({"ingest", "interface", "method"})
    /\ r.kind = "interface" /\ ~r.root => r.base = None \/ <<r.ns, r.name>> \in embeds \/ told({"interface", "base"})
  BY <1>1 DEF NoSilentLoss
<1> DEFINE told(kinds) == \E k \in kinds : Diag(r, k) \in diags
           p == Project(r)
<1>2. /\ ~Building /\ r \in winmd /\ p \in ir
      /\ \A s \in StageSet, q \in ir : q \in RowsIn(q.ns, s) => Accounted(s, q)
      /\ Undecoded(r) => Diag(r, "ingest") \in diags
  BY DoneFacts
<1>3. /\ p.ns = r.ns /\ p.kind = r.kind /\ p.name = r.name /\ p.row = r.row /\ (r.kind # "interface" => p = r)
      /\ r.kind = "interface" => p.root = r.root /\ p.base = r.base
      /\ r.kind = "interface" /\ ~Undecoded(r) =>
              /\ DOMAIN p.methods = DOMAIN r.methods
              /\ \A k \in DOMAIN r.methods : p.methods[k].pos = k
  BY <1>2, ProjectFacts
<1> HIDE DEF p
<1>4. (\A k : Diag(p, k) = Diag(r, k)) /\ (\A k, arch : Declared(p, k, arch) <=> Declared(r, k, arch))
  BY <1>3 DEF Diag, Declared
<1>5. /\ StageSet = {"typedef", "enum", "struct", "amd64", "arm64", "delegate", "interface",
                     "constant", "function", "procs", "closer"}
      /\ TypeStages = {"typedef", "enum", "struct", "amd64", "arm64", "delegate", "interface"}
      /\ TypeKinds = {"typedef", "enum", "struct", "delegate", "interface"} /\ emitArches = {"amd64", "arm64"}
  BY StageFacts DEF TypeStages, TypeKinds, emitArches
<1>6. ASSUME r.kind \in TypeKinds, NEW arch \in emitArches
      PROVE  Declared(r, r.kind, arch) \/ told({r.kind, arch})
  <2> DEFINE s == IF r.kind # "struct" THEN r.kind ELSE IF p.perArch THEN arch ELSE "struct"
  <2>1. s \in TypeStages /\ s \in StageSet /\ s \in {r.kind, arch} /\ arch \in ArchesOf(s)
    BY <1>5, <1>6 DEF ArchesOf
  <2>2. p \in RowsIn(p.ns, s)
    BY <1>2, <1>3, <1>5, <1>6 DEF RowsIn
  <2> HIDE DEF s
  <2>3. TypeAccount(s, p)
    BY <1>2, <1>6, <2>1, <2>2 DEF Accounted
  <2> QED
    BY <1>3, <1>4, <2>1, <2>3 DEF TypeAccount
<1>7. ASSUME r.kind = "enum" PROVE MembersDeclared(r) \/ told({"enum", "member"})
  <2>1. p = r /\ r \in ir /\ r \in RowsIn(r.ns, "enum")
    BY <1>2, <1>3, <1>7 DEF RowsIn, emitArches
  <2> QED
    BY <1>2, <1>5, <2>1 DEF Accounted, MembersAccount
<1>8. ASSUME r.kind = "constant" PROVE Declared(r, "constant", "amd64") \/ told({"constant"})
  <2>1. p = r /\ r \in ir /\ r \in RowsIn(r.ns, "constant")
    BY <1>2, <1>3, <1>8 DEF RowsIn, emitArches
  <2> QED
    BY <1>2, <1>5, <2>1 DEF Accounted
<1>9. ASSUME r.kind = "function", r.amd64
      PROVE  \E f \in ir : /\ f.kind = "function" /\ f.ns = r.ns /\ Id(f) = Id(r)
                           /\ Declared(f, "function", "amd64") \/ Declared(f, "inline", "amd64") \/ Diag(f, "function") \in diags
  <2>1. p = r /\ r \in ir
    BY <1>2, <1>3, <1>9
  <2>2. r \in RowsIn(r.ns, "function")
    BY <1>9, <2>1 DEF RowsIn, emitArches
  <2>3. Tried(r.ns, Id(r))
    BY <1>2, <1>5, <1>9, <2>1, <2>2 DEF Accounted
  <2>4. \A f : Emitted(f) => Declared(f, "function", "amd64") \/ Declared(f, "inline", "amd64")
    BY DEF Emitted, Declared, FunctionKinds, emitArches
  <2> QED
    BY <2>3, <2>4 DEF Tried
<1>10. Declared(r, "function", "amd64") => \E d \in decls \cup diags : d.ns = r.ns /\ d.kind = "procs"
  BY <1>2 DEF Declared, AccountInv, ProcsInv
<1>11. ASSUME r.kind = "typedef", r.free # None, r.handle
       PROVE  Declared(r, "closer", "amd64") \/ told({"closer"})
  <2>1. p = r /\ r \in ir
    BY <1>2, <1>3, <1>11
  <2>2. r \in RowsIn(r.ns, "closer")
    BY <1>11, <2>1 DEF RowsIn, emitArches
  <2> QED
    BY <1>2, <1>5, <1>11, <2>1, <2>2 DEF Accounted
<1>12. ASSUME r.kind = "interface", ~r.root
       PROVE  /\ \A k \in DOMAIN r.methods :
                   \/ \E m \in methods : m.ns = r.ns /\ m.of = r.name /\ m.pos = k
                   \/ told({"ingest", "interface", "method"})
              /\ r.base = None \/ <<r.ns, r.name>> \in embeds \/ told({"interface", "base"})
  <2>1. p \in ir /\ p.kind = "interface" /\ ~p.root /\ p.base = r.base
    BY <1>2, <1>3, <1>12
  <2>2. p \in RowsIn(p.ns, "interface")
    BY <2>1 DEF RowsIn, emitArches
  <2>3. InterfaceAccount(p)
    BY <1>2, <1>5, <2>1, <2>2 DEF Accounted
  <2>4. r.base = None \/ <<r.ns, r.name>> \in embeds \/ told({"interface", "base"})
    BY <1>3, <1>4, <2>1, <2>3 DEF InterfaceAccount
  <2>5. \A k \in DOMAIN r.methods :
          \/ \E m \in methods : m.ns = r.ns /\ m.of = r.name /\ m.pos = k
          \/ told({"ingest", "interface", "method"})
    <3>1. CASE Undecoded(r)
      BY <1>2, <3>1
    <3>2. CASE ~Undecoded(r)
      BY <1>3, <1>4, <1>12, <2>3, <3>2 DEF InterfaceAccount
    <3> QED
      BY <3>1, <3>2
  <2> QED
    BY <2>4, <2>5
<1> QED
  BY <1>6, <1>7, <1>8, <1>9, <1>10, <1>11, <1>12

\* Nothing the generator is given is lost without a diagnostic, and nothing that ingest
\* cannot decode (the diag calls of the builders; projectDelegate and its kin).
THEOREM NoSilentLossCorrect == Spec => []NoSilentLoss
<1> QED
  BY AccountCorrect, NothingLost, PTL

\* A type that can be emitted and has no rival is declared.
LEMMA TypesWinAtEnd ==
  ASSUME Account, Done
  PROVE  TypesWin
<1> SUFFICES ASSUME NEW r \in ir, r.kind \in TypeKinds, NEW arch \in emitArches, Sound(r, arch),
                    \A q \in ir : q.kind \in TypeKinds /\ q.ns = r.ns /\ Id(q) = Id(r) => q = r
             PROVE  Declared(r, r.kind, arch)
  BY DEF TypesWin
<1> DEFINE s == IF r.kind # "struct" THEN r.kind ELSE IF r.perArch THEN arch ELSE "struct"
<1>1. s \in TypeStages /\ s \in StageSet /\ arch \in ArchesOf(s)
  BY StageFacts DEF TypeStages, TypeKinds, ArchesOf, emitArches
<1>2. r \in RowsIn(r.ns, s)
  BY DEF RowsIn, TypeKinds, emitArches
<1> HIDE DEF s
<1>3. TypeAccount(s, r)
  BY <1>1, <1>2, DoneFacts DEF Accounted
<1>4. ~Rival(r)
  BY DEF Rival
<1> QED
  BY <1>1, <1>3, <1>4 DEF TypeAccount

\* The functions of the IR are those of the winmd, and FunctionNames is of them.
LEMMA FunctionsAlike ==
  ASSUME Account, FunctionNames, Done, NEW f \in ir, NEW g \in ir, f.kind = "function", g.kind = "function", f.ns = g.ns
  PROVE  /\ Id(f) = Id(g) => f.name = g.name /\ f.unsuffixed = g.unsuffixed
         /\ g.unsuffixed # None /\ Export[g.unsuffixed] = Id(f) => ~(Rank[g.name] <= Rank[f.name])
<1>1. f \in winmd /\ g \in winmd /\ winmd \in Winmds
  BY IrRows DEF Account, AccountInv, Inv, WinmdOK
<1>2. f \in {r \in winmd : r.kind = "function"} /\ g \in {r \in winmd : r.kind = "function"}
  BY <1>1
<1> QED
  BY <1>1, <1>2 DEF FunctionNames

\* A function that builds has its name, unless a type or another value has it.
LEMMA FunctionsKeepAtEnd ==
  ASSUME Account, FunctionNames, Done
  PROVE  FunctionsKeepTheirs
<1> SUFFICES ASSUME NEW r \in ir, r.kind = "function", r.amd64
             PROVE  \/ OtherThanFunction(r.ns, Id(r)) \/ IsType(r.ns, Id(r))
                    \/ \E d \in decls : d.ns = r.ns /\ d.kind \in {"function", "inline"} /\ Export[d.of] = Id(r)
                    \/ Named(r, "function") /\ \E q \in ir : q.kind = "function" /\ Id(q) = Id(r) /\ ~q.builds
  BY DEF FunctionsKeepTheirs
<1>1. r \in RowsIn(r.ns, "function") /\ "function" \in StageSet
  BY StageFacts DEF RowsIn, emitArches
<1>2. Tried(r.ns, Id(r))
  BY <1>1, DoneFacts DEF Accounted
<1>3. PICK f \in ir : /\ f.kind = "function" /\ f.ns = r.ns /\ Id(f) = Id(r)
                      /\ Emitted(f) \/ (Diag(f, "function") \in diags /\ (~f.builds \/ NameGone(f)))
  BY <1>2 DEF Tried
<1>4. CASE Emitted(f)
  BY <1>3, <1>4 DEF Emitted, FunctionKinds, Id
<1>5. CASE Diag(f, "function") \in diags /\ ~f.builds
  <2>1. f.name = r.name
    BY <1>3, FunctionsAlike
  <2> QED
    BY <1>3, <1>5, <2>1 DEF Diag, Named
<1>6. CASE NameGone(f)
  <2>1. CASE IsType(f.ns, Id(f))
    BY <1>3, <2>1
  <2>2. ASSUME NEW d \in decls, d.ns = f.ns, d.id = Id(f), d.kind \notin FunctionKinds
        PROVE  OtherThanFunction(r.ns, Id(r))
    BY <1>3, <2>2 DEF OtherThanFunction, FunctionKinds
  <2>3. ASSUME NEW d \in decls, d.ns = f.ns, d.id = Id(f), d.kind \in FunctionKinds,
               NEW g \in ir, g.kind = "function", g.ns = f.ns, g.name = d.of, d.id \in FunctionIds(g),
               Rank[g.name] <= Rank[f.name]
        PROVE  Export[d.of] = Id(r)
    <3>1. ~(g.unsuffixed # None /\ Export[g.unsuffixed] = Id(f))
      BY <1>3, <2>3, FunctionsAlike
    <3>2. d.id = Id(g)
      BY <2>3, <3>1 DEF FunctionIds
    <3> QED
      BY <1>3, <2>3, <3>2 DEF Id
  <2> QED
    BY <1>3, <1>6, <2>1, <2>2, <2>3 DEF NameGone, FunctionKinds
<1> QED
  BY <1>3, <1>4, <1>5, <1>6

\* Of the rows of one name of a map's kind one stays.
LEMMA OneIngested ==
  ASSUME WinmdOK, NEW q \in Ingested, NEW r \in Ingested, SameName(q, r), q.kind \in MapKinds
  PROVE  q = r
<1>1. q \in winmd /\ r \in winmd /\ SameName(r, q) /\ r.kind \in MapKinds
  BY DEF Ingested, SameName
<1>2. Projects(q) /\ Projects(r) /\ Stays(q) /\ Stays(r)
  BY DEF Ingested
<1>3. q.row \in Nat /\ r.row \in Nat
  BY <1>1, RowsAssumption DEF WinmdOK
<1>4. q.row = r.row
  BY <1>1, <1>2, <1>3 DEF Stays
<1> QED
  BY <1>1, <1>4, RowsAssumption DEF WinmdOK

\* A function with an owner is in one namespace.
LEMMA OwnerFacts ==
  ASSUME WinmdOK, IngestInv, NEW f, FunctionOwner(f) # None
  PROVE  \A g \in ir : g.kind = "function" /\ g.name = f => g.ns = FunctionOwner(f)
<1> DEFINE rows == {q \in ir : q.kind = "function" /\ q.name = f}
           owners == {r.ns : r \in rows}
<1>1. IsFiniteSet(winmd)
  BY RowsAssumption DEF WinmdOK
<1>2. rows \in SUBSET winmd
  BY IrRows
<1>3. IsFiniteSet(rows)
  BY <1>1, <1>2, FS_Subset
<1>4. IsFiniteSet(owners)
  <2> DEFINE s == [r \in rows |-> r.ns]
  <2>1. s \in Surjection(rows, owners)
    BY DEF Surjection
  <2> HIDE DEF s, owners
  <2> QED
    BY <1>3, <2>1, FS_Surjection
<1>5. FunctionOwner(f) = IF Cardinality(owners) = 1 THEN CHOOSE n \in owners : TRUE ELSE None
  BY DEF FunctionOwner
<1>6. Cardinality(owners) = 1 /\ FunctionOwner(f) = CHOOSE n \in owners : TRUE
  BY <1>5
<1>7. \A g \in ir : g.kind = "function" /\ g.name = f => g.ns \in owners
  OBVIOUS
<1> HIDE DEF owners, rows
<1>8. PICK n : owners = {n}
  BY <1>4, <1>6, FS_Singleton
<1>9. FunctionOwner(f) = n
  BY <1>6, <1>8
<1> QED
  BY <1>7, <1>8, <1>9

\* A closer was written for the one owner of its function, and what the owner
\* declares is what the closer calls.
LEMMA ClosersAtEnd ==
  ASSUME Account, FunctionNames
  PROVE  ClosersCallFunctions
<1> SUFFICES ASSUME Done, NEW d \in decls, d.kind = "closer",
                    NEW r \in ir, r.ns = d.ns, r.kind = "typedef", r.name = d.of
             PROVE  LET named == {f \in ir : f.kind = "function" /\ f.name = r.free} IN
      \E n \in Namespaces :
        /\ \A f \in named : f.ns = n
        /\ \/ \E c \in decls : c.ns = n /\ c.id = Export[r.free] /\ c.kind \in {"function", "inline"}
           \/ \A f \in named : Named(f, "function") \/ ~f.amd64 \/ f.unsuffixed # None
  BY DEF ClosersCallFunctions
<1> DEFINE named == {f \in ir : f.kind = "function" /\ f.name = r.free}
           n == FunctionOwner(r.free)
<1> USE DEF Account, AccountInv
<1>1. PICK t \in StageSet, q \in ir : From(d, t, q)
  BY DEF OriginInv
<1>2. q.ns = r.ns /\ q.name = r.name /\ t = "closer" /\ Closable(q) /\ q \in RowsIn(q.ns, "closer")
  BY <1>1 DEF From, Took
<1>3. q.kind = "typedef"
  BY <1>2 DEF RowsIn, emitArches
<1>4. q = r
  <2>1. q \in Ingested /\ r \in Ingested
    BY <1>3, IrRows DEF Inv
  <2> QED
    BY <1>2, <1>3, <2>1, OneIngested DEF Inv, SameName, MapKinds
<1>5. PICK f \in ir : f.kind = "function" /\ f.name = r.free /\ f.ns = n
  BY <1>2, <1>4 DEF Closable
<1>6. n \in Namespaces /\ n # None
  <2>1. f.ns \in Namespaces
    BY <1>5, DoneFacts
  <2> QED
    BY <1>5, <2>1, RowsAssumption DEF Namespaces, Inv, WinmdOK
<1>7. \A g \in named : g.ns = n
  BY <1>6, OwnerFacts DEF Inv
<1>8. ASSUME NEW g \in named, ~Named(g, "function"), g.amd64, g.unsuffixed = None
      PROVE  \E c \in decls : c.ns = n /\ c.id = Export[r.free] /\ c.kind \in {"function", "inline"}
  <2>1. g.ns = n /\ g.kind = "function" /\ g \in ir /\ Id(g) = Export[r.free]
    BY <1>7 DEF Id
  <2>2. g \in RowsIn(g.ns, "function") /\ "function" \in StageSet
    BY <2>1, StageFacts DEF RowsIn, emitArches
  <2>3. Tried(g.ns, Id(g))
    BY <1>8, <2>1, <2>2, DoneFacts DEF Accounted
  <2>4. PICK h \in ir : /\ h.kind = "function" /\ h.ns = n /\ Id(h) = Id(g)
                        /\ Emitted(h) \/ Diag(h, "function") \in diags
    BY <2>1, <2>3 DEF Tried
  <2>5. h.name = g.name /\ h.unsuffixed = None
    BY <1>8, <2>1, <2>4, FunctionsAlike
  <2>6. Diag(h, "function") \notin diags
    BY <1>8, <2>1, <2>4, <2>5 DEF Diag, Named
  <2>7. FunctionIds(h) = {Export[r.free]}
    BY <2>1, <2>4, <2>5 DEF FunctionIds
  <2> QED
    BY <1>8, <2>4, <2>6, <2>7 DEF Emitted, FunctionKinds
<1> QED
  BY <1>6, <1>7, <1>8

\* Types win their names from values, and functions keep theirs from functions.
THEOREM NamesKeptCorrect ==
  ASSUME FunctionNames
  PROVE  Spec => []NamesKept
<1>1. Account => NamesKept
  BY TypesWinAtEnd, FunctionsKeepAtEnd DEF NamesKept
<1> QED
  BY <1>1, AccountCorrect, PTL

\* A closer calls a function that is declared under the name it uses.
THEOREM ClosersCallFunctionsCorrect ==
  ASSUME FunctionNames
  PROVE  Spec => []ClosersCallFunctions
<1>1. Account => ClosersCallFunctions
  BY ClosersAtEnd
<1> QED
  BY <1>1, AccountCorrect, PTL

-----------------------------------------------------------------------------
(* The slots of methods *)

\* Induction over a set of naturals.
LEMMA AllNaturals ==
  ASSUME NEW T \in SUBSET Nat, 0 \in T, \A n \in T : n + 1 \in T
  PROVE  T = Nat
<1> DEFINE U == Nat \ T
<1>1. PICK R : IsWellFoundedOn(R, Nat) /\ \A x, y \in Nat : x < y => <<x, y>> \in R
  <2>1. IsWellFoundedOn(OpToRel(<, Nat), Nat)
    BY NatLessThanWellFounded, Zenon
  <2>2. \A x, y \in Nat : x < y => <<x, y>> \in OpToRel(<, Nat)
    BY Zenon DEF OpToRel
  <2> QED
    BY <2>1, <2>2, Zenon
<1>2. SUFFICES ASSUME U # {} PROVE FALSE
  OBVIOUS
<1>3. PICK x \in U : \A y \in U : ~(<<y, x>> \in R)
  <2>1. IsWellFoundedOn(R, Nat) /\ U \subseteq Nat
    BY <1>1
  <2> QED
    BY <1>2, <2>1, WFMin, Zenon
<1>4. x # 0 /\ x \in Nat
  OBVIOUS
<1>5. x - 1 \in Nat /\ x - 1 < x /\ (x - 1) + 1 = x
  BY <1>4
<1>6. x - 1 \in T
  BY <1>1, <1>3, <1>4, <1>5
<1> QED
  BY <1>5, <1>6

\* The recursion of VtableStartSlot, and how much of it is left.
SlotKeys == {q.base : q \in Interfaces}
SlotStep(f) ==
  [known \in SUBSET SlotKeys |-> [q \in Interfaces |->
     IF q.base = None THEN 0
     ELSE IF q.base \in known \/ InterfaceOf(q.base) = {} THEN -1
     ELSE LET above == f[known \cup {q.base}][BaseOf(q)]
          IN  IF above = -1 THEN -1 ELSE above + Len(BaseOf(q).methods)]]
SlotFn == CHOOSE f : f = SlotStep(f)
Left(known) == Cardinality(SlotKeys \ known)

\* VtableStartSlot is where that recursion comes to from no known keys.
LEMMA SlotIs ==
  ASSUME NEW q \in Interfaces
  PROVE  VtableStartSlot(q) = SlotFn[{}][q]
BY DEF VtableStartSlot, SlotFn, SlotStep, SlotKeys

\* Each call of the recursion has one key less left.
LEMMA SlotLeft ==
  ASSUME IsFiniteSet(SlotKeys), NEW q \in Interfaces, NEW known \in SUBSET SlotKeys, q.base \notin known
  PROVE  /\ known \cup {q.base} \in SUBSET SlotKeys
         /\ Left(known) \in Nat /\ Left(known \cup {q.base}) \in Nat /\ Left(known \cup {q.base}) + 1 = Left(known)
<1>1. q.base \in SlotKeys \ known
  BY DEF SlotKeys
<1>2. SlotKeys \ (known \cup {q.base}) = (SlotKeys \ known) \ {q.base}
  OBVIOUS
<1>3. IsFiniteSet(SlotKeys \ known) /\ IsFiniteSet((SlotKeys \ known) \ {q.base})
  BY FS_Subset
<1>4. Cardinality(SlotKeys \ known) \in Nat /\ Cardinality((SlotKeys \ known) \ {q.base}) \in Nat
  BY <1>3, FS_CardinalityType
<1>5. Cardinality((SlotKeys \ known) \ {q.base}) = Cardinality(SlotKeys \ known) - 1
  BY <1>1, <1>3, FS_RemoveElement
<1>6. /\ Left(known) = Cardinality(SlotKeys \ known)
      /\ Left(known \cup {q.base}) = Cardinality((SlotKeys \ known) \ {q.base})
  BY <1>2 DEF Left
<1>7. known \cup {q.base} \in SUBSET SlotKeys
  BY <1>1
<1> QED
  BY <1>4, <1>5, <1>6, <1>7

\* A base that is found is an interface.
LEMMA BaseIsInterface ==
  ASSUME NEW q, InterfaceOf(q.base) # {}
  PROVE  BaseOf(q) \in InterfaceOf(q.base) /\ BaseOf(q) \in Interfaces
BY DEF BaseOf, InterfaceOf

\* Two functions that agree where less is left take the same step.
LEMMA StepAgrees ==
  ASSUME IsFiniteSet(SlotKeys), NEW f, NEW g, NEW q \in Interfaces, NEW known \in SUBSET SlotKeys,
         \A p \in Interfaces, ks \in SUBSET SlotKeys : Left(ks) + 1 = Left(known) => f[ks][p] = g[ks][p]
  PROVE  SlotStep(f)[known][q] = SlotStep(g)[known][q]
<1>1. \A h : SlotStep(h)[known][q] =
         IF q.base = None THEN 0
         ELSE IF q.base \in known \/ InterfaceOf(q.base) = {} THEN -1
         ELSE LET above == h[known \cup {q.base}][BaseOf(q)]
              IN  IF above = -1 THEN -1 ELSE above + Len(BaseOf(q).methods)
  BY DEF SlotStep
<1>2. CASE q.base \notin known /\ InterfaceOf(q.base) # {}
  <2>1. f[known \cup {q.base}][BaseOf(q)] = g[known \cup {q.base}][BaseOf(q)]
    BY <1>2, SlotLeft, BaseIsInterface
  <2> QED
    BY <1>1, <2>1
<1>3. CASE q.base \in known \/ InterfaceOf(q.base) = {}
  BY <1>1, <1>3
<1> QED
  BY <1>2, <1>3

\* So the recursion has a solution: after n steps it is right where less than n
\* keys are left.
LEMMA SlotUnfolds ==
  ASSUME IsFiniteSet(SlotKeys)
  PROVE  SlotFn = SlotStep(SlotFn)
<1> DEFINE Good(f, n) == \A q \in Interfaces, ks \in SUBSET SlotKeys : Left(ks) < n => f[ks][q] = SlotStep(f)[ks][q]
           T == {n \in Nat : \E f : Good(f, n)}
<1>1. \A ks \in SUBSET SlotKeys : Left(ks) \in Nat /\ Left(ks) < Cardinality(SlotKeys) + 1
  <2> TAKE ks \in SUBSET SlotKeys
  <2>1. SlotKeys \ ks \in SUBSET SlotKeys
    OBVIOUS
  <2>2. IsFiniteSet(SlotKeys \ ks) /\ Cardinality(SlotKeys \ ks) <= Cardinality(SlotKeys)
    BY <2>1, FS_Subset
  <2>3. Cardinality(SlotKeys \ ks) \in Nat /\ Cardinality(SlotKeys) \in Nat
    BY <2>2, FS_CardinalityType
  <2> QED
    BY <2>2, <2>3 DEF Left
<1>2. 0 \in T
  BY <1>1
<1>3. ASSUME NEW n \in T PROVE n + 1 \in T
  <2>1. n \in Nat
    OBVIOUS
  <2>2. PICK f : Good(f, n)
    OBVIOUS
  <2>3. ASSUME NEW q \in Interfaces, NEW ks \in SUBSET SlotKeys, Left(ks) < n + 1
        PROVE  SlotStep(f)[ks][q] = SlotStep(SlotStep(f))[ks][q]
    <3>1. \A p \in Interfaces, js \in SUBSET SlotKeys : Left(js) + 1 = Left(ks) => f[js][p] = SlotStep(f)[js][p]
      <4> TAKE p \in Interfaces, js \in SUBSET SlotKeys
      <4> HAVE Left(js) + 1 = Left(ks)
      <4>1. Left(js) < n
        BY <1>1, <2>1, <2>3
      <4> QED
        BY <2>2, <4>1
    <3> QED
      BY <3>1, StepAgrees
  <2>4. Good(SlotStep(f), n + 1)
    BY <2>3
  <2> HIDE DEF Good
  <2> QED
    BY <2>1, <2>4
<1>4. T = Nat
  <2>1. T \in SUBSET Nat
    OBVIOUS
  <2> HIDE DEF T
  <2> QED
    BY <1>2, <1>3, <2>1, AllNaturals
<1>5. Cardinality(SlotKeys) + 1 \in T
  BY <1>4, FS_CardinalityType
<1>6. PICK f : Good(f, Cardinality(SlotKeys) + 1)
  BY <1>5
<1>7. \A q \in Interfaces, ks \in SUBSET SlotKeys : f[ks][q] = SlotStep(f)[ks][q]
  BY <1>1, <1>6
<1>8. \A q \in Interfaces, ks \in SUBSET SlotKeys : SlotStep(f)[ks][q] = SlotStep(SlotStep(f))[ks][q]
  BY <1>7, StepAgrees
<1>9. SlotStep(f) = SlotStep(SlotStep(f))
  <2> DEFINE g == SlotStep(f)
             h == SlotStep(SlotStep(f))
  <2>1. g = [ks \in SUBSET SlotKeys |-> g[ks]] /\ h = [ks \in SUBSET SlotKeys |-> h[ks]]
    BY DEF SlotStep
  <2>2. \A ks \in SUBSET SlotKeys : g[ks] = [q \in Interfaces |-> g[ks][q]] /\ h[ks] = [q \in Interfaces |-> h[ks][q]]
    BY DEF SlotStep
  <2> HIDE DEF g, h
  <2>3. \A ks \in SUBSET SlotKeys : g[ks] = h[ks]
    <3> TAKE ks \in SUBSET SlotKeys
    <3>1. \A q \in Interfaces : g[ks][q] = h[ks][q]
      BY <1>8 DEF g, h
    <3>2. g[ks] = [q \in Interfaces |-> g[ks][q]] /\ h[ks] = [q \in Interfaces |-> h[ks][q]]
      BY <2>2
    <3> QED
      BY <3>1, <3>2
  <2>4. g = h
    BY <2>1, <2>3
  <2> QED
    BY <2>4 DEF g, h
<1> QED
  BY <1>9 DEF SlotFn

\* The rows of interfaces that the winmd comes to.
InterfaceRows == {q \in Ingested : q.kind = "interface"}

\* Above a row with no row at its base there is none, ...
LEMMA NoneAbove ==
  ASSUME NEW r, RowAt(r.base) = {}
  PROVE  Ancestors(r) = {}
<1>1. RowAt(r.base) \subseteq {} /\ \A q \in {} : RowAt(q.base) \subseteq {}
  OBVIOUS
<1>2. Upward(r, {})
  BY <1>1 DEF Upward
<1> QED
  BY <1>2 DEF Ancestors

\* ... and above another there are the row at its base and those above that one.
LEMMA AboveStep ==
  ASSUME NEW r, NEW b \in InterfaceRows, RowAt(r.base) = {b}
  PROVE  Ancestors(r) = {b} \cup Ancestors(b)
<1>1. \A p, a : a \in Ancestors(p) <=> a \in InterfaceRows /\ \A S \in SUBSET InterfaceRows : Upward(p, S) => a \in S
  BY DEF Ancestors, InterfaceRows
<1>2. \A S \in SUBSET InterfaceRows : Upward(r, S) => b \in S /\ Upward(b, S)
  BY DEF Upward
<1>3. \A a \in {b} \cup Ancestors(b) : a \in Ancestors(r)
  BY <1>1, <1>2
<1> DEFINE T == {b} \cup Ancestors(b)
<1>4. T \in SUBSET InterfaceRows
  BY <1>1
<1>5. ASSUME NEW q \in T, NEW x \in RowAt(q.base) PROVE x \in T
  <2>1. x \in InterfaceRows
    BY DEF RowAt, InterfaceRows
  <2>2. ASSUME NEW S \in SUBSET InterfaceRows, Upward(b, S) PROVE x \in S
    <3>1. CASE q = b
      BY <2>2, <3>1 DEF Upward
    <3>2. CASE q \in Ancestors(b)
      <4>1. q \in S
        BY <1>1, <2>2, <3>2
      <4> QED
        BY <2>2, <4>1 DEF Upward
    <3> QED
      BY <3>1, <3>2
  <2> QED
    BY <1>1, <2>1, <2>2
<1>6. Upward(r, T)
  BY <1>5 DEF Upward
<1>7. \A a \in Ancestors(r) : a \in T
  BY <1>1, <1>4, <1>6
<1> QED
  BY <1>3, <1>7

\* A row of an interface is the only one with its key.
LEMMA OneRow ==
  ASSUME WinmdOK, NEW b \in InterfaceRows
  PROVE  RowAt(<<b.ns, b.name>>) = {b}
<1>1. b \in RowAt(<<b.ns, b.name>>)
  BY DEF RowAt, InterfaceRows
<1>2. ASSUME NEW q \in RowAt(<<b.ns, b.name>>) PROVE q = b
  <2>1. q \in Ingested /\ b \in Ingested /\ SameName(q, b) /\ q.kind = "interface"
    BY DEF RowAt, InterfaceRows, SameName
  <2> QED
    BY <2>1, OneIngested DEF MapKinds
<1> QED
  BY <1>1, <1>2

\* Interfaces are the projected rows of interfaces.
LEMMA InterfacesAre ==
  ASSUME WinmdOK, IngestInv, stage \notin {"ingest", "failed"}
  PROVE  /\ \A r \in InterfaceRows : Project(r) \in Interfaces
         /\ \A q \in Interfaces : \E r \in InterfaceRows : q = Project(r)
         /\ IsFiniteSet(InterfaceRows) /\ IsFiniteSet(SlotKeys)
<1>1. \A r \in InterfaceRows : Project(r) \in Interfaces
  BY ProjectFacts DEF InterfaceRows, Interfaces, IngestInv, Projects, Ingested
<1>2. \A q \in Interfaces : \E r \in InterfaceRows : q = Project(r)
  BY ProjectFacts DEF InterfaceRows, Interfaces, IngestInv, Ingested
<1>3. IsFiniteSet(InterfaceRows)
  <2>1. IsFiniteSet(winmd) /\ InterfaceRows \in SUBSET winmd
    BY RowsAssumption DEF WinmdOK, InterfaceRows, Ingested
  <2> QED
    BY <2>1, FS_Subset
<1>4. IsFiniteSet(SlotKeys)
  <2> DEFINE s == [r \in InterfaceRows |-> Project(r).base]
  <2>1. s \in Surjection(InterfaceRows, SlotKeys)
    BY <1>1, <1>2 DEF Surjection, SlotKeys
  <2> HIDE DEF s
  <2> QED
    BY <1>3, <2>1, FS_Surjection
<1> QED
  BY <1>1, <1>2, <1>3, <1>4

\* Rows of one more interface have its methods more.
LEMMA MethodsOfMore ==
  ASSUME WinmdOK, NEW b \in InterfaceRows, NEW A \in SUBSET InterfaceRows, b \notin A, IsFiniteSet(MethodsOf(A))
  PROVE  /\ IsFiniteSet(MethodsOf({b} \cup A))
         /\ Cardinality(MethodsOf({b} \cup A)) = Cardinality(MethodsOf(A)) + Len(b.methods)
<1> DEFINE own == {b} \X DOMAIN b.methods
<1>1. MethodsOf({b} \cup A) = MethodsOf(A) \cup own
  BY DEF MethodsOf
<1>2. MethodsOf(A) \cap own = {}
  BY DEF MethodsOf
<1>3. b.methods \in Seq({"fits", "unfit", "bad"})
  BY RowsAssumption DEF WinmdOK, InterfaceRows, Ingested
<1>4. Len(b.methods) \in Nat /\ DOMAIN b.methods = 1..Len(b.methods)
  BY <1>3
<1>5. IsFiniteSet(DOMAIN b.methods) /\ Cardinality(DOMAIN b.methods) = Len(b.methods)
  <2>1. IsFiniteSet(1..Len(b.methods)) /\ Cardinality(1..Len(b.methods)) = Len(b.methods)
    BY <1>4, FS_Interval
  <2> QED
    BY <1>4, <2>1
<1>6. IsFiniteSet(own) /\ Cardinality(own) = Len(b.methods)
  <2>1. IsFiniteSet({b}) /\ Cardinality({b}) = 1
    BY FS_Singleton
  <2>2. IsFiniteSet(own) /\ Cardinality(own) = 1 * Len(b.methods)
    BY <1>5, <2>1, FS_Product
  <2> QED
    BY <1>4, <2>2
<1> HIDE DEF own
<1>7. Cardinality(MethodsOf(A)) \in Nat
  BY FS_CardinalityType
<1>8. /\ IsFiniteSet(MethodsOf(A) \cup own)
      /\ Cardinality(MethodsOf(A) \cup own) = Cardinality(MethodsOf(A)) + Cardinality(own) - Cardinality(MethodsOf(A) \cap own)
  BY <1>6, FS_Union
<1>9. Cardinality(MethodsOf(A) \cap own) = 0
  BY <1>2, FS_EmptySet
<1> DEFINE c == Cardinality(MethodsOf(A))
           d == Cardinality(own)
           e == Cardinality(MethodsOf(A) \cap own)
           f == Cardinality(MethodsOf(A) \cup own)
           l == Len(b.methods)
<1>10. f = c + l
  <2>1. f = c + d - e /\ c \in Nat /\ d = l /\ l \in Nat /\ e = 0
    BY <1>4, <1>6, <1>7, <1>8, <1>9
  <2> HIDE DEF c, d, e, f, l
  <2> QED
    BY <2>1
<1>11. IsFiniteSet(MethodsOf({b} \cup A)) /\ Cardinality(MethodsOf({b} \cup A)) = f
  BY <1>1, <1>8
<1> QED
  BY <1>10, <1>11

\* Where the recursion comes to an end, and every interface above decodes, it has
\* counted the methods above; none of these is at a key that was known.
Counts(r, known) ==
  SlotFn[known][Project(r)] # -1 /\ (\A a \in Ancestors(r) : ~Undecoded(a)) =>
    /\ IsFiniteSet(MethodsOf(Ancestors(r))) /\ SlotFn[known][Project(r)] = Cardinality(MethodsOf(Ancestors(r)))
    /\ \A a \in Ancestors(r) : <<a.ns, a.name>> \notin known

\* One step of the recursion: from the base to the interface.
LEMMA CountsStep ==
  ASSUME WinmdOK, IngestInv, stage \notin {"ingest", "failed"}, NEW r \in InterfaceRows, NEW known \in SUBSET SlotKeys,
         \A b \in InterfaceRows, ks \in SUBSET SlotKeys : Left(ks) + 1 = Left(known) => Counts(b, ks)
  PROVE  Counts(r, known)
<1> SUFFICES ASSUME SlotFn[known][Project(r)] # -1, \A a \in Ancestors(r) : ~Undecoded(a)
             PROVE  /\ IsFiniteSet(MethodsOf(Ancestors(r)))
                    /\ SlotFn[known][Project(r)] = Cardinality(MethodsOf(Ancestors(r)))
                    /\ \A a \in Ancestors(r) : <<a.ns, a.name>> \notin known
  BY DEF Counts
<1> DEFINE q == Project(r)
<1>1. q \in Interfaces /\ q.base = r.base /\ IsFiniteSet(SlotKeys)
  BY InterfacesAre, ProjectFacts DEF InterfaceRows, Ingested
<1> HIDE DEF q
<1>2. SlotFn[known][q] =
         IF q.base = None THEN 0
         ELSE IF q.base \in known \/ InterfaceOf(q.base) = {} THEN -1
         ELSE LET above == SlotFn[known \cup {q.base}][BaseOf(q)]
              IN  IF above = -1 THEN -1 ELSE above + Len(BaseOf(q).methods)
  <2>1. SlotFn[known][q] = SlotStep(SlotFn)[known][q]
    BY <1>1, SlotUnfolds
  <2> QED
    BY <1>1, <2>1 DEF SlotStep
<1>3. SlotFn[known][q] # -1
  BY DEF q
<1>4. CASE q.base = None
  <2>1. \A b \in winmd : <<b.ns, b.name>> # None
    BY NamingAssumption DEF WinmdOK
  <2>2. Ancestors(r) = {}
    BY <1>1, <1>4, <2>1, NoneAbove DEF RowAt, Ingested
  <2>3. MethodsOf(Ancestors(r)) = {}
    BY <2>2 DEF MethodsOf
  <2> QED
    BY <1>2, <1>4, <2>2, <2>3, FS_EmptySet DEF q
<1>5. CASE q.base # None
  <2> DEFINE ks == known \cup {q.base}
             above == SlotFn[ks][BaseOf(q)]
  <2>1. q.base \notin known /\ InterfaceOf(q.base) # {} /\ above # -1 /\ SlotFn[known][q] = above + Len(BaseOf(q).methods)
    BY <1>2, <1>3, <1>5
  <2>2. BaseOf(q) \in Interfaces /\ <<BaseOf(q).ns, BaseOf(q).name>> = q.base
    BY <2>1, BaseIsInterface DEF InterfaceOf
  <2>3. PICK b \in InterfaceRows : BaseOf(q) = Project(b)
    BY <2>2, InterfacesAre
  <2>4. <<b.ns, b.name>> = q.base
    BY <2>2, <2>3, ProjectFacts DEF InterfaceRows, Ingested
  <2>5. RowAt(r.base) = {b}
    BY <1>1, <2>4, OneRow
  <2>6. Ancestors(r) = {b} \cup Ancestors(b)
    BY <2>5, AboveStep
  <2>7. Left(ks) + 1 = Left(known) /\ ks \in SUBSET SlotKeys
    BY <1>1, <2>1, SlotLeft
  <2>8. Counts(b, ks)
    BY <2>7
  <2>9. /\ IsFiniteSet(MethodsOf(Ancestors(b))) /\ above = Cardinality(MethodsOf(Ancestors(b)))
        /\ \A a \in Ancestors(b) : <<a.ns, a.name>> \notin ks
    BY <2>1, <2>3, <2>6, <2>8 DEF Counts
  <2>10. b \notin Ancestors(b) /\ Ancestors(b) \in SUBSET InterfaceRows
    BY <2>4, <2>9 DEF Ancestors, InterfaceRows
  <2>11. /\ IsFiniteSet(MethodsOf(Ancestors(r)))
         /\ Cardinality(MethodsOf(Ancestors(r))) = Cardinality(MethodsOf(Ancestors(b))) + Len(b.methods)
    BY <2>6, <2>9, <2>10, MethodsOfMore
  <2>12. Len(BaseOf(q).methods) = Len(b.methods)
    <3>1. ~Undecoded(b) /\ b \in winmd /\ b.kind = "interface"
      BY <2>6 DEF InterfaceRows, Ingested
    <3>2. b.methods \in Seq({"fits", "unfit", "bad"}) /\ DOMAIN Project(b).methods = DOMAIN b.methods
      BY <3>1, ProjectFacts, RowsAssumption DEF WinmdOK
    <3> QED
      BY <2>3, <3>2
  <2>13. \A a \in Ancestors(r) : <<a.ns, a.name>> \notin known
    BY <2>1, <2>4, <2>6, <2>9
  <2> QED
    BY <2>1, <2>9, <2>11, <2>12, <2>13 DEF q
<1> QED
  BY <1>4, <1>5

\* So it has at each of its calls, by induction on the keys that are left.
LEMMA SlotsCount ==
  ASSUME WinmdOK, IngestInv, stage \notin {"ingest", "failed"}, NEW r \in InterfaceRows
  PROVE  Counts(r, {})
<1> DEFINE T == {n \in Nat : \A p \in InterfaceRows, ks \in SUBSET SlotKeys : Left(ks) = n => Counts(p, ks)}
<1>1. \A ks \in SUBSET SlotKeys : Left(ks) \in Nat
  <2> TAKE ks \in SUBSET SlotKeys
  <2>1. IsFiniteSet(SlotKeys) /\ SlotKeys \ ks \in SUBSET SlotKeys
    BY InterfacesAre
  <2> QED
    BY <2>1, FS_Subset, FS_CardinalityType DEF Left
<1>2. 0 \in T
  <2> SUFFICES ASSUME NEW p \in InterfaceRows, NEW ks \in SUBSET SlotKeys, Left(ks) = 0
               PROVE  Counts(p, ks)
    OBVIOUS
  <2>1. \A js \in SUBSET SlotKeys : Left(js) + 1 # Left(ks)
    BY <1>1
  <2> QED
    BY <2>1, CountsStep
<1>3. ASSUME NEW n \in T PROVE n + 1 \in T
  <2>1. n \in Nat /\ \A p \in InterfaceRows, ks \in SUBSET SlotKeys : Left(ks) = n => Counts(p, ks)
    OBVIOUS
  <2>2. ASSUME NEW p \in InterfaceRows, NEW ks \in SUBSET SlotKeys, Left(ks) = n + 1
        PROVE  Counts(p, ks)
    <3>1. \A b \in InterfaceRows, js \in SUBSET SlotKeys : Left(js) + 1 = Left(ks) => Counts(b, js)
      <4> TAKE b \in InterfaceRows, js \in SUBSET SlotKeys
      <4> HAVE Left(js) + 1 = Left(ks)
      <4>1. Left(js) = n
        BY <1>1, <2>1, <2>2
      <4> QED
        BY <2>1, <4>1
    <3> QED
      BY <3>1, CountsStep
  <2> QED
    BY <2>1, <2>2
<1>4. T = Nat
  <2>1. T \in SUBSET Nat
    OBVIOUS
  <2> HIDE DEF T
  <2> QED
    BY <1>2, <1>3, <2>1, AllNaturals
<1>5. {} \in SUBSET SlotKeys /\ Left({}) \in T
  BY <1>1, <1>4
<1> QED
  BY <1>5

\* Every method's slot is counted from where its interface's slots start.
LEMMA InitMethods == Init => MethodsInv
BY DEF Init, MethodsInv

\* ... and no step changes that.
LEMMA NextMethods ==
  ASSUME Account, MethodsInv, [Next]_vars
  PROVE  MethodsInv'
<1>1. CASE UNCHANGED <<ir, methods, embeds>>
  <2>1. \A q, i : VtableStartSlot(q)' = VtableStartSlot(q) /\ Slot(q, i)' = Slot(q, i)
    BY <1>1, IrSame DEF Slot
  <2> QED
    BY <1>1, <2>1 DEF MethodsInv, Interfaces
<1>2. CASE Ingest
  <2>1. methods' = {} /\ embeds' = {}
    BY <1>2 DEF Ingest, Account, AccountInv, IngestInv
  <2> QED
    BY <2>1 DEF MethodsInv
<1>3. ASSUME NEW r \in todo, BuildInterface(r) PROVE MethodsInv'
  <2>1. "interface" \in StageSet /\ At("interface", r)
    BY <1>3, StageFacts DEF BuildInterface
  <2>2. UNCHANGED <<ir, ns>> /\ r \in Interfaces /\ r.ns = ns
    BY <1>3, <2>1, TookBuild DEF RowsIn, Interfaces, At, emitArches
  <2>3. \A q, i : VtableStartSlot(q)' = VtableStartSlot(q) /\ Slot(q, i)' = Slot(q, i)
    BY <2>2, IrSame DEF Slot
  <2>4. Interfaces' = Interfaces
    BY <2>2 DEF Interfaces
  <2>5. VtableStartSlot(r) # -1
    BY <1>3 DEF BuildInterface
  <2>6. \A m \in methods' : \/ m \in methods
                            \/ \E i \in DOMAIN r.methods : m = [ns |-> ns, of |-> r.name, pos |-> r.methods[i].pos, slot |-> Slot(r, i)]
    BY <1>3 DEF BuildInterface
  <2>7. ASSUME NEW m \in methods'
        PROVE  \E q \in Interfaces' : \E i \in DOMAIN q.methods :
                 /\ VtableStartSlot(q)' # -1 /\ m.ns = q.ns /\ m.of = q.name
                 /\ m.pos = q.methods[i].pos /\ m.slot = Slot(q, i)'
    <3>1. CASE m \in methods
      BY <2>3, <2>4, <3>1 DEF MethodsInv
    <3>2. ASSUME NEW i \in DOMAIN r.methods, m = [ns |-> ns, of |-> r.name, pos |-> r.methods[i].pos, slot |-> Slot(r, i)]
          PROVE  m.ns = r.ns /\ m.of = r.name /\ m.pos = r.methods[i].pos /\ m.slot = Slot(r, i)
      BY <2>2, <3>2
    <3> QED
      BY <2>2, <2>3, <2>4, <2>5, <2>6, <3>1, <3>2
  <2>8. \A key \in embeds' : key \in embeds \/ key = <<r.ns, r.name>>
    BY <1>3, <2>2 DEF BuildInterface
  <2>9. \A key \in embeds' : \E q \in Interfaces' : VtableStartSlot(q)' # -1 /\ <<q.ns, q.name>> = key
    BY <2>2, <2>3, <2>4, <2>5, <2>8 DEF MethodsInv
  <2> QED
    BY <2>7, <2>9 DEF MethodsInv
<1>4. CASE UNCHANGED vars
  BY <1>1, <1>4 DEF vars, output
<1>5. ASSUME NEW r \in todo,
         \/ \E s \in {"typedef", "delegate"} : BuildSimple(s, r)
         \/ \E s \in {"typedef", "enum", "delegate", "interface"} : TypeNameTaken(s, r)
         \/ BuildEnum(r)
         \/ \E s \in {"struct", "amd64", "arm64"} : NoVariant(s, r) \/ StructNameTaken(s, r) \/ BuildStruct(s, r)
         \/ SkipInterface(r)
         \/ BuildConstant(r)
         \/ PassOver(r) \/ BuildFunction(r)
         \/ BuildCloser(r) \/ NotAHandle(r)
      PROVE UNCHANGED <<ir, methods, embeds>>
  BY <1>5 DEF BuildSimple, TypeNameTaken, BuildEnum, NoVariant, StructNameTaken, BuildStruct, SkipInterface,
     BuildConstant, PassOver, BuildFunction, BuildCloser, NotAHandle, At, output
<1>6. ASSUME \/ IngestFails \/ \E n \in Namespaces : StartNamespace(n)
             \/ NextStage \/ EndNamespace \/ StartArch \/ SwitchArch \/ EndArch \/ DeclareProcs
      PROVE UNCHANGED <<ir, methods, embeds>>
  BY <1>6 DEF IngestFails, StartNamespace, NextStage, EndNamespace, StartArch, SwitchArch, EndArch, DeclareProcs, output
<1> QED
  BY <1>1, <1>2, <1>3, <1>4, <1>5, <1>6 DEF Next

\* Where the recursion comes to an end it does so from fewer known keys, too, and
\* comes to the same.
Ends(p, js) == SlotFn[js][p] # -1 => \A ks \in SUBSET js : SlotFn[ks][p] = SlotFn[js][p]

\* One step of it, as above.
LEMMA EndsStep ==
  ASSUME IsFiniteSet(SlotKeys), NEW p \in Interfaces, NEW js \in SUBSET SlotKeys,
         \A q \in Interfaces, ls \in SUBSET SlotKeys : Left(ls) + 1 = Left(js) => Ends(q, ls)
  PROVE  Ends(p, js)
<1> SUFFICES ASSUME SlotFn[js][p] # -1, NEW ks \in SUBSET js
             PROVE  SlotFn[ks][p] = SlotFn[js][p]
  BY DEF Ends
<1>1. \A ls \in SUBSET SlotKeys : SlotFn[ls][p] =
         IF p.base = None THEN 0
         ELSE IF p.base \in ls \/ InterfaceOf(p.base) = {} THEN -1
         ELSE LET above == SlotFn[ls \cup {p.base}][BaseOf(p)]
              IN  IF above = -1 THEN -1 ELSE above + Len(BaseOf(p).methods)
  <2>1. \A ls \in SUBSET SlotKeys : SlotFn[ls][p] = SlotStep(SlotFn)[ls][p]
    BY SlotUnfolds
  <2> QED
    BY <2>1 DEF SlotStep
<1>2. ks \in SUBSET SlotKeys
  OBVIOUS
<1>3. CASE p.base = None
  BY <1>1, <1>2, <1>3
<1>4. CASE p.base # None
  <2>1. /\ p.base \notin js /\ InterfaceOf(p.base) # {} /\ SlotFn[js \cup {p.base}][BaseOf(p)] # -1
        /\ SlotFn[js][p] = SlotFn[js \cup {p.base}][BaseOf(p)] + Len(BaseOf(p).methods)
    BY <1>1, <1>4
  <2>2. js \cup {p.base} \in SUBSET SlotKeys /\ Left(js \cup {p.base}) + 1 = Left(js)
    BY <2>1, SlotLeft
  <2>3. BaseOf(p) \in Interfaces
    BY <2>1, BaseIsInterface
  <2>4. ks \cup {p.base} \in SUBSET (js \cup {p.base})
    OBVIOUS
  <2>5. SlotFn[ks \cup {p.base}][BaseOf(p)] = SlotFn[js \cup {p.base}][BaseOf(p)]
    BY <2>1, <2>2, <2>3, <2>4 DEF Ends
  <2> QED
    BY <1>1, <1>2, <1>4, <2>1, <2>5
<1> QED
  BY <1>3, <1>4

\* So a base's slots start somewhere when those of the interface do.
LEMMA BaseStarts ==
  ASSUME WinmdOK, IngestInv, stage \notin {"ingest", "failed"}, NEW r \in InterfaceRows, NEW b \in RowAt(r.base),
         VtableStartSlot(Project(r)) # -1
  PROVE  VtableStartSlot(Project(b)) # -1
<1> DEFINE T == {n \in Nat : \A p \in Interfaces, js \in SUBSET SlotKeys : Left(js) = n => Ends(p, js)}
<1>1. IsFiniteSet(SlotKeys)
  BY InterfacesAre
<1>2. \A js \in SUBSET SlotKeys : Left(js) \in Nat
  <2> TAKE js \in SUBSET SlotKeys
  <2>1. SlotKeys \ js \in SUBSET SlotKeys
    OBVIOUS
  <2> QED
    BY <1>1, <2>1, FS_Subset, FS_CardinalityType DEF Left
<1>3. 0 \in T
  <2> SUFFICES ASSUME NEW p \in Interfaces, NEW js \in SUBSET SlotKeys, Left(js) = 0
               PROVE  Ends(p, js)
    OBVIOUS
  <2>1. \A ls \in SUBSET SlotKeys : Left(ls) + 1 # Left(js)
    BY <1>2
  <2> QED
    BY <1>1, <2>1, EndsStep
<1>4. ASSUME NEW n \in T PROVE n + 1 \in T
  <2>1. n \in Nat /\ \A p \in Interfaces, js \in SUBSET SlotKeys : Left(js) = n => Ends(p, js)
    OBVIOUS
  <2>2. ASSUME NEW p \in Interfaces, NEW js \in SUBSET SlotKeys, Left(js) = n + 1
        PROVE  Ends(p, js)
    <3>1. \A q \in Interfaces, ls \in SUBSET SlotKeys : Left(ls) + 1 = Left(js) => Ends(q, ls)
      <4> TAKE q \in Interfaces, ls \in SUBSET SlotKeys
      <4> HAVE Left(ls) + 1 = Left(js)
      <4>1. Left(ls) = n
        BY <1>2, <2>1, <2>2
      <4> QED
        BY <2>1, <4>1
    <3> QED
      BY <1>1, <3>1, EndsStep
  <2> QED
    BY <2>1, <2>2
<1>5. T = Nat
  <2>1. T \in SUBSET Nat
    OBVIOUS
  <2> HIDE DEF T
  <2> QED
    BY <1>3, <1>4, <2>1, AllNaturals
<1>6. \A p \in Interfaces, js \in SUBSET SlotKeys : Ends(p, js)
  BY <1>2, <1>5
<1> HIDE DEF T
<1> DEFINE q == Project(r)
           c == Project(b)
<1>7. b \in InterfaceRows /\ <<b.ns, b.name>> = r.base /\ r.base # None
  BY NamingAssumption DEF WinmdOK, RowAt, InterfaceRows, Ingested
<1>8. /\ q \in Interfaces /\ c \in Interfaces /\ q.base = r.base
      /\ c.ns = b.ns /\ c.name = b.name
  BY <1>7, InterfacesAre, ProjectFacts DEF InterfaceRows, Ingested
<1>9. SlotFn[{}][q] # -1
  BY <1>8, SlotIs
<1> HIDE DEF q, c
<1>10. /\ q.base \notin {} /\ InterfaceOf(q.base) # {} /\ SlotFn[{} \cup {q.base}][BaseOf(q)] # -1
  <2>1. SlotFn[{}][q] = SlotStep(SlotFn)[{}][q]
    BY <1>1, SlotUnfolds
  <2> QED
    BY <1>7, <1>8, <1>9, <2>1 DEF SlotStep
<1>11. BaseOf(q) = c
  <2>1. BaseOf(q) \in Interfaces /\ <<BaseOf(q).ns, BaseOf(q).name>> = r.base
    BY <1>8, <1>10, BaseIsInterface DEF InterfaceOf
  <2>2. PICK d \in InterfaceRows : BaseOf(q) = Project(d)
    BY <2>1, InterfacesAre
  <2>3. <<d.ns, d.name>> = <<b.ns, b.name>>
    BY <1>7, <2>1, <2>2, ProjectFacts DEF InterfaceRows, Ingested
  <2>4. d \in RowAt(<<b.ns, b.name>>)
    BY <2>3 DEF RowAt, InterfaceRows
  <2>5. d = b
    BY <1>7, <2>4, OneRow
  <2> QED
    BY <2>2, <2>5 DEF c
<1>12. {q.base} \in SUBSET SlotKeys /\ {} \in SUBSET {q.base}
  BY <1>8 DEF SlotKeys
<1>13. SlotFn[{}][c] = SlotFn[{q.base}][c]
  <2>1. SlotFn[{q.base}][c] # -1 /\ Ends(c, {q.base})
    BY <1>6, <1>8, <1>10, <1>11, <1>12
  <2> QED
    BY <1>12, <2>1 DEF Ends
<1> QED
  BY <1>8, <1>10, <1>11, <1>13, SlotIs DEF c

\* What the start of the slots counts is the methods above.
LEMMA StartCounts ==
  ASSUME WinmdOK, IngestInv, stage \notin {"ingest", "failed"}, NEW r \in InterfaceRows,
         VtableStartSlot(Project(r)) # -1, \A a \in Ancestors(r) : ~Undecoded(a)
  PROVE  VtableStartSlot(Project(r)) = Cardinality(MethodsOf(Ancestors(r)))
<1>1. Project(r) \in Interfaces
  BY InterfacesAre
<1>2. VtableStartSlot(Project(r)) = SlotFn[{}][Project(r)]
  BY <1>1, SlotIs
<1> QED
  BY <1>2, SlotsCount DEF Counts

\* The row of a method or an embedding is the one its interface comes from.
LEMMA RowOfInterface ==
  ASSUME WinmdOK, IngestInv, stage \notin {"ingest", "failed"}, NEW q \in Interfaces, NEW r \in RowAt(<<q.ns, q.name>>)
  PROVE  r \in InterfaceRows /\ q = Project(r)
<1>1. PICK b \in InterfaceRows : q = Project(b)
  BY InterfacesAre
<1>2. <<q.ns, q.name>> = <<b.ns, b.name>>
  BY <1>1, ProjectFacts DEF InterfaceRows, Ingested
<1>3. r = b
  BY <1>2, OneRow
<1> QED
  BY <1>1, <1>3

\* A method's slot is the number of methods before it, or the ingester has told.
LEMMA MethodInPlace ==
  ASSUME Account, MethodsInv, NEW m \in methods, NEW r \in RowAt(<<m.ns, m.of>>)
  PROVE  \/ m.slot = SlotInWinmd(r, m.pos)
         \/ \E q \in {r} \cup Ancestors(r) : Diag(q, "ingest") \in diags
<1> USE DEF Account, Inv, AccountInv
<1>1. stage \notin {"ingest", "failed"}
  BY DEF IngestInv
<1>2. PICK q \in Interfaces : \E i \in DOMAIN q.methods :
        /\ VtableStartSlot(q) # -1 /\ m.ns = q.ns /\ m.of = q.name
        /\ m.pos = q.methods[i].pos /\ m.slot = Slot(q, i)
  BY DEF MethodsInv
<1>3. r \in InterfaceRows /\ q = Project(r)
  BY <1>1, <1>2, RowOfInterface
<1>4. CASE \E a \in {r} \cup Ancestors(r) : Undecoded(a)
  <2>1. PICK a \in {r} \cup Ancestors(r) : Undecoded(a)
    BY <1>4
  <2>2. a \in winmd
    BY <1>3, <2>1 DEF Ancestors, InterfaceRows, Ingested
  <2> QED
    BY <1>1, <2>1, <2>2 DEF IngestInv
<1>5. CASE \A a \in {r} \cup Ancestors(r) : ~Undecoded(a)
  <2>1. PICK i \in DOMAIN q.methods : m.pos = q.methods[i].pos /\ m.slot = Slot(q, i)
    BY <1>2
  <2>2. q.methods[i].pos = i
    BY <1>3, <1>5, <2>1, ProjectFacts DEF InterfaceRows, Ingested
  <2>3. VtableStartSlot(q) = Cardinality(MethodsOf(Ancestors(r)))
    BY <1>1, <1>2, <1>3, <1>5, StartCounts
  <2> QED
    BY <2>1, <2>2, <2>3 DEF Slot, SlotInWinmd
<1> QED
  BY <1>4, <1>5

\* An embedded base is declared, unless its name went to another type.
LEMMA EmbeddedDeclared ==
  ASSUME Account, MethodsInv, Done, NEW key \in embeds, NEW r \in RowAt(key), NEW b \in RowAt(r.base)
  PROVE  \/ Declared(b, "interface", "amd64")
         \/ \E q \in ir : q.kind \in TypeKinds /\ q.ns = b.ns /\ Id(q) = Id(b) /\ q # Project(b)
<1> DEFINE c == Project(b)
<1>1. WinmdOK /\ IngestInv /\ stage \notin {"ingest", "failed"}
  BY DoneFacts DEF Account, Inv, AccountInv
<1>2. PICK p \in Interfaces : VtableStartSlot(p) # -1 /\ <<p.ns, p.name>> = key
  BY DEF MethodsInv
<1>3. r \in InterfaceRows /\ p = Project(r)
  BY <1>1, <1>2, RowOfInterface
<1>4. VtableStartSlot(c) # -1
  BY <1>1, <1>2, <1>3, BaseStarts
<1>5. b \in InterfaceRows
  BY DEF RowAt, InterfaceRows
<1>6. c \in ir /\ c.kind = "interface" /\ c.ns = b.ns /\ c.name = b.name /\ c.row = b.row
  BY <1>1, <1>5, InterfacesAre, ProjectFacts DEF InterfaceRows, Interfaces, Ingested
<1> HIDE DEF c
<1>7. c \in RowsIn(c.ns, "interface")
  BY <1>6 DEF RowsIn, emitArches
<1>8. "interface" \in StageSet /\ "interface" \in TypeStages
  BY StageFacts DEF TypeStages
<1>9. TypeAccount("interface", c)
  BY <1>6, <1>7, <1>8, DoneFacts DEF Accounted
<1>10. Declared(c, "interface", "amd64") \/ Rival(c) \/ ~Sound(c, "amd64")
  BY <1>6, <1>9 DEF TypeAccount, ArchesOf, emitArches
<1>11. Sound(c, "amd64")
  BY <1>4, <1>6 DEF Sound
<1>12. Declared(c, "interface", "amd64") => Declared(b, "interface", "amd64")
  BY <1>6 DEF Declared
<1>13. Rival(c) => \E q \in ir : q.kind \in TypeKinds /\ q.ns = b.ns /\ Id(q) = Id(b) /\ q # Project(b)
  BY <1>6 DEF Rival, Id, c
<1> QED
  BY <1>10, <1>11, <1>12, <1>13

\* Every method that is emitted, own or promoted, dispatches through its slot in
\* the winmd, however many before it were skipped (buildInterface, VtableStartSlot).
THEOREM SlotsMatchWinmdCorrect == Spec => []SlotsMatchWinmd
<1>1. Init => Account /\ MethodsInv
  BY InitInv, InitAccount, InitMethods DEF Account
<1>2. Account /\ MethodsInv /\ [Next]_vars => Account' /\ MethodsInv'
  BY NextInv, NextAccount, NextMethods DEF Account
<1>3. Account /\ MethodsInv => SlotsMatchWinmd
  BY MethodInPlace, EmbeddedDeclared DEF SlotsMatchWinmd
<1> QED
  BY <1>1, <1>2, <1>3, PTL DEF Spec
=============================================================================
