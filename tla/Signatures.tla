----------------------------- MODULE Signatures -----------------------------
(***************************************************************************)
(* How a native function or COM method becomes a Go function:               *)
(* internal/codegen/emit/raw, buildFunction and buildComMethod.             *)
(*                                                                          *)
(* planSliceParams pairs buffers with their counts, the shaping loop turns  *)
(* each native parameter into Go parameters and one argument word, the      *)
(* return is shaped, and the body dispatches through syscall.SyscallN or,   *)
(* when a register other than an integer one is involved, win32.Call. A     *)
(* function takes its name last; what cannot be marshalled is skipped.      *)
(***************************************************************************)
EXTENDS Naturals, Sequences, FiniteSets

CONSTANT Sources    \* the native signatures the run tries

\* A parameter's type as far as marshalling tells types apart: integers that can
\* be a count, other words, wide strings, typed pointers, GUID* named as an IID,
\* void*, byte*, void**, floats, composites that fit an integer register, other
\* composites, and what cannot be passed (arrays, unknown layouts).
ParamTypes == {"int", "word", "wstr", "ptr", "guid", "voidptr", "byteptr", "voidpp",
               "float", "small", "large", "array"}
\* count and size are NativeArrayCountParamIndex and MemorySizeBytesParamIndex, 0
\* when absent (the code's -1) and possibly out of range; com is [ComOutPtr] or
\* an [IidParameterIndex].
Params == [type : ParamTypes, in : BOOLEAN, out : BOOLEAN, retval : BOOLEAN,
           reserved : BOOLEAN, com : BOOLEAN, count : Nat, size : Nat]
\* "checked" is a handle or pointer, with values that mean failure.
ReturnTypes == {"void", "HRESULT", "BOOL", "value", "checked", "float", "small", "large",
                "array"}

\* A source is "function" or "method"; informational says that it is on the list
\* of APIs whose success codes matter, unsuffixed that a -W name has a bare form,
\* taken which of the two names the package already uses. No metadata marks a result
\* as reserved, and retValElement does not ask.
ASSUME SourcesAssumption ==
  \A s \in Sources :
    /\ s.kind \in {"function", "method"}
    /\ s.params \in Seq(Params) /\ s.ret \in ReturnTypes
    /\ \A i \in 1..Len(s.params) : ~(s.params[i].reserved /\ s.params[i].retval)
    /\ s.setLastError \in BOOLEAN /\ s.informational \in BOOLEAN
    /\ s.unsuffixed \in BOOLEAN /\ s.taken \subseteq {"bare", "raw"}

VARIABLES
  source,         \* the metadata
  phase,          \* "plan", "params", "dispatch", "emitted", "skipped"
  plans, elided,  \* planSliceParams: buffer -> count, count -> buffer
  decls,          \* declared Go parameters: "plain" or "slice"
  words, specs,   \* argument words and their win32.Arg descriptors
  values,         \* parameters elevated to results
  result,         \* the return shape and the Spec's Ret ("" when there is none)
  dispatch,       \* "SyscallN" or "Call"
  claimed         \* claimedNames

vars == <<source, phase, plans, elided, decls, words, specs, values, result, dispatch, claimed>>

params == source.params
Idx == 1..Len(params)
Word(via, i) == [via |-> via, of |-> i]
Empty == [i \in {} |-> 0]
NoResult == [kind |-> "none", spec |-> ""]

Init ==
  /\ source \in Sources
  /\ phase = "plan" /\ plans = Empty /\ elided = Empty /\ decls = Empty
  /\ words = << >> /\ specs = << >> /\ values = {} /\ result = NoResult
  /\ dispatch = "none" /\ claimed = source.taken

-----------------------------------------------------------------------------
(* Plans *)

\* iidPairedOutParams and retypeComOutParams: which void** become **IUnknown.
iids == {i \in Idx : params[i].type = "guid" /\ params[i].in /\ ~params[i].out /\ ~params[i].reserved}
voidPPOuts == {i \in Idx : params[i].type = "voidpp" /\ params[i].out /\ ~params[i].reserved}
iidPaired(i) ==
  i - 1 \in iids \/ (Cardinality(iids) = 1 /\ Cardinality(voidPPOuts) = 1)
Retyped(i) == i \in voidPPOuts /\ (params[i].com \/ iidPaired(i))

\* The Go type is *T with a T that can be named.
TypedPointer(i) == params[i].type \in {"ptr", "guid", "byteptr"} \/ Retyped(i)

\* Mutant of Collapsible: a [retval] buffer collapses too.
Collapsible_RetVal(i) == ~params[i].reserved

\* A [retval] or [Reserved] buffer never collapses.
Collapsible(i) == ~params[i].retval /\ ~params[i].reserved

\* An integer the caller passes in.
IsCount(j) == params[j].type = "int" /\ ~params[j].out /\ ~params[j].reserved

Counting(j) == {i \in Idx : params[i].count = j}
Sizing(j)   == {i \in Idx : params[i].size = j}

\* Mutant of TypedArray: a count that several arrays share.
TypedArray_SharedCount(i) ==
  LET j == params[i].count IN
  /\ Collapsible(i) /\ TypedPointer(i)
  /\ j \in Idx \ {i} /\ IsCount(j)

\* A typed array and the count no other array uses.
TypedArray(i) ==
  LET j == params[i].count IN
  /\ Collapsible(i) /\ TypedPointer(i)
  /\ j \in Idx \ {i} /\ Counting(j) = {i} /\ IsCount(j)

\* A void* or byte* and the size nothing else uses.
ByteBuffer(i) ==
  LET j == params[i].size IN
  /\ Collapsible(i) /\ ~TypedArray(i) /\ params[i].type \in {"voidptr", "byteptr"}
  /\ j \in Idx \ {i} /\ Sizing(j) = {i} /\ Counting(j) = {} /\ IsCount(j)

\* planSliceParams. No count belongs to two buffers, so the order of its loops
\* does not matter.
PlanSlices ==
  /\ phase = "plan" /\ phase' = "params"
  /\ plans' = [i \in {k \in Idx : TypedArray(k) \/ ByteBuffer(k)} |->
                 IF TypedArray(i) THEN params[i].count ELSE params[i].size]
  /\ elided' = [j \in {plans'[i] : i \in DOMAIN plans'} |->
                 CHOOSE i \in DOMAIN plans' : plans'[i] = j]
  /\ UNCHANGED <<source, decls, words, specs, values, result, dispatch, claimed>>

-----------------------------------------------------------------------------
(* Parameters *)

\* Mutant of Elevates: any return type will do.
Elevates_Always == source.kind = "function" \/ source.ret = "HRESULT"

\* retValElevationMode, and buildComMethod's elevate: only a status, or nothing,
\* may be what the native function returns.
Elevates ==
  \/ source.ret = "HRESULT"
  \/ source.kind = "function" /\ source.ret = "BOOL" /\ source.setLastError
  \/ source.kind = "function" /\ source.ret = "void"

\* retValElement.
IsElevated(i) == Elevates /\ params[i].retval /\ ~params[i].in /\ TypedPointer(i)

\* The descriptor of a parameter's word: shapeParam.
SpecOf(type) == IF type \in {"float", "large"} THEN type ELSE "word"

i0 == Len(words) + 1      \* the parameter the loop is at

Shape(word, spec) ==
  /\ words' = Append(words, word) /\ specs' = Append(specs, spec)
  /\ UNCHANGED <<source, phase, plans, elided, result, dispatch, claimed>>

Shaping == phase = "params" /\ i0 \in Idx

\* An elevated [out,retval] parameter: a local behind OutParam.
ShapeRetVal ==
  /\ Shaping /\ IsElevated(i0)
  /\ Shape(Word("out", i0), "word")
  /\ values' = values \cup {i0} /\ UNCHANGED decls

\* A count that a slice supplies: its len().
ShapeCount ==
  /\ Shaping /\ ~IsElevated(i0) /\ i0 \in DOMAIN elided
  /\ Shape(Word("len", elided[i0]), "word")
  /\ UNCHANGED <<values, decls>>

Declare(i, as) == decls' = [k \in DOMAIN decls \cup {i} |-> IF k = i THEN as ELSE decls[k]]

\* A buffer that becomes a slice: the address of its first element, or nil.
ShapeSlice ==
  /\ Shaping /\ ~IsElevated(i0) /\ i0 \notin DOMAIN elided /\ i0 \in DOMAIN plans
  /\ Shape(Word("slice", i0), "word")
  /\ Declare(i0, "slice") /\ UNCHANGED values

IsPlain == Shaping /\ ~IsElevated(i0) /\ i0 \notin DOMAIN elided \cup DOMAIN plans

\* shapeParam: a reserved parameter is NULL and not declared, others are
\* declared and converted ...
ShapeReserved ==
  /\ IsPlain /\ params[i0].reserved
  /\ Shape(Word("null", i0), "word")
  /\ UNCHANGED <<values, decls>>

ShapePlain ==
  /\ IsPlain /\ ~params[i0].reserved /\ params[i0].type # "array"
  /\ Shape(Word("param", i0), SpecOf(params[i0].type))
  /\ Declare(i0, "plain") /\ UNCHANGED values

\* ... or cannot be passed: the function or method is skipped.
Skip ==
  /\ phase' = "skipped"
  /\ UNCHANGED <<source, plans, elided, decls, words, specs, values, result, dispatch, claimed>>

NotMarshalable ==
  /\ IsPlain /\ ~params[i0].reserved /\ params[i0].type = "array"
  /\ Skip

-----------------------------------------------------------------------------
(* Return and dispatch *)

Return(kind, spec) ==
  /\ phase' = "dispatch"
  /\ result' = [kind |-> kind, spec |-> spec]
  /\ UNCHANGED <<source, plans, elided, decls, values, dispatch, claimed>>

Shaped == phase = "params" /\ i0 \notin Idx

\* Results were elevated: they come with the status.
ReturnElevated ==
  /\ Shaped /\ values # {}
  /\ Return(CASE source.ret = "HRESULT" -> "values,error"
              [] source.ret = "BOOL"    -> "values,error"
              [] OTHER                  -> "values", "")
  /\ UNCHANGED <<words, specs>>

\* buildReturnShape. An advisory error is GetLastError without a test.
ReturnFunction ==
  /\ Shaped /\ values = {} /\ source.kind = "function"
  /\ source.ret # "array" /\ ~(source.ret = "float" /\ source.setLastError)
  /\ LET sle == source.setLastError IN
     CASE source.ret = "void"    -> Return("none", "")
       [] source.ret = "large"   -> Return(IF sle THEN "value,advisory" ELSE "value", "large")
       [] source.ret = "float"   -> Return("value", "float")
       [] source.ret = "BOOL"    -> Return(IF sle THEN "error" ELSE "value", "")
       [] source.ret = "HRESULT" -> Return(IF source.informational THEN "value,error" ELSE "error", "")
       [] source.ret = "checked" -> Return(IF sle THEN "value,error" ELSE "value", "")
       [] OTHER                  -> Return(IF sle THEN "value,advisory" ELSE "value", "")
  /\ UNCHANGED <<words, specs>>

\* A method returns a composite through a pointer after this.
HiddenPointer ==
  /\ words' = <<Word("ret", 0)>> \o words /\ specs' = <<"word">> \o specs

\* The cases of buildComMethod. GetLastError plays no part in COM.
ReturnMethod ==
  /\ Shaped /\ values = {} /\ source.kind = "method" /\ source.ret # "array"
  /\ CASE source.ret = "void"    -> Return("none", "")
       [] source.ret = "HRESULT" -> Return(IF source.informational THEN "value,error" ELSE "error", "")
       [] source.ret = "float"   -> Return("value", "float")
       [] OTHER                  -> Return("value", "")
  /\ IF source.ret \in {"small", "large"} THEN HiddenPointer ELSE UNCHANGED <<words, specs>>

ReturnNotMarshalable ==
  /\ Shaped /\ values = {}
  /\ source.ret = "array" \/ (source.kind = "function" /\ source.ret = "float" /\ source.setLastError)
  /\ Skip

\* Mutant of viaCall: the return is not looked at.
viaCall_ArgsOnly == \E k \in 1..Len(specs) : specs[k] # "word"

\* Something SyscallN cannot carry.
viaCall == result.spec # "" \/ \E k \in 1..Len(specs) : specs[k] # "word"

maxCallWords == 4 + 42 - 1
TooLong == viaCall /\ Len(words) + (IF source.kind = "method" THEN 1 ELSE 0) > maxCallWords

SkipTooLong == phase = "dispatch" /\ TooLong /\ Skip

\* claimFunctionName: the bare name when there is one and it is free, else the
\* raw one.
Name == IF source.unsuffixed /\ "bare" \notin claimed THEN "bare" ELSE "raw"

NameTaken == source.kind = "function" /\ Name \in claimed

SkipNameTaken == phase = "dispatch" /\ ~TooLong /\ NameTaken /\ Skip

\* The body: for a method, self goes before the words.
Emit ==
  /\ phase = "dispatch" /\ ~TooLong /\ ~NameTaken
  /\ phase' = "emitted"
  /\ dispatch' = IF viaCall THEN "Call" ELSE "SyscallN"
  /\ claimed' = IF source.kind = "function" THEN claimed \cup {Name} ELSE claimed
  /\ IF source.kind = "method"
     THEN words' = <<Word("self", 0)>> \o words /\ specs' = <<"word">> \o specs
     ELSE UNCHANGED <<words, specs>>
  /\ UNCHANGED <<source, plans, elided, decls, values, result>>

Next ==
  \/ PlanSlices
  \/ ShapeRetVal \/ ShapeCount \/ ShapeSlice \/ ShapeReserved \/ ShapePlain \/ NotMarshalable
  \/ ReturnElevated \/ ReturnFunction \/ ReturnMethod \/ ReturnNotMarshalable
  \/ SkipTooLong \/ SkipNameTaken \/ Emit

Spec == Init /\ [][Next]_vars

-----------------------------------------------------------------------------
(* Properties *)

\* Plans and declarations are about parameters of the signature, one word per
\* parameter shaped so far.
TypeOK ==
  /\ phase \in {"plan", "params", "dispatch", "emitted", "skipped"}
  /\ DOMAIN plans \subseteq Idx /\ DOMAIN elided \subseteq Idx /\ DOMAIN decls \subseteq Idx
  /\ \A i \in DOMAIN plans : plans[i] \in DOMAIN elided /\ elided[plans[i]] = i
  /\ \A i \in DOMAIN decls : decls[i] \in {"plain", "slice"}
  /\ words \in Seq([via : {"self", "ret", "out", "len", "slice", "param", "null"}, of : Nat])
  /\ specs \in Seq({"word", "float", "large"}) /\ values \subseteq Idx
  /\ result.spec \in {"", "float", "large"} /\ dispatch \in {"none", "SyscallN", "Call"}
  /\ claimed \subseteq {"bare", "raw"}

\* The word the callee receives for its parameter j: the words before are this
\* and the hidden result pointer.
NativeWord(j) == words[Len(words) - Len(params) + j]

Emitted == phase = "emitted"

\* The emitted body compiles: every parameter a word names is declared, as a
\* slice where the word takes its length (planSliceParams: "a surviving size
\* elision would reference an undeclared identifier").
NamesDeclared ==
  Emitted => \A k \in 1..Len(words) :
    /\ words[k].via = "param" => words[k].of \in DOMAIN decls
    /\ words[k].via \in {"len", "slice"} =>
         words[k].of \in DOMAIN decls /\ decls[words[k].of] = "slice"

\* Every native parameter gets a word of its own: a reserved one NULL whatever
\* role the metadata gives it besides (shapeParam: "Reserved parameters always
\* take NULL"), a count the length of the slice whose pointer goes with it and of
\* no other array (planSliceParams: "ambiguous shared count").
WordsAreTheirs ==
  Emitted => \A j \in Idx :
    LET w == NativeWord(j) IN
    /\ params[j].reserved => w = Word("null", j)
    /\ w.via \notin {"self", "ret"} /\ (w.via # "len" => w.of = j)
    /\ w.via = "len" =>
         /\ NativeWord(w.of) = Word("slice", w.of)
         /\ IF Counting(j) = {} THEN Sizing(j) = {w.of} ELSE Counting(j) = {w.of}

\* win32.Call gets one descriptor per word, each the descriptor of its word: its
\* panic on a mismatch cannot happen in generated code.
SpecMatchesWords ==
  Emitted /\ dispatch = "Call" =>
    /\ Len(specs) = Len(words)
    /\ \A k \in 1..Len(words) : specs[k] =
         IF words[k].via = "param" THEN SpecOf(params[words[k].of].type) ELSE "word"

\* SyscallN is never given a float or a composite that is not an integer, and
\* never asked for one back; a method's composite comes through memory.
OnlyWordsThroughSyscallN ==
  Emitted /\ dispatch = "SyscallN" =>
    /\ \A j \in Idx : NativeWord(j).via = "param" => params[j].type \notin {"float", "large"}
    /\ source.ret # "float"
    /\ source.ret = "large" => source.kind = "method" /\ \E k \in 1..Len(words) : words[k].via = "ret"

\* What a method is called with besides its parameters: self, and the pointer a
\* composite is returned through.
ByPointer == source.kind = "method" /\ source.ret \in {"small", "large"}

selfWords == IF phase = "emitted" /\ source.kind = "method" THEN 1 ELSE 0
ptrWords  == IF ByPointer THEN 1 ELSE 0

\* self is the first word, the pointer comes right after it, and the parameters
\* follow.
Leading ==
  /\ Len(words) = selfWords + ptrWords + Len(params)
  /\ \A k \in 1..Len(words) : /\ words[k].via = "self" <=> selfWords = 1 /\ k = 1
                              /\ words[k].via = "ret"  <=> ptrWords = 1 /\ k = selfWords + 1

\* "A hidden result pointer placed right after this" (buildComMethod): nowhere
\* else, in no function, and never together with a result the Spec asks for.
ThisFirst == Emitted => Leading /\ (ByPointer => result.spec = "")

\* A win32.Call site passes no more words than fit the registers and the stack of
\* the trampolines, self and the hidden result pointer counted.
WithinLimit == Emitted /\ dispatch = "Call" => Len(words) <= maxCallWords

\* The dispatch of an emitted site can carry what the site passes and gets back,
\* each word at the place the callee expects it.
DispatchCarries == SpecMatchesWords /\ OnlyWordsThroughSyscallN /\ ThisFirst /\ WithinLimit

\* Nothing a callee returns is swallowed: a status becomes an error, a value a
\* value, and elevated results push neither aside (retValElevationMode: "Only a
\* clean status ... qualifies").
ReturnKept ==
  Emitted =>
    /\ source.ret = "HRESULT" \/ (source.ret = "BOOL" /\ source.kind = "function" /\ source.setLastError)
         => result.kind \in {"error", "value,error", "values,error"}
    /\ source.ret \in {"value", "checked", "float", "small", "large"}
         => result.kind \in {"value", "value,error", "value,advisory"}
    /\ values # {} => result.kind \in {"values", "values,error"}

(* The inductive invariant: every word and descriptor, from the plans.       *)

\* The word of parameter j, once the plans are made, and its descriptor.
WordOf(j) ==
  CASE IsElevated(j)                             -> Word("out", j)
    [] ~IsElevated(j) /\ j \in DOMAIN elided     -> Word("len", elided[j])
    [] ~IsElevated(j) /\ j \in DOMAIN plans \ DOMAIN elided -> Word("slice", j)
    [] OTHER -> IF params[j].reserved THEN Word("null", j) ELSE Word("param", j)
DescriptorOf(j) == IF WordOf(j).via = "param" THEN SpecOf(params[j].type) ELSE "word"

\* A count is elided for the one buffer that counts or sizes by it.
PlansInv ==
  phase # "plan" =>
    /\ \A i \in DOMAIN plans : i \in Idx /\ (TypedArray(i) \/ ByteBuffer(i))
    /\ \A i \in DOMAIN plans : plans[i] = IF TypedArray(i) THEN params[i].count ELSE params[i].size
    /\ \A j \in DOMAIN elided : elided[j] \in DOMAIN plans /\ plans[elided[j]] = j

\* Parameters 1..n are shaped, behind h words that are not theirs, and declared.
ShapedUpTo(n, h) ==
  /\ Len(words) = h + n /\ Len(specs) = h + n
  /\ \A k \in 1..h : words[k].via \in {"self", "ret"} /\ specs[k] = "word"
  /\ \A j \in 1..n :
       /\ words[h + j] = WordOf(j) /\ specs[h + j] = DescriptorOf(j)
       /\ WordOf(j).via = "param" => j \in DOMAIN decls
       /\ WordOf(j).via = "slice" => j \in DOMAIN decls /\ decls[j] = "slice"

ShapingInv ==
  /\ phase = "plan" => words = << >> /\ specs = << >> /\ values = {}
  /\ phase = "params" => Len(words) \in 0..Len(params) /\ ShapedUpTo(Len(words), 0)
  /\ phase \in {"dispatch", "emitted"} =>
       \E h \in 0..(IF phase = "dispatch" THEN 1 ELSE 2) : ShapedUpTo(Len(params), h)
  /\ \A i \in values : IsElevated(i)

\* The result, and what of the return the dispatch still has to carry.
ResultInv ==
  phase \in {"dispatch", "emitted"} =>
    /\ source.ret = "HRESULT" \/ (source.ret = "BOOL" /\ source.kind = "function" /\ source.setLastError)
         => result.kind \in {"error", "value,error", "values,error"}
    /\ source.ret \in {"value", "checked", "float", "small", "large"}
         => result.kind \in {"value", "value,error", "value,advisory"}
    /\ values # {} => result.kind \in {"values", "values,error"}
    /\ source.ret = "float" => result.spec = "float"
    /\ source.ret = "large" =>
         \/ result.spec = "large"
         \/ source.kind = "method" /\ \E k \in 1..Len(words) : words[k].via = "ret"
    /\ ByPointer => result.spec = ""
    /\ phase = "emitted" => dispatch = (IF viaCall THEN "Call" ELSE "SyscallN") /\ WithinLimit

\* self joins the words when the body is written, the hidden pointer before.
LeadInv == phase \in {"dispatch", "emitted"} => Leading

IInv == TypeOK /\ PlansInv /\ ShapingInv /\ ResultInv /\ LeadInv
=============================================================================
