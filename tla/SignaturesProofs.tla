-------------------------- MODULE SignaturesProofs --------------------------
(* Proofs about Signatures, for any set of signatures of any length.         *)
EXTENDS Signatures, TLAPS

\* What shapes a signature is one of the given ones, and does not change.
SourceOK == source \in Sources
Inv == SourceOK /\ IInv

Words == [via : {"self", "ret", "out", "len", "slice", "param", "null"}, of : Nat]
Descriptors == {"word", "float", "large"}

\* The parameters of a signature are a sequence of parameters, as
\* SourcesAssumption says.
LEMMA SourceFacts ==
  ASSUME SourceOK
  PROVE  /\ params \in Seq(Params) /\ Len(params) \in Nat
         /\ \A i \in Idx : params[i] \in Params /\ i \in Nat
         /\ source.ret \in ReturnTypes /\ source.taken \subseteq {"bare", "raw"}
         /\ source.kind \in {"function", "method"}
         /\ \A i \in Idx : ~(params[i].reserved /\ params[i].retval)
<1>1. params \in Seq(Params) /\ Len(params) \in Nat
  BY SourcesAssumption DEF SourceOK, params
<1>2. \A i \in Idx : params[i] \in Params /\ i \in Nat
  BY <1>1 DEF Idx
<1> QED
  BY <1>1, <1>2, SourcesAssumption DEF SourceOK, params, Idx

\* One element before a sequence moves the others up by one (the hidden result
\* pointer and self).
LEMMA Prepend ==
  ASSUME NEW S, NEW x \in S, NEW s \in Seq(S)
  PROVE  /\ <<x>> \o s \in Seq(S) /\ Len(<<x>> \o s) = Len(s) + 1
         /\ (<<x>> \o s)[1] = x
         /\ \A k \in 1..Len(s) : (<<x>> \o s)[k + 1] = s[k]
OBVIOUS

\* What the plans say of a parameter only changes with the plans.
LEMMA PlansSteady ==
  ASSUME UNCHANGED source
  PROVE  /\ params' = params /\ Idx' = Idx
         /\ \A i : /\ TypedArray(i)' = TypedArray(i) /\ ByteBuffer(i)' = ByteBuffer(i)
                   /\ IsElevated(i)' = IsElevated(i)
BY DEF params, Idx, TypedArray, ByteBuffer, IsElevated, Elevates, Collapsible, TypedPointer, Retyped,
       voidPPOuts, iidPaired, iids, IsCount, Counting, Sizing

\* Hence the word of a parameter does not change while the words are built.
LEMMA WordsSteady ==
  ASSUME UNCHANGED <<source, plans, elided>>
  PROVE  \A j : WordOf(j)' = WordOf(j) /\ DescriptorOf(j)' = DescriptorOf(j)
<1>1. \A j : WordOf(j)' = WordOf(j)
  BY PlansSteady DEF WordOf, Word
<1> QED
  BY <1>1, PlansSteady DEF DescriptorOf, SpecOf

\* Two buffers never plan with the same count.
LEMMA OneBuffer ==
  ASSUME NEW i \in Idx, NEW k \in Idx, TypedArray(i) \/ ByteBuffer(i), TypedArray(k) \/ ByteBuffer(k),
         (IF TypedArray(i) THEN params[i].count ELSE params[i].size)
           = (IF TypedArray(k) THEN params[k].count ELSE params[k].size)
  PROVE  i = k
<1>1. CASE TypedArray(i)
  BY <1>1 DEF TypedArray, ByteBuffer
<1>2. CASE ~TypedArray(i)
  BY <1>2 DEF TypedArray, ByteBuffer
<1> QED
  BY <1>1, <1>2

\* The count of a buffer is an integer that is not reserved, and no buffer is one.
LEMMA BufferFacts ==
  ASSUME SourceOK, NEW i \in Idx, TypedArray(i) \/ ByteBuffer(i)
  PROVE  LET j == IF TypedArray(i) THEN params[i].count ELSE params[i].size IN
         /\ j \in Idx /\ params[j].type = "int" /\ ~params[j].reserved
         /\ params[i].type # "int" /\ ~params[i].retval /\ ~params[i].reserved
         /\ IF Counting(j) = {} THEN Sizing(j) = {i} ELSE Counting(j) = {i}
<1>1. params[i].type # "int"
  BY DEF TypedArray, ByteBuffer, TypedPointer, Retyped, voidPPOuts
<1>2. CASE TypedArray(i)
  BY <1>1, <1>2 DEF TypedArray, Collapsible, IsCount
<1>3. CASE ~TypedArray(i)
  BY <1>1, <1>3 DEF ByteBuffer, Collapsible, IsCount
<1> QED
  BY <1>2, <1>3

\* A planned buffer passes its address, and an elided count the length of it.
LEMMA PlannedWords ==
  ASSUME SourceOK, PlansInv, phase # "plan"
  PROVE  /\ \A i \in DOMAIN plans : WordOf(i) = Word("slice", i)
         /\ \A j \in DOMAIN elided : j \in Idx => 
              /\ elided[j] \in DOMAIN plans /\ ~params[j].reserved
              /\ IF Counting(j) = {} THEN Sizing(j) = {elided[j]} ELSE Counting(j) = {elided[j]}
<1>1. \A j \in DOMAIN elided :
        /\ elided[j] \in DOMAIN plans /\ elided[j] \in Idx
        /\ TypedArray(elided[j]) \/ ByteBuffer(elided[j])
        /\ j = IF TypedArray(elided[j]) THEN params[elided[j]].count ELSE params[elided[j]].size
  BY DEF PlansInv
<1>2. \A j \in DOMAIN elided : /\ params[j].type = "int" /\ ~params[j].reserved
        /\ IF Counting(j) = {} THEN Sizing(j) = {elided[j]} ELSE Counting(j) = {elided[j]}
  <2> TAKE j \in DOMAIN elided
  <2> QED
    BY <1>1, BufferFacts
<1>3. \A i \in DOMAIN plans : WordOf(i) = Word("slice", i)
  <2> TAKE i \in DOMAIN plans
  <2>1. i \in Idx /\ params[i].type # "int" /\ ~params[i].retval
    BY BufferFacts DEF PlansInv
  <2>2. i \notin DOMAIN elided
    BY <1>2, <2>1
  <2>3. ~IsElevated(i)
    BY <2>1 DEF IsElevated
  <2> QED
    BY <2>2, <2>3 DEF WordOf
<1> QED
  BY <1>1, <1>2, <1>3

-----------------------------------------------------------------------------
(* Init and the plans *)

\* A signature starts unshaped.
LEMMA InitInv == Init => Inv
<1> SUFFICES ASSUME Init PROVE Inv
  OBVIOUS
<1>1. SourceOK
  BY DEF Init, SourceOK
<1>2. TypeOK
  <2>1. /\ DOMAIN plans = {} /\ DOMAIN elided = {} /\ DOMAIN decls = {}
    BY DEF Init, Empty
  <2>2. words \in Seq([via : {"self", "ret", "out", "len", "slice", "param", "null"}, of : Nat])
        /\ specs \in Seq({"word", "float", "large"})
    BY DEF Init
  <2>3. claimed \subseteq {"bare", "raw"} /\ result.spec = ""
    BY <1>1, SourceFacts DEF Init, NoResult
  <2> QED
    BY <2>1, <2>2, <2>3 DEF Init, TypeOK
<1>3. PlansInv /\ ShapingInv /\ ResultInv /\ LeadInv
  BY DEF Init, PlansInv, ShapingInv, ResultInv, LeadInv
<1> QED
  BY <1>1, <1>2, <1>3 DEF Inv, IInv

\* planSliceParams leaves each count to one buffer.
LEMMA PlanSlicesKeeps ==
  ASSUME Inv, PlanSlices
  PROVE  Inv'
<1> USE DEF Inv, IInv
<1>1. SourceOK'
  BY DEF PlanSlices, SourceOK
<1> DEFINE Buf == {k \in Idx : TypedArray(k) \/ ByteBuffer(k)}
           CountOf(i) == IF TypedArray(i) THEN params[i].count ELSE params[i].size
<1>2. /\ DOMAIN plans' = Buf /\ \A i \in Buf : plans'[i] = CountOf(i)
      /\ DOMAIN elided' = {plans'[i] : i \in Buf}
      /\ \A j \in DOMAIN elided' : elided'[j] = CHOOSE i \in Buf : plans'[i] = j
  BY DEF PlanSlices
<1>3. \A j \in DOMAIN elided' : elided'[j] \in Buf /\ plans'[elided'[j]] = j
  BY <1>2
<1>4. \A i \in Buf : plans'[i] \in DOMAIN elided' /\ elided'[plans'[i]] = i
  BY <1>2, <1>3, OneBuffer
<1>5. DOMAIN elided' \subseteq Idx
  BY <1>2, BufferFacts
<1>6. PlansInv'
  <2>1. params' = params /\ Idx' = Idx /\ \A i : TypedArray(i)' = TypedArray(i) /\ ByteBuffer(i)' = ByteBuffer(i)
    BY PlansSteady DEF PlanSlices
  <2> QED
    BY <1>2, <1>3, <2>1 DEF PlansInv
<1>7. TypeOK'
  BY <1>2, <1>4, <1>5, PlansSteady DEF PlanSlices, TypeOK
<1>8. ShapingInv'
  <2>1. phase' = "params" /\ words' = << >> /\ specs' = << >> /\ values' = {}
    BY DEF PlanSlices, ShapingInv
  <2>2. Len(params') \in Nat
    BY SourceFacts DEF PlanSlices, params
  <2>3. Len(words') = 0 /\ Len(specs') = 0
    BY <2>1
  <2> QED
    BY <2>1, <2>2, <2>3 DEF ShapingInv, ShapedUpTo
<1>9. ResultInv' /\ LeadInv'
  BY DEF PlanSlices, ResultInv, LeadInv
<1> QED
  BY <1>1, <1>6, <1>7, <1>8, <1>9

-----------------------------------------------------------------------------
(* Shaping parameters *)

\* A parameter that gets its word, and is declared as its word needs, keeps the
\* invariant: the obligations of each way to shape one.
LEMMA ShapeKeeps ==
  ASSUME Inv, Shaping, Shape(WordOf(i0), DescriptorOf(i0)),
         values' \in {values, values \cup {i0}}, values' # values => IsElevated(i0),
         \/ UNCHANGED decls /\ WordOf(i0).via \notin {"param", "slice"}
         \/ /\ Declare(i0, "plain") /\ WordOf(i0).via # "slice"
         \/ /\ Declare(i0, "slice")
  PROVE  Inv'
<1> USE DEF Inv, IInv
<1>1. /\ UNCHANGED <<source, phase, plans, elided, result, dispatch, claimed>>
      /\ words' = Append(words, WordOf(i0)) /\ specs' = Append(specs, DescriptorOf(i0))
      /\ phase = "params" /\ i0 \in Idx /\ SourceOK'
  BY DEF Shape, Shaping, SourceOK
<1>2. /\ params' = params /\ Idx' = Idx
      /\ \A i : /\ TypedArray(i)' = TypedArray(i) /\ ByteBuffer(i)' = ByteBuffer(i)
                /\ IsElevated(i)' = IsElevated(i)
      /\ \A j : WordOf(j)' = WordOf(j) /\ DescriptorOf(j)' = DescriptorOf(j)
  BY <1>1, PlansSteady, WordsSteady
<1>3. PlansInv'
  BY <1>1, <1>2 DEF PlansInv
<1>4. /\ WordOf(i0) \in Words /\ DescriptorOf(i0) \in Descriptors
  <2>1. i0 \in Nat
    BY <1>1, SourceFacts
  <2>2. i0 \in DOMAIN elided => elided[i0] \in Nat
    BY <1>1, SourceFacts DEF PlansInv
  <2> QED
    BY <2>1, <2>2 DEF WordOf, DescriptorOf, Word, Words, SpecOf, Descriptors
<1>5. /\ DOMAIN decls' \subseteq Idx /\ \A i \in DOMAIN decls' : decls'[i] \in {"plain", "slice"}
      /\ \A i \in DOMAIN decls : i \in DOMAIN decls' /\ (i # i0 => decls'[i] = decls[i])
      /\ WordOf(i0).via = "param" => i0 \in DOMAIN decls'
      /\ WordOf(i0).via = "slice" => i0 \in DOMAIN decls' /\ decls'[i0] = "slice"
  <2>0. DOMAIN decls \subseteq Idx /\ \A i \in DOMAIN decls : decls[i] \in {"plain", "slice"}
    BY DEF TypeOK
  <2>1. CASE UNCHANGED decls /\ WordOf(i0).via \notin {"param", "slice"}
    BY <2>0, <2>1
  <2>2. CASE Declare(i0, "plain") /\ WordOf(i0).via # "slice"
    BY <1>1, <2>0, <2>2 DEF Declare
  <2>3. CASE Declare(i0, "slice")
    BY <1>1, <2>0, <2>3 DEF Declare
  <2> QED
    BY <2>1, <2>2, <2>3
<1>6. words \in Seq(Words) /\ specs \in Seq(Descriptors)
  BY DEF TypeOK, Words, Descriptors
<1>7. TypeOK'
  <2>1. words' \in Seq(Words) /\ specs' \in Seq(Descriptors)
    BY <1>1, <1>4, <1>6
  <2>2. values' \subseteq Idx
    <3>1. values' = values \/ values' = values \cup {i0}
      OBVIOUS
    <3>2. values \subseteq Idx /\ i0 \in Idx
      BY <1>1 DEF TypeOK
    <3> QED
      BY <3>1, <3>2, Zenon
  <2> QED
    BY <1>1, <1>2, <1>5, <2>1, <2>2 DEF TypeOK, Words, Descriptors
<1>8. ShapingInv'
  <2> DEFINE n == Len(words)
  <2>1. /\ n \in Nat /\ i0 = n + 1 /\ Len(specs) = n /\ n + 1 \in 0..Len(params)
        /\ \A j \in 1..n : /\ words[j] = WordOf(j) /\ specs[j] = DescriptorOf(j)
                           /\ WordOf(j).via = "param" => j \in DOMAIN decls
                           /\ WordOf(j).via = "slice" => j \in DOMAIN decls /\ decls[j] = "slice"
    BY <1>1, SourceFacts DEF ShapingInv, ShapedUpTo, Idx, i0
  <2>2. /\ Len(words') = n + 1 /\ Len(specs') = n + 1
        /\ \A j \in 1..n : words'[j] = words[j] /\ specs'[j] = specs[j]
        /\ words'[n + 1] = WordOf(i0) /\ specs'[n + 1] = DescriptorOf(i0)
    BY <1>1, <1>6, <2>1
  <2>3. \A j \in 1..(n + 1) :
          /\ words'[j] = WordOf(j) /\ specs'[j] = DescriptorOf(j)
          /\ WordOf(j).via = "param" => j \in DOMAIN decls'
          /\ WordOf(j).via = "slice" => j \in DOMAIN decls' /\ decls'[j] = "slice"
    <3> TAKE j \in 1..(n + 1)
    <3>1. CASE j = n + 1
      BY <3>1, <2>1, <2>2, <1>5
    <3>2. CASE j # n + 1
      <4>1. j \in 1..n /\ j # i0
        BY <3>2, <2>1
      <4>2. words'[j] = WordOf(j) /\ specs'[j] = DescriptorOf(j)
        BY <4>1, <2>1, <2>2
      <4>3. /\ WordOf(j).via = "param" => j \in DOMAIN decls
            /\ WordOf(j).via = "slice" => j \in DOMAIN decls /\ decls[j] = "slice"
        BY <4>1, <2>1
      <4> QED
        BY <4>1, <4>2, <4>3, <1>5
    <3> QED
      BY <3>1, <3>2
  <2>4. ShapedUpTo(Len(words), 0)'
    <3>1. \A j \in 1..(n + 1) : 0 + j = j
      BY <2>1
    <3> QED
      BY <1>2, <2>1, <2>2, <2>3, <3>1 DEF ShapedUpTo
  <2>5. \A i \in values' : IsElevated(i)'
    BY <1>2 DEF ShapingInv
  <2> QED
    BY <1>1, <1>2, <2>1, <2>2, <2>4, <2>5 DEF ShapingInv
<1>9. ResultInv' /\ LeadInv'
  BY <1>1 DEF ResultInv, LeadInv
<1> QED
  BY <1>1, <1>3, <1>7, <1>8, <1>9

\* Each way to shape a parameter gives it its word.
LEMMA ParameterKeeps ==
  ASSUME Inv, ShapeRetVal \/ ShapeCount \/ ShapeSlice \/ ShapeReserved \/ ShapePlain
  PROVE  Inv'
<1>1. ASSUME ShapeRetVal PROVE Inv'
  <2>1. WordOf(i0) = Word("out", i0) /\ DescriptorOf(i0) = "word"
    BY <1>1 DEF ShapeRetVal, WordOf, DescriptorOf, Word
  <2> QED
    BY <1>1, <2>1, ShapeKeeps DEF ShapeRetVal, Word
<1>2. ASSUME ShapeCount PROVE Inv'
  <2>1. WordOf(i0) = Word("len", elided[i0]) /\ DescriptorOf(i0) = "word"
    BY <1>2 DEF ShapeCount, WordOf, DescriptorOf, Word
  <2> QED
    BY <1>2, <2>1, ShapeKeeps DEF ShapeCount, Word
<1>3. ASSUME ShapeSlice PROVE Inv'
  <2>1. WordOf(i0) = Word("slice", i0) /\ DescriptorOf(i0) = "word"
    BY <1>3 DEF ShapeSlice, WordOf, DescriptorOf, Word
  <2> QED
    BY <1>3, <2>1, ShapeKeeps DEF ShapeSlice, Word
<1>4. ASSUME ShapeReserved PROVE Inv'
  <2>1. WordOf(i0) = Word("null", i0) /\ DescriptorOf(i0) = "word"
    BY <1>4 DEF ShapeReserved, IsPlain, WordOf, DescriptorOf, Word
  <2> QED
    BY <1>4, <2>1, ShapeKeeps DEF ShapeReserved, IsPlain, Word
<1>5. ASSUME ShapePlain PROVE Inv'
  <2>1. WordOf(i0) = Word("param", i0) /\ DescriptorOf(i0) = SpecOf(params[i0].type)
    BY <1>5 DEF ShapePlain, IsPlain, WordOf, DescriptorOf, Word
  <2> QED
    BY <1>5, <2>1, ShapeKeeps DEF ShapePlain, IsPlain, Word
<1> QED
  BY <1>1, <1>2, <1>3, <1>4, <1>5

-----------------------------------------------------------------------------
(* The return, the dispatch and the skips *)

\* A word before the others, self or the hidden result pointer, takes none of
\* their places.
LEMMA Prefixed ==
  ASSUME NEW n \in Nat, NEW h \in Nat, NEW m, m = h + 1, ShapedUpTo(n, h), NEW via \in {"self", "ret"},
         words \in Seq(Words), specs \in Seq(Descriptors),
         words' = <<Word(via, 0)>> \o words, specs' = <<"word">> \o specs,
         UNCHANGED <<source, plans, elided, decls>>
  PROVE  /\ ShapedUpTo(n, m)' /\ words'[1].via = via /\ Len(words') = Len(words) + 1
         /\ words' \in Seq(Words) /\ specs' \in Seq(Descriptors)
         /\ \A k \in 1..Len(specs') : specs'[k] # "word" => k # 1 /\ specs'[k] = specs[k - 1]
<1>1. Word(via, 0) \in Words /\ "word" \in Descriptors /\ Word(via, 0).via = via
  BY DEF Word, Words, Descriptors
<1>2. /\ words' \in Seq(Words) /\ Len(words') = h + n + 1 /\ words'[1] = Word(via, 0)
      /\ \A k \in 1..(h + n) : words'[k + 1] = words[k]
  BY <1>1, Prepend DEF ShapedUpTo
<1>3. /\ specs' \in Seq(Descriptors) /\ Len(specs') = h + n + 1 /\ specs'[1] = "word"
      /\ \A k \in 1..(h + n) : specs'[k + 1] = specs[k]
  BY <1>1, Prepend DEF ShapedUpTo
<1>4. \A k \in 1..(h + 1) : words'[k].via \in {"self", "ret"} /\ specs'[k] = "word"
  <2> TAKE k \in 1..(h + 1)
  <2>1. CASE k = 1
    BY <2>1, <1>1, <1>2, <1>3
  <2>2. CASE k # 1
    <3>1. k - 1 \in 1..h /\ k - 1 \in 1..(h + n) /\ (k - 1) + 1 = k
      BY <2>2
    <3>2. words'[k] = words[k - 1] /\ specs'[k] = specs[k - 1]
      BY <3>1, <1>2, <1>3
    <3> QED
      BY <3>1, <3>2 DEF ShapedUpTo
  <2> QED
    BY <2>1, <2>2
<1>5. \A j \in 1..n : words'[(h + 1) + j] = words[h + j] /\ specs'[(h + 1) + j] = specs[h + j]
  <2> TAKE j \in 1..n
  <2>1. h + j \in 1..(h + n) /\ (h + j) + 1 = (h + 1) + j
    OBVIOUS
  <2> QED
    BY <2>1, <1>2, <1>3
<1>6. ShapedUpTo(n, h + 1)'
  <2>1. Len(words') = (h + 1) + n /\ Len(specs') = (h + 1) + n
    BY <1>2, <1>3
  <2> QED
    BY <2>1, <1>4, <1>5, WordsSteady DEF ShapedUpTo
<1>7. ASSUME NEW k \in 1..Len(specs'), specs'[k] # "word" PROVE k # 1 /\ specs'[k] = specs[k - 1]
  <2>1. k # 1
    BY <1>3, <1>7
  <2>2. k - 1 \in 1..(h + n) /\ (k - 1) + 1 = k
    BY <2>1, <1>3
  <2> QED
    BY <2>1, <2>2, <1>3
<1> QED
  BY <1>1, <1>2, <1>3, <1>6, <1>7 DEF ShapedUpTo

\* seq starts with the only word of n + 1 that is of kind via, or is self or ret.
LeadsWith(n, via, seq) ==
  /\ Len(seq) = n + 1
  /\ \A k \in 1..Len(seq) : /\ seq[k].via = via <=> k = 1
                            /\ seq[k].via \in {"self", "ret"} => k = 1

\* A word of a kind of its own before n others is the only one of its kind.
LEMMA LeadsAlone ==
  ASSUME NEW n \in Nat, NEW via \in {"self", "ret"}, NEW w \in Words, w.via = via,
         NEW seq \in Seq(Words), Len(seq) = n,
         \A k \in 1..Len(seq) : seq[k].via \notin {"self", "ret"}
  PROVE  LeadsWith(n, via, <<w>> \o seq)
<1> DEFINE longer == <<w>> \o seq
<1>1. /\ Len(longer) = n + 1 /\ longer[1] = w
      /\ \A k \in 1..n : longer[k + 1] = seq[k]
  BY Prepend
<1> SUFFICES ASSUME NEW k \in 1..Len(longer)
             PROVE  /\ longer[k].via = via <=> k = 1
                    /\ longer[k].via \in {"self", "ret"} => k = 1
  BY <1>1 DEF LeadsWith
<1>2. CASE k = 1
  BY <1>1, <1>2
<1>3. CASE k # 1
  <2>1. k - 1 \in 1..n /\ (k - 1) + 1 = k
    BY <1>1, <1>3
  <2>2. longer[k] = seq[k - 1]
    BY <1>1, <2>1
  <2> HIDE DEF longer
  <2> QED
    BY <1>3, <2>1, <2>2
<1> QED
  BY <1>2, <1>3

\* A function or method that is skipped is not looked at again.
LEMMA SkipKeeps ==
  ASSUME Inv, phase # "plan", Skip
  PROVE  Inv'
<1> USE DEF Inv, IInv
<1>1. /\ phase' = "skipped" /\ SourceOK' /\ params' = params /\ Idx' = Idx
      /\ UNCHANGED <<source, plans, elided, decls, words, specs, values, result, dispatch, claimed>>
      /\ \A i : TypedArray(i)' = TypedArray(i) /\ ByteBuffer(i)' = ByteBuffer(i)
               /\ IsElevated(i)' = IsElevated(i)
  BY PlansSteady DEF Skip, SourceOK
<1>2. TypeOK'
  BY <1>1 DEF TypeOK
<1>3. PlansInv'
  BY <1>1 DEF PlansInv
<1>4. ShapingInv' /\ ResultInv' /\ LeadInv'
  BY <1>1 DEF ShapingInv, ResultInv, LeadInv
<1> QED
  BY <1>1, <1>2, <1>3, <1>4

\* What win32.Call can be told of a return.
Returns == {"", "float", "large"}

\* What a shape of the return has to keep: the status, the value, the elevated
\* results, and where a float or a large composite comes back.
Suits(kind, spec) ==
  /\ source.ret = "HRESULT" \/ (source.ret = "BOOL" /\ source.kind = "function" /\ source.setLastError)
       => kind \in {"error", "value,error", "values,error"}
  /\ source.ret \in {"value", "checked", "float", "small", "large"}
       => kind \in {"value", "value,error", "value,advisory"}
  /\ values # {} => kind \in {"values", "values,error"}
  /\ source.ret = "float" => spec = "float"
  /\ source.ret = "large" => spec = "large" \/ (source.kind = "method" /\ HiddenPointer)
  /\ ByPointer => spec = ""

\* A return that keeps the status and the value keeps the invariant: the
\* obligations of each way to shape one.
LEMMA ReturnKeeps ==
  ASSUME Inv, Shaped, NEW how, NEW by \in Returns, Return(how, by),
         IF ByPointer THEN HiddenPointer ELSE UNCHANGED <<words, specs>>, Suits(how, by)
  PROVE  Inv'
<1> USE DEF Inv, IInv
<1>1. /\ phase' = "dispatch" /\ SourceOK' /\ params' = params /\ Idx' = Idx
      /\ result' = [kind |-> how, spec |-> by]
      /\ UNCHANGED <<source, plans, elided, decls, values, dispatch, claimed>>
      /\ \A i : TypedArray(i)' = TypedArray(i) /\ ByteBuffer(i)' = ByteBuffer(i)
               /\ IsElevated(i)' = IsElevated(i)
  BY PlansSteady DEF Return, SourceOK
<1>2. PICK n \in Nat : n = Len(params)
  BY SourceFacts
<1>3. /\ phase = "params" /\ Len(words) = n /\ ShapedUpTo(n, 0)
      /\ words \in Seq(Words) /\ specs \in Seq(Descriptors)
  <2>1. phase = "params" /\ Len(words) \in 0..n /\ Len(words) + 1 \notin 1..n
    BY <1>2 DEF Shaped, ShapingInv, i0, Idx
  <2>2. Len(words) = n
    BY <2>1
  <2> QED
    BY <2>1, <2>2 DEF ShapingInv, TypeOK, Words, Descriptors
<1>4. /\ words' \in Seq(Words) /\ specs' \in Seq(Descriptors)
      /\ ShapedUpTo(n, 0)' \/ ShapedUpTo(n, 1)'
      /\ HiddenPointer => \E k \in 1..Len(words') : words'[k].via = "ret"
  <2>1. CASE HiddenPointer
    <3>1. /\ ShapedUpTo(n, 1)' /\ words'[1].via = "ret" /\ Len(words') = Len(words) + 1
          /\ words' \in Seq(Words) /\ specs' \in Seq(Descriptors)
      <4>1. 1 = 0 + 1 /\ 0 \in Nat
        OBVIOUS
      <4> QED
        BY <4>1, <1>1, <1>3, <2>1, Prefixed DEF HiddenPointer
    <3>2. 1 \in 1..Len(words')
      BY <3>1, <1>3
    <3> QED
      BY <3>1, <3>2
  <2>2. CASE UNCHANGED <<words, specs>> /\ ~HiddenPointer
    BY <1>1, <1>3, <2>2, WordsSteady DEF ShapedUpTo
  <2> QED
    BY <2>1, <2>2
<1>5. TypeOK'
  BY <1>1, <1>4 DEF TypeOK, Words, Descriptors, Returns
<1>6. PlansInv'
  BY <1>1, <1>3 DEF PlansInv
<1>7. ShapingInv'
  <2>1. \E h \in 0..1 : ShapedUpTo(n, h)'
    BY <1>4
  <2> QED
    BY <1>1, <1>2, <2>1 DEF ShapingInv
<1>8. ResultInv'
  BY <1>1, <1>4 DEF ResultInv, Suits, ByPointer
<1>9. LeadInv'
  <2>1. \A k \in 1..Len(words) : words[k].via \notin {"self", "ret"}
    <3> TAKE k \in 1..Len(words)
    <3>1. words[k] = WordOf(k)
      BY <1>3 DEF ShapedUpTo
    <3> QED
      BY <3>1 DEF WordOf, Word
  <2>2. CASE ByPointer
    <3>1. words' = <<Word("ret", 0)>> \o words /\ Word("ret", 0) \in Words /\ Word("ret", 0).via = "ret"
      BY <2>2 DEF HiddenPointer, Word, Words
    <3>2. LeadsWith(n, "ret", words')
      BY <1>3, <2>1, <3>1, LeadsAlone
    <3> QED
      BY <1>1, <1>2, <2>2, <3>2 DEF LeadInv, Leading, LeadsWith, selfWords, ptrWords, ByPointer
  <2>3. CASE ~ByPointer
    BY <1>1, <1>2, <1>3, <2>1, <2>3 DEF LeadInv, Leading, selfWords, ptrWords, ByPointer
  <2> QED
    BY <2>2, <2>3
<1> QED
  BY <1>1, <1>5, <1>6, <1>7, <1>8, <1>9

\* Each shape a return may take is one of these.
LEMMA AnyReturnKeeps ==
  ASSUME Inv, ReturnElevated \/ ReturnFunction \/ ReturnMethod
  PROVE  Inv'
<1>1. source.ret \in ReturnTypes /\ source.kind \in {"function", "method"}
  BY SourceFacts DEF Inv
<1>2. ASSUME ReturnElevated PROVE Inv'
  <2>1. Elevates
    BY <1>2 DEF ReturnElevated, Inv, IInv, ShapingInv, IsElevated
  <2>2. source.ret \in {"HRESULT", "BOOL", "void"} /\ (source.ret = "BOOL" => source.kind = "function")
    BY <2>1 DEF Elevates
  <2> QED
    BY <1>2, <2>2, ReturnKeeps DEF ReturnElevated, Suits, Returns, ByPointer
<1>3. ASSUME ReturnFunction PROVE Inv'
  BY <1>1, <1>3, ReturnKeeps DEF ReturnFunction, Suits, Returns, ReturnTypes, ByPointer
<1>4. ASSUME ReturnMethod PROVE Inv'
  <2>1. IF ByPointer THEN HiddenPointer ELSE UNCHANGED <<words, specs>>
    BY <1>1, <1>4 DEF ReturnMethod, ByPointer
  <2> QED
    BY <1>1, <1>4, <2>1, ReturnKeeps DEF ReturnMethod, Suits, Returns, ReturnTypes, ByPointer
<1> QED
  BY <1>2, <1>3, <1>4

\* The body that is emitted dispatches by what its words, and not self, need.
LEMMA EmitKeeps ==
  ASSUME Inv, Emit
  PROVE  Inv'
<1> USE DEF Inv, IInv
<1>1. /\ phase = "dispatch" /\ phase' = "emitted" /\ SourceOK' /\ params' = params /\ Idx' = Idx
      /\ UNCHANGED <<source, plans, elided, decls, values, result>>
      /\ dispatch' = IF viaCall THEN "Call" ELSE "SyscallN"
      /\ \A i : TypedArray(i)' = TypedArray(i) /\ ByteBuffer(i)' = ByteBuffer(i)
               /\ IsElevated(i)' = IsElevated(i)
  BY PlansSteady DEF Emit, SourceOK
<1>2. PICK n \in Nat : n = Len(params)
  BY SourceFacts
<1>3. PICK h \in 0..1 : ShapedUpTo(n, h)
  BY <1>1, <1>2 DEF ShapingInv
<1>4. words \in Seq(Words) /\ specs \in Seq(Descriptors)
  BY DEF TypeOK, Words, Descriptors
<1>5. /\ words' \in Seq(Words) /\ specs' \in Seq(Descriptors)
      /\ \E k \in 0..2 : ShapedUpTo(n, k)'
      /\ (\E k \in 1..Len(specs') : specs'[k] # "word") <=> \E k \in 1..Len(specs) : specs[k] # "word"
      /\ (\E k \in 1..Len(words) : words[k].via = "ret") => \E k \in 1..Len(words') : words'[k].via = "ret"
  <2>1. CASE source.kind = "method"
    <3>1. PICK m \in 1..2 : m = h + 1
      OBVIOUS
    <3>2. h \in Nat /\ words' = <<Word("self", 0)>> \o words /\ specs' = <<"word">> \o specs
      BY <2>1 DEF Emit
    <3>3. /\ ShapedUpTo(n, m)' /\ Len(words') = Len(words) + 1
          /\ words' \in Seq(Words) /\ specs' \in Seq(Descriptors)
      BY <1>1, <1>3, <1>4, <3>1, <3>2, Prefixed
    <3>4. /\ Len(specs') = Len(specs) + 1 /\ Len(specs) \in Nat /\ Len(words) \in Nat
          /\ specs'[1] = "word"
          /\ \A k \in 1..Len(specs) : specs'[k + 1] = specs[k]
          /\ \A k \in 1..Len(words) : words'[k + 1] = words[k]
      BY <1>4, <3>2, Prepend DEF Word, Words, Descriptors
    <3>5. (\E k \in 1..Len(specs') : specs'[k] # "word") <=> \E k \in 1..Len(specs) : specs[k] # "word"
      <4>1. ASSUME NEW k \in 1..Len(specs'), specs'[k] # "word"
            PROVE  \E i \in 1..Len(specs) : specs[i] # "word"
        <5>1. k # 1
          BY <3>4, <4>1
        <5>2. k - 1 \in 1..Len(specs) /\ (k - 1) + 1 = k
          BY <3>4, <5>1
        <5>3. specs[k - 1] # "word"
          BY <3>4, <4>1, <5>2
        <5> QED
          BY <5>2, <5>3
      <4>2. ASSUME NEW k \in 1..Len(specs), specs[k] # "word"
            PROVE  \E i \in 1..Len(specs') : specs'[i] # "word"
        <5>1. k + 1 \in 1..Len(specs') /\ specs'[k + 1] # "word"
          BY <3>4, <4>2
        <5> QED
          BY <5>1
      <4> QED
        BY <4>1, <4>2
    <3>6. ASSUME NEW k \in 1..Len(words), words[k].via = "ret"
          PROVE  \E i \in 1..Len(words') : words'[i].via = "ret"
      <4>1. k + 1 \in 1..Len(words') /\ words'[k + 1].via = "ret"
        BY <3>3, <3>4, <3>6
      <4> QED
        BY <4>1
    <3>7. m \in 0..2
      BY <3>1
    <3> QED
      BY <3>3, <3>5, <3>6, <3>7
  <2>2. CASE source.kind # "method"
    <3>1. UNCHANGED <<words, specs>>
      BY <2>2 DEF Emit
    <3>2. ShapedUpTo(n, h)' /\ h \in 0..2
      <4>1. \A j : WordOf(j)' = WordOf(j) /\ DescriptorOf(j)' = DescriptorOf(j)
        BY <1>1, WordsSteady
      <4>2. ShapedUpTo(n, h)'
        BY <1>1, <1>3, <3>1, <4>1 DEF ShapedUpTo
      <4> QED
        BY <4>2
    <3> QED
      BY <1>4, <3>1, <3>2
  <2> QED
    BY <2>1, <2>2
<1>6. claimed' \subseteq {"bare", "raw"}
  BY DEF Emit, Name, TypeOK
<1>7. TypeOK'
  BY <1>1, <1>5, <1>6 DEF TypeOK, Words, Descriptors
<1>8. PlansInv'
  BY <1>1 DEF PlansInv
<1>9. ShapingInv'
  BY <1>1, <1>2, <1>3, <1>5 DEF ShapingInv
<1>10. LeadInv' /\ (viaCall => Len(words') <= maxCallWords)
  <2>1. /\ Leading /\ selfWords = 0 /\ ptrWords \in {0, 1} /\ ptrWords' = ptrWords
        /\ Len(params) = n /\ Len(params') = n
    BY <1>1, <1>2 DEF LeadInv, selfWords, ptrWords, ByPointer
  <2>2. CASE source.kind = "method"
    <3>1. words' = <<Word("self", 0)>> \o words /\ Word("self", 0) \in Words /\ Word("self", 0).via = "self"
      BY <2>2 DEF Emit, Word, Words
    <3>2. /\ Len(words') = Len(words) + 1 /\ words'[1].via = "self"
          /\ \A k \in 1..Len(words) : words'[k + 1] = words[k]
      BY <1>4, <3>1, Prepend
    <3>3. \A k \in 1..Len(words') : /\ words'[k].via = "self" <=> k = 1
                                    /\ words'[k].via = "ret" <=> ptrWords = 1 /\ k = 2
      <4> TAKE k \in 1..Len(words')
      <4>1. CASE k = 1
        BY <3>2, <4>1
      <4>2. CASE k # 1
        <5>1. k - 1 \in 1..Len(words) /\ (k - 1) + 1 = k /\ (k - 1 = 0 + 1 <=> k = 2)
          BY <1>4, <3>2, <4>2
        <5>2. words'[k] = words[k - 1]
          BY <3>2, <5>1
        <5> QED
          BY <2>1, <4>2, <5>1, <5>2 DEF Leading
      <4> QED
        BY <4>1, <4>2
    <3>4. Len(words') = 1 + ptrWords + n /\ selfWords' = 1
      BY <1>1, <2>1, <2>2, <3>2 DEF Leading, selfWords
    <3>5. LeadInv'
      <4>1. Len(words') = selfWords' + ptrWords' + Len(params')
        BY <2>1, <3>4
      <4>2. \A k \in 1..Len(words') : /\ words'[k].via = "self" <=> selfWords' = 1 /\ k = 1
                                      /\ words'[k].via = "ret" <=> ptrWords' = 1 /\ k = selfWords' + 1
        <5> TAKE k \in 1..Len(words')
        <5>1. k = selfWords' + 1 <=> k = 2
          BY <3>4
        <5> QED
          BY <2>1, <3>3, <3>4, <5>1
      <4> QED
        BY <4>1, <4>2 DEF LeadInv, Leading
    <3>6. viaCall => Len(words') <= maxCallWords
      BY <1>4, <2>2, <3>2 DEF Emit, TooLong, maxCallWords
    <3> QED
      BY <3>5, <3>6
  <2>3. CASE source.kind # "method"
    <3>1. UNCHANGED words
      BY <2>3 DEF Emit
    <3>2. LeadInv'
      BY <1>1, <2>1, <2>3, <3>1 DEF LeadInv, Leading, selfWords
    <3>3. viaCall => Len(words') <= maxCallWords
      BY <1>4, <2>3, <3>1 DEF Emit, TooLong, maxCallWords
    <3> QED
      BY <3>2, <3>3
  <2> QED
    BY <2>2, <2>3
<1>11. viaCall' <=> viaCall
  BY <1>1, <1>5 DEF viaCall
<1>12. ResultInv'
  <2>1. WithinLimit'
    BY <1>1, <1>10 DEF WithinLimit, Emitted
  <2> QED
    BY <1>1, <1>5, <1>11, <2>1 DEF ResultInv, ByPointer
<1> QED
  BY <1>1, <1>7, <1>8, <1>9, <1>10, <1>12

\* Every step keeps the invariant.
LEMMA NextInv ==
  ASSUME Inv, [Next]_vars
  PROVE  Inv'
<1>1. ASSUME PlanSlices PROVE Inv'
  BY <1>1, PlanSlicesKeeps
<1>2. ASSUME ShapeRetVal \/ ShapeCount \/ ShapeSlice \/ ShapeReserved \/ ShapePlain PROVE Inv'
  BY <1>2, ParameterKeeps
<1>3. ASSUME NotMarshalable \/ ReturnNotMarshalable \/ SkipTooLong \/ SkipNameTaken PROVE Inv'
  BY <1>3, SkipKeeps DEF NotMarshalable, IsPlain, Shaping, ReturnNotMarshalable, Shaped, SkipTooLong, SkipNameTaken
<1>4. ASSUME ReturnElevated \/ ReturnFunction \/ ReturnMethod PROVE Inv'
  BY <1>4, AnyReturnKeeps
<1>5. ASSUME Emit PROVE Inv'
  BY <1>5, EmitKeeps
<1>6. ASSUME UNCHANGED vars PROVE Inv'
  <2>1. /\ UNCHANGED vars /\ params' = params /\ Idx' = Idx
        /\ \A i : TypedArray(i)' = TypedArray(i) /\ ByteBuffer(i)' = ByteBuffer(i)
                 /\ IsElevated(i)' = IsElevated(i)
        /\ \A j : WordOf(j)' = WordOf(j) /\ DescriptorOf(j)' = DescriptorOf(j)
    BY <1>6, PlansSteady, WordsSteady DEF vars
  <2>2. TypeOK' /\ SourceOK'
    BY <2>1 DEF Inv, IInv, vars, TypeOK, SourceOK
  <2>3. PlansInv'
    BY <2>1 DEF Inv, IInv, vars, PlansInv
  <2>4. ShapingInv'
    <3>1. ASSUME NEW n, NEW h, ShapedUpTo(n, h) PROVE ShapedUpTo(n, h)'
      BY <2>1, <3>1 DEF vars, ShapedUpTo
    <3>2. ShapingInv /\ UNCHANGED <<phase, words, specs, values>>
      BY <2>1 DEF Inv, IInv, vars
    <3> QED
      BY <2>1, <3>1, <3>2 DEF ShapingInv
  <2>5. ResultInv' /\ LeadInv'
    BY <2>1 DEF Inv, IInv, vars, ResultInv, viaCall, ByPointer, WithinLimit, Emitted, LeadInv, Leading, selfWords, ptrWords
  <2> QED
    BY <2>2, <2>3, <2>4, <2>5 DEF Inv, IInv
<1> QED
  BY <1>1, <1>2, <1>3, <1>4, <1>5, <1>6 DEF Next

-----------------------------------------------------------------------------
(* What follows from the invariant *)

\* The words of an emitted body, by the parameter they are of: all but the
\* first h, which are self and the hidden result pointer.
LEMMA EmittedWords ==
  ASSUME Inv, Emitted
  PROVE  \E h \in 0..2 :
           /\ ShapedUpTo(Len(params), h) /\ Len(params) \in Nat
           /\ \A k \in 1..Len(words) :
                k \in 1..h \/ \E j \in Idx : k = h + j
           /\ \A j \in Idx : /\ h + j \in 1..Len(words) /\ NativeWord(j) = WordOf(j)
                             /\ specs[h + j] = DescriptorOf(j)
<1>1. PICK n \in Nat : n = Len(params)
  BY SourceFacts DEF Inv
<1>2. PICK h \in 0..2 : ShapedUpTo(n, h)
  BY <1>1 DEF Inv, IInv, ShapingInv, Emitted
<1>3. Len(words) = h + n
  BY <1>2 DEF ShapedUpTo
<1>4. \A k \in 1..Len(words) : k \in 1..h \/ \E j \in 1..n : k = h + j
  <2> TAKE k \in 1..Len(words)
  <2>1. CASE k > h
    <3>1. k - h \in 1..n /\ k = h + (k - h)
      BY <1>3, <2>1
    <3> QED
      BY <3>1
  <2>2. CASE ~(k > h)
    BY <1>3, <2>2
  <2> QED
    BY <2>1, <2>2
<1>5. ASSUME NEW j \in 1..n
      PROVE  /\ h + j \in 1..Len(words) /\ NativeWord(j) = WordOf(j) /\ specs[h + j] = DescriptorOf(j)
  <2>1. h + j \in 1..Len(words) /\ Len(words) - n + j = h + j
    BY <1>3
  <2>2. words[h + j] = WordOf(j) /\ specs[h + j] = DescriptorOf(j)
    BY <1>2 DEF ShapedUpTo
  <2> QED
    BY <1>1, <2>1, <2>2 DEF NativeWord
<1> QED
  BY <1>1, <1>2, <1>4, <1>5 DEF Idx

\* A word has one of the forms of shapeParam and the slice plans, and speaks of its
\* own parameter unless it is the length of another one.
LEMMA WordForms ==
  ASSUME Inv, phase # "plan", NEW j \in Idx
  PROVE  /\ WordOf(j).via \in {"out", "len", "slice", "null", "param"}
         /\ WordOf(j).via # "len" => WordOf(j).of = j
         /\ WordOf(j).via = "len" => j \in DOMAIN elided /\ WordOf(j).of = elided[j]
         /\ params[j].reserved => WordOf(j) = Word("null", j)
<1>1. params[j].reserved => ~IsElevated(j)
  BY SourceFacts DEF Inv, IsElevated
<1>2. params[j].reserved => j \notin DOMAIN elided
  BY PlannedWords DEF Inv, IInv
<1>3. params[j].reserved => j \notin DOMAIN plans
  BY BufferFacts DEF Inv, IInv, PlansInv
<1> QED
  BY <1>1, <1>2, <1>3 DEF WordOf, Word

\* What the emitted body names, it declares.
LEMMA InvNamesDeclared ==
  ASSUME Inv
  PROVE  NamesDeclared
<1> SUFFICES ASSUME Emitted PROVE NamesDeclared
  BY DEF NamesDeclared
<1>1. PICK h \in 0..2 :
        /\ ShapedUpTo(Len(params), h) /\ Len(params) \in Nat
        /\ \A k \in 1..Len(words) : k \in 1..h \/ \E j \in Idx : k = h + j
  BY EmittedWords
<1>2. ASSUME NEW k \in 1..Len(words), k \in 1..h
      PROVE  words[k].via \in {"self", "ret"}
  BY <1>1, <1>2 DEF ShapedUpTo
<1>3. ASSUME NEW j \in Idx
      PROVE  /\ words[h + j] = WordOf(j)
             /\ WordOf(j).via = "param" => WordOf(j).of \in DOMAIN decls
             /\ WordOf(j).via \in {"len", "slice"} =>
                  WordOf(j).of \in DOMAIN decls /\ decls[WordOf(j).of] = "slice"
  <2>1. \A i \in Idx : /\ words[h + i] = WordOf(i)
                       /\ WordOf(i).via = "param" => i \in DOMAIN decls
                       /\ WordOf(i).via = "slice" => i \in DOMAIN decls /\ decls[i] = "slice"
    BY <1>1 DEF ShapedUpTo, Idx
  <2>2. phase # "plan"
    BY DEF Emitted
  <2>3. WordOf(j).via = "len" =>
          WordOf(j).of \in Idx /\ WordOf(WordOf(j).of) = Word("slice", WordOf(j).of)
    BY <2>2, WordForms, PlannedWords DEF Inv, IInv, TypeOK
  <2> QED
    BY <2>1, <2>2, <2>3, WordForms DEF Word
<1> QED
  BY <1>1, <1>2, <1>3 DEF NamesDeclared

\* What the callee reads for a parameter is its parameter's word.
LEMMA InvWordsAreTheirs ==
  ASSUME Inv
  PROVE  WordsAreTheirs
<1> SUFFICES ASSUME Emitted, NEW j \in Idx
             PROVE  LET w == NativeWord(j) IN
                    /\ params[j].reserved => w = Word("null", j)
                    /\ w.via \notin {"self", "ret"} /\ (w.via # "len" => w.of = j)
                    /\ w.via = "len" =>
                         /\ NativeWord(w.of) = Word("slice", w.of)
                         /\ IF Counting(j) = {} THEN Sizing(j) = {w.of} ELSE Counting(j) = {w.of}
  BY DEF WordsAreTheirs
<1>1. phase # "plan"
  BY DEF Emitted
<1>2. \A i \in Idx : NativeWord(i) = WordOf(i)
  BY EmittedWords
<1>3. ASSUME WordOf(j).via = "len"
      PROVE  LET i == WordOf(j).of IN
             /\ i \in Idx /\ WordOf(i) = Word("slice", i)
             /\ IF Counting(j) = {} THEN Sizing(j) = {i} ELSE Counting(j) = {i}
  <2>1. j \in DOMAIN elided /\ WordOf(j).of = elided[j]
    BY <1>1, <1>3, WordForms
  <2>2. elided[j] \in DOMAIN plans /\ DOMAIN plans \subseteq Idx
    BY <1>1, <2>1, PlannedWords DEF Inv, IInv, TypeOK
  <2>3. WordOf(elided[j]) = Word("slice", elided[j])
    BY <1>1, <2>2, PlannedWords DEF Inv, IInv
  <2>4. IF Counting(j) = {} THEN Sizing(j) = {elided[j]} ELSE Counting(j) = {elided[j]}
    BY <1>1, <2>1, PlannedWords DEF Inv, IInv
  <2> QED
    BY <2>1, <2>2, <2>3, <2>4
<1> QED
  BY <1>1, <1>2, <1>3, WordForms

\* The dispatch of an emitted body carries its words and its return.
LEMMA InvDispatchCarries ==
  ASSUME Inv
  PROVE  DispatchCarries
<1>0. ThisFirst /\ WithinLimit
  <2>1. CASE Emitted
    <3>1. phase = "emitted"
      BY <2>1 DEF Emitted
    <3>2. Leading
      BY <3>1 DEF Inv, IInv, LeadInv
    <3>3. (ByPointer => result.spec = "") /\ WithinLimit
      BY <3>1 DEF Inv, IInv, ResultInv
    <3> QED
      BY <3>2, <3>3 DEF ThisFirst
  <2>2. CASE ~Emitted
    BY <2>2 DEF ThisFirst, WithinLimit
  <2> QED
    BY <2>1, <2>2
<1> SUFFICES ASSUME Emitted PROVE SpecMatchesWords /\ OnlyWordsThroughSyscallN
  BY <1>0 DEF DispatchCarries, SpecMatchesWords, OnlyWordsThroughSyscallN
<1>1. PICK h \in 0..2 :
        /\ ShapedUpTo(Len(params), h) /\ Len(params) \in Nat
        /\ \A k \in 1..Len(words) : k \in 1..h \/ \E j \in Idx : k = h + j
        /\ \A j \in Idx : /\ h + j \in 1..Len(words) /\ NativeWord(j) = WordOf(j)
                          /\ specs[h + j] = DescriptorOf(j)
  BY EmittedWords
<1>2. phase # "plan"
  BY DEF Emitted
<1>3. Len(specs) = Len(words) /\ \A j \in Idx : words[h + j] = WordOf(j)
  BY <1>1 DEF ShapedUpTo, Idx
<1>4. SpecMatchesWords
  <2> SUFFICES ASSUME NEW k \in 1..Len(words)
               PROVE  specs[k] = IF words[k].via = "param" THEN SpecOf(params[words[k].of].type) ELSE "word"
    BY <1>3 DEF SpecMatchesWords
  <2>1. CASE k \in 1..h
    BY <1>1, <2>1 DEF ShapedUpTo
  <2>2. CASE \E j \in Idx : k = h + j
    BY <1>1, <1>2, <1>3, <2>2, WordForms DEF DescriptorOf
  <2> QED
    BY <1>1, <2>1, <2>2
<1>5. OnlyWordsThroughSyscallN
  <2> SUFFICES ASSUME dispatch = "SyscallN"
               PROVE  /\ \A j \in Idx : NativeWord(j).via = "param" => params[j].type \notin {"float", "large"}
                      /\ source.ret # "float"
                      /\ source.ret = "large" => source.kind = "method" /\ \E k \in 1..Len(words) : words[k].via = "ret"
    BY DEF OnlyWordsThroughSyscallN
  <2>1. ~viaCall
    BY DEF Inv, IInv, ResultInv, Emitted
  <2>2. result.spec = "" /\ \A k \in 1..Len(specs) : specs[k] = "word"
    BY <2>1 DEF viaCall
  <2>3. ASSUME NEW j \in Idx, NativeWord(j).via = "param" PROVE params[j].type \notin {"float", "large"}
    <3>1. specs[h + j] = "word" /\ specs[h + j] = DescriptorOf(j) /\ WordOf(j).via = "param"
      BY <1>1, <1>3, <2>2, <2>3
    <3> QED
      BY <3>1 DEF DescriptorOf, SpecOf
  <2> QED
    BY <2>2, <2>3 DEF Inv, IInv, ResultInv, Emitted
<1> QED
  BY <1>4, <1>5

\* The inductive invariant, with the signature that is being shaped.
THEOREM InvariantCorrect == Spec => []Inv
<1> QED
  BY InitInv, NextInv, PTL DEF Spec

\* Type correctness.
THEOREM TypeCorrect == Spec => []TypeOK
<1>1. Inv => TypeOK
  BY DEF Inv, IInv
<1> QED
  BY <1>1, InvariantCorrect, PTL

\* Every identifier an emitted body uses is declared, and as a slice where its
\* length is taken.
THEOREM NamesDeclaredCorrect == Spec => []NamesDeclared
BY InvNamesDeclared, InvariantCorrect, PTL

\* The callee finds at each parameter's place that parameter's word.
THEOREM WordsAreTheirsCorrect == Spec => []WordsAreTheirs
BY InvWordsAreTheirs, InvariantCorrect, PTL

\* The descriptors of a win32.Call fit its words, which are not too many, SyscallN
\* is not given what it cannot carry, and self and the hidden result pointer come
\* first, in this order.
THEOREM DispatchCarriesCorrect == Spec => []DispatchCarries
BY InvDispatchCarries, InvariantCorrect, PTL

\* No status and no value of the callee is dropped.
THEOREM ReturnKeptCorrect == Spec => []ReturnKept
<1>1. Inv => ReturnKept
  BY DEF Inv, IInv, ResultInv, ReturnKept, Emitted
<1> QED
  BY <1>1, InvariantCorrect, PTL
=============================================================================
