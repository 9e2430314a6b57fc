--------------------------- MODULE CallPlanProofs ---------------------------
(* Proofs about CallPlan, for calls with any arguments and any return.       *)
EXTENDS CallPlan, SequenceTheorems, TLAPS

-----------------------------------------------------------------------------
(* Files of tokens: registers and the stack *)

\* From f to g argument i came in: n parts from lo on, where f had no part of an
\* argument; what else is new is padding.
Grown(f, g, i, lo, n) ==
  /\ DOMAIN f \subseteq DOMAIN g /\ lo..(lo + n - 1) \subseteq DOMAIN g
  /\ \A k \in 0..n-1 : g[lo + k] = <<i, k>>
  /\ \A r \in lo..(lo + n - 1) : r \in DOMAIN f => f[r] = Zero
  /\ \A r \in DOMAIN g : r \notin lo..(lo + n - 1) => g[r] = IF r \in DOMAIN f THEN f[r] ELSE Zero

\* Then i is held where it came in, and every other argument where it was: none is
\* split or overwritten.
LEMMA GrownHolds ==
  ASSUME NEW f, NEW g, NEW i \in Nat \ {0}, NEW lo \in Nat, NEW n \in Nat \ {0}, Grown(f, g, i, lo, n),
         DOMAIN f \subseteq Nat, \A r \in DOMAIN f : f[r] \in Nat \X Nat /\ f[r][1] < i
  PROVE  /\ Holds(g, i, n) /\ In(g, i) = lo..(lo + n - 1)
         /\ \A j \in Nat \ {0} : j # i => In(g, j) = In(f, j) /\ \A r \in In(f, j) : g[r] = f[r]
         /\ \A j \in Nat \ {0}, m \in Nat \ {0} : j # i /\ Holds(f, j, m) => Holds(g, j, m)
         /\ \A r \in DOMAIN g : g[r] \in Nat \X Nat /\ g[r][1] <= i
<1> DEFINE new == lo..(lo + n - 1)
<1>1. ASSUME NEW r \in new PROVE r \in DOMAIN g /\ g[r] = <<i, r - lo>> /\ r - lo \in Nat
  <2>1. r - lo \in 0..n-1 /\ lo + (r - lo) = r
    OBVIOUS
  <2> QED
    BY <2>1 DEF Grown
<1>2. ASSUME NEW r \in DOMAIN g, r \notin new
      PROVE  g[r] = (IF r \in DOMAIN f THEN f[r] ELSE Zero) /\ g[r] \in Nat \X Nat /\ g[r][1] < i
  BY <1>2 DEF Grown, Zero
<1>3. In(g, i) = new
  BY <1>1, <1>2 DEF In
<1>4. Holds(g, i, n)
  <2>1. lo \in DOMAIN g
    BY DEF Grown
  <2>2. \A k \in 0..n-1 : g[lo + k] = <<i, k>>
    BY DEF Grown
  <2> QED
    BY <1>3, <2>1, <2>2 DEF Holds
<1>5. ASSUME NEW j \in Nat \ {0}, j # i
      PROVE  In(g, j) = In(f, j) /\ \A r \in In(f, j) : g[r] = f[r]
  <2>1. ASSUME NEW r \in In(f, j) PROVE r \in DOMAIN g /\ g[r] = f[r]
    <3>1. r \in DOMAIN f /\ f[r][1] = j /\ f[r] # Zero
      BY DEF In, Zero
    <3>2. r \notin new /\ r \in DOMAIN g
      BY <3>1 DEF Grown
    <3> QED
      BY <3>1, <3>2, <1>2
  <2>2. ASSUME NEW r \in In(g, j) PROVE r \in DOMAIN f /\ g[r] = f[r]
    <3>1. r \in DOMAIN g /\ g[r][1] = j
      BY DEF In
    <3>2. r \notin new
      BY <1>1, <1>5, <3>1
    <3> QED
      BY <1>2, <3>1, <3>2 DEF Zero
  <2>3. \A r \in In(g, j) : r \in In(f, j)
    BY <2>2 DEF In
  <2>4. \A r \in In(f, j) : r \in In(g, j)
    BY <2>1 DEF In
  <2> QED
    BY <2>1, <2>3, <2>4
<1>6. ASSUME NEW j \in Nat \ {0}, NEW m \in Nat \ {0}, j # i, Holds(f, j, m) PROVE Holds(g, j, m)
  <2>1. PICK at \in DOMAIN f : In(f, j) = at..(at + m - 1) /\ \A k \in 0..m-1 : f[at + k] = <<j, k>>
    BY <1>6 DEF Holds
  <2>2. In(g, j) = at..(at + m - 1) /\ at \in DOMAIN g
    BY <1>5, <1>6, <2>1 DEF Grown
  <2>3. \A k \in 0..m-1 : at + k \in In(f, j)
    <3>1. at \in Nat
      OBVIOUS
    <3> QED
      BY <2>1, <3>1
  <2> QED
    BY <1>5, <1>6, <2>1, <2>2, <2>3 DEF Holds
<1>7. ASSUME NEW r \in DOMAIN g PROVE g[r] \in Nat \X Nat /\ g[r][1] <= i
  <2>1. CASE r \in new
    BY <1>1, <2>1
  <2>2. CASE r \notin new
    <3>1. g[r] \in Nat \X Nat /\ g[r][1] < i
      BY <1>2, <2>2
    <3>2. g[r][1] \in Nat
      BY <3>1
    <3> QED
      BY <3>1, <3>2
  <2> QED
    BY <2>1, <2>2
<1> QED
  BY <1>3, <1>4, <1>5, <1>6, <1>7

\* Consecutive registers from the next one on, or one past it.
LEMMA FillGrows ==
  ASSUME NEW file, DOMAIN file = 0..NRegs-1, NEW next \in Nat, Untouched(file, next),
         NEW first \in Nat, next <= first, NEW n \in Nat \ {0}, first + n <= NRegs, NEW i
  PROVE  LET g == Fill(file, first, i, n) IN
         Grown(file, g, i, first, n) /\ DOMAIN g = 0..NRegs-1 /\ Untouched(g, first + n)
<1> DEFINE g == Fill(file, first, i, n)
<1>1. DOMAIN g = 0..NRegs-1 /\ first..(first + n - 1) \subseteq DOMAIN g
  BY DEF Fill, NRegs
<1>2. \A r \in 0..NRegs-1 : g[r] = IF r \in first..(first + n - 1) THEN <<i, r - first>> ELSE file[r]
  BY DEF Fill
<1>3. \A k \in 0..n-1 : first + k \in 0..NRegs-1 /\ first + k \in first..(first + n - 1) /\ (first + k) - first = k
  BY DEF NRegs
<1>4. \A k \in 0..n-1 : g[first + k] = <<i, k>>
  BY <1>2, <1>3
<1>5. \A r \in 0..NRegs-1 : r >= next => file[r] = Zero
  BY DEF Untouched
<1>6. \A r \in first..(first + n - 1) : r \in 0..NRegs-1 /\ r >= next
  BY DEF NRegs
<1>7. \A r \in 0..NRegs-1 : r >= first + n => g[r] = Zero
  BY <1>2, <1>5 DEF NRegs
<1> HIDE DEF g
<1>8. Grown(file, g, i, first, n)
  BY <1>1, <1>2, <1>4, <1>5, <1>6 DEF Grown
<1> QED
  BY <1>1, <1>7, <1>8 DEF Untouched, g

\* One register, the next one.
LEMMA PutGrows ==
  ASSUME NEW file, DOMAIN file = 0..NRegs-1, NEW next \in Nat, Untouched(file, next), next < NRegs, NEW i
  PROVE  LET g == [file EXCEPT ![next] = <<i, 0>>] IN
         Grown(file, g, i, next, 1) /\ DOMAIN g = 0..NRegs-1 /\ Untouched(g, next + 1)
<1> DEFINE g == [file EXCEPT ![next] = <<i, 0>>]
<1>1. /\ next \in 0..NRegs-1 /\ next..(next + 1 - 1) = {next} /\ 0..1-1 = {0} /\ next + 0 = next
      /\ \A r \in 0..NRegs-1 : r >= next + 1 => r # next /\ r >= next
  BY DEF NRegs
<1>2. DOMAIN g = 0..NRegs-1 /\ g[next] = <<i, 0>> /\ \A r \in 0..NRegs-1 : r # next => g[r] = file[r]
  BY <1>1
<1>3. \A r \in 0..NRegs-1 : r >= next => file[r] = Zero
  BY DEF Untouched
<1> HIDE DEF g
<1>4. Grown(file, g, i, next, 1)
  BY <1>1, <1>2, <1>3 DEF Grown
<1> QED
  BY <1>1, <1>2, <1>3, <1>4 DEF Untouched, g

\* One stack word.
LEMMA AppendGrows ==
  ASSUME NEW s \in Seq(Nat \X Nat), NEW i \in Nat
  PROVE  LET t == Append(s, <<i, 0>>) IN
         Grown(s, t, i, Len(s) + 1, 1) /\ t \in Seq(Nat \X Nat)
<1> DEFINE t == Append(s, <<i, 0>>)
<1>1. PICK m \in Nat : m = Len(s)
  OBVIOUS
<1>2. t \in Seq(Nat \X Nat) /\ Len(t) = m + 1 /\ t[m + 1] = <<i, 0>> /\ \A k \in 1..m : t[k] = s[k]
  BY <1>1
<1>3. /\ DOMAIN s = 1..m /\ DOMAIN t = 1..(m + 1) /\ (m + 1)..((m + 1) + 1 - 1) = {m + 1} /\ 0..1-1 = {0}
      /\ (m + 1) + 0 = m + 1 /\ m + 1 \notin 1..m
      /\ \A r \in 1..(m + 1) : r = m + 1 \/ r \in 1..m
  BY <1>1, <1>2
<1> HIDE DEF t
<1> QED
  BY <1>1, <1>2, <1>3 DEF Grown, t

\* An odd number of words and one more are even.
LEMMA EvenAfterOdd == \A m \in Nat : m % 2 = 1 => (m + 1) % 2 = 0
BY SMT

\* Eight bytes to a word, rounded up: never no word.
LEMMA SomeWords == \A size \in Nat \ {0} : WordsOf(size) \in Nat \ {0}
BY SMTT(30) DEF WordsOf

\* appendComposite: whole words, behind a padding word that makes the place even
\* when the composite is 16-byte aligned.
LEMMA CompositeGrows ==
  ASSUME NEW s \in Seq(Nat \X Nat), NEW i \in Nat, NEW a, a.size \in Nat \ {0}, a.align \in Nat
  PROVE  LET t == appendComposite(s, i, a) IN
         /\ t \in Seq(Nat \X Nat) /\ WordsOf(a.size) \in Nat \ {0}
         /\ \E lo \in Nat : /\ lo > Len(s) /\ Grown(s, t, i, lo, WordsOf(a.size))
                            /\ a.align >= 16 => (lo - 1) % 2 = 0
<1> DEFINE t == appendComposite(s, i, a)
           pad == IF a.align >= 16 /\ Len(s) % 2 = 1 THEN <<Zero>> ELSE << >>
           parts == [k \in 1..WordsOf(a.size) |-> <<i, k - 1>>]
<1>1. PICK n \in Nat \ {0} : n = WordsOf(a.size)
  BY SomeWords
<1>2. PICK m \in Nat : m = Len(s)
  OBVIOUS
<1>3. PICK p \in {0, 1} : p = Len(pad) /\ pad \in Seq(Nat \X Nat) /\ (p = 1 => pad[1] = Zero)
                       /\ (a.align >= 16 => (m + p) % 2 = 0)
  <2>1. CASE a.align >= 16 /\ Len(s) % 2 = 1
    <3>1. pad = <<Zero>>
      BY <2>1
    <3>2. Zero \in Nat \X Nat
      BY DEF Zero
    <3>3. (m + 1) % 2 = 0
      BY <1>2, <2>1, EvenAfterOdd
    <3> HIDE DEF pad
    <3>4. 1 = Len(pad) /\ pad \in Seq(Nat \X Nat) /\ pad[1] = Zero
      BY <3>1, <3>2
    <3> QED
      BY <3>3, <3>4
  <2>2. CASE ~(a.align >= 16 /\ Len(s) % 2 = 1)
    <3>1. pad = << >>
      BY <2>2
    <3>2. a.align >= 16 => (m + 0) % 2 = 0
      BY <1>2, <2>2
    <3> HIDE DEF pad
    <3>3. 0 = Len(pad) /\ pad \in Seq(Nat \X Nat)
      BY <3>1
    <3> QED
      BY <3>2, <3>3
  <2> QED
    BY <2>1, <2>2
<1>4. parts \in Seq(Nat \X Nat) /\ Len(parts) = n /\ \A k \in 1..n : parts[k] = <<i, k - 1>>
  <2>1. parts = [k \in 1..n |-> <<i, k - 1>>]
    BY <1>1
  <2>2. \A k \in 1..n : k - 1 \in Nat
    OBVIOUS
  <2> HIDE DEF parts
  <2>3. parts \in [1..n -> Nat \X Nat]
    BY <2>1, <2>2
  <2>4. parts \in Seq(Nat \X Nat)
    BY <2>3, SeqDef
  <2>5. Len(parts) = n
    BY <2>1, <2>4, LenProperties
  <2> QED
    BY <2>1, <2>4, <2>5
<1> HIDE DEF pad, parts
<1>5. t = (s \o pad) \o parts
  BY DEF appendComposite, pad, parts
<1>6. /\ s \o pad \in Seq(Nat \X Nat) /\ Len(s \o pad) = m + p
      /\ \A k \in 1..m : (s \o pad)[k] = s[k]
      /\ p = 1 => (s \o pad)[m + 1] = Zero
  BY <1>2, <1>3
<1> DEFINE head == s \o pad
<1> HIDE DEF head, t
<1>7. /\ t \in Seq(Nat \X Nat) /\ Len(t) = (m + p) + n
      /\ \A k \in 1..(m + p) : t[k] = head[k]
      /\ \A k \in 1..n : t[(m + p) + k] = parts[k]
  <2>1. t = head \o parts /\ head \in Seq(Nat \X Nat) /\ Len(head) = m + p
    BY <1>5, <1>6 DEF head
  <2>2. /\ t \in Seq(Nat \X Nat) /\ Len(t) = Len(head) + Len(parts)
        /\ \A k \in 1..Len(head) : t[k] = head[k]
        /\ \A k \in 1..Len(parts) : t[Len(head) + k] = parts[k]
    <3>1. Len(head) \in Nat /\ Len(parts) \in Nat
      BY <1>4, <2>1
    <3>2. \A k \in 1..(Len(head) + Len(parts)) : t[k] = IF k <= Len(head) THEN head[k] ELSE parts[k - Len(head)]
      BY <1>4, <2>1, ConcatProperties
    <3>3. /\ \A k \in 1..Len(head) : k \in 1..(Len(head) + Len(parts)) /\ k <= Len(head)
          /\ \A k \in 1..Len(parts) : /\ Len(head) + k \in 1..(Len(head) + Len(parts))
                                      /\ ~(Len(head) + k <= Len(head)) /\ (Len(head) + k) - Len(head) = k
      BY <3>1
    <3>4. t \in Seq(Nat \X Nat) /\ Len(t) = Len(head) + Len(parts)
      BY <1>4, <2>1, ConcatProperties
    <3> QED
      BY <3>2, <3>3, <3>4
  <2> QED
    BY <1>4, <2>1, <2>2
<1> DEFINE lo == m + p + 1
<1>8. lo \in Nat /\ lo > m /\ (a.align >= 16 => (lo - 1) % 2 = 0)
  BY <1>3
<1>9. DOMAIN s = 1..m /\ DOMAIN t = 1..(m + p + n)
  BY <1>2, <1>7
<1>10. \A k \in 0..n-1 : t[lo + k] = <<i, k>>
  <2> TAKE k \in 0..n-1
  <2>1. k + 1 \in 1..n /\ lo + k = (m + p) + (k + 1) /\ (k + 1) - 1 = k
    OBVIOUS
  <2> HIDE DEF lo
  <2>2. t[lo + k] = parts[k + 1]
    BY <1>7, <2>1
  <2>3. parts[k + 1] = <<i, k>>
    BY <1>4, <2>1
  <2> QED
    BY <2>2, <2>3
<1>11. \A r \in 1..(m + p + n) : r \notin lo..(lo + n - 1) => t[r] = IF r \in 1..m THEN s[r] ELSE Zero
  <2> TAKE r \in 1..(m + p + n)
  <2>1. r \notin lo..(lo + n - 1) => r \in 1..(m + p) /\ (r \notin 1..m => p = 1 /\ r = m + 1)
    OBVIOUS
  <2> QED
    BY <1>6, <1>7, <2>1 DEF head
<1>12. Grown(s, t, i, lo, n)
  <2>1. lo..(lo + n - 1) \subseteq 1..(m + p + n) /\ 1..m \subseteq 1..(m + p + n)
        /\ \A r \in lo..(lo + n - 1) : r \notin 1..m
    OBVIOUS
  <2> QED
    BY <1>9, <1>10, <1>11, <2>1 DEF Grown
<1> HIDE DEF lo
<1> QED
  BY <1>1, <1>2, <1>7, <1>8, <1>12 DEF t

-----------------------------------------------------------------------------
(* planARM64 *)

\* What an Arg can be.
LEMMA ShapeFacts ==
  ASSUME NEW a \in Shapes
  PROVE  /\ a.kind \in {"word", "float", "struct"} /\ (a.kind # "struct" => a.align = 8)
         /\ a.size \in Nat \ {0} /\ a.align \in Nat /\ a.hfa \in 0..4 /\ a.elem \in {4, 8}
         /\ RegParts(a) \in Nat \ {0} /\ StackParts(a) \in Nat \ {0}
<1>1. /\ a.kind \in {"word", "float", "struct"} /\ (a.kind # "struct" => a.align = 8)
      /\ a.size \in Nat \ {0} /\ a.align \in Nat /\ a.hfa \in 0..4 /\ a.elem \in {4, 8}
  BY DEF Shapes, Structs, Word, Float64
<1>2. WordsOf(a.size) \in Nat \ {0}
  BY <1>1, SomeWords
<1>3. a.kind = "struct" /\ a.hfa > 0 => a.hfa \in Nat \ {0}
  BY <1>1
<1>4. RegParts(a) \in Nat \ {0}
  BY <1>1, <1>2, <1>3 DEF RegParts
<1>5. StackParts(a) \in Nat \ {0}
  BY <1>2 DEF StackParts
<1> QED
  BY <1>1, <1>4, <1>5

\* What the frame has to keep for the arguments placed on arm64: all but the type
\* invariant.
Placement == ARM64Inv /\ PlacedWhole /\ NoBackfill

\* PlacedWhole of one argument on arm64.
InOnePiece(k) ==
  LET a == args[k] IN
  /\ In(Others(a), k) = {}
  /\ \/ Holds(Registers(a), k, RegParts(a)) /\ In(stack, k) = {}
     \/ Holds(stack, k, StackParts(a)) /\ In(Registers(a), k) = {}

\* The next argument is one more, and the others stay.
LEMMA NextArgFacts ==
  ASSUME TypeOK, NEW a \in family.args, NextArg(goarch, a)
  PROVE  /\ Len(args) \in Nat /\ Len(args') = Len(args) + 1
         /\ args' \in Seq(family.args) /\ Len(args') <= family.maxArgs /\ Len(args') <= maxCallWords
         /\ \A k \in 1..Len(args) : args'[k] = args[k] /\ args[k] \in Shapes /\ k \in Nat \ {0} /\ k # Len(args')
         /\ args'[Len(args')] = a /\ a \in Shapes
         /\ \A k \in 1..Len(args') : k \in 1..Len(args) \/ k = Len(args')
<1>1. args \in Seq(family.args) /\ args' = Append(args, a) /\ family.args \subseteq Shapes /\ family.maxArgs \in Nat
  BY PlanAssumption DEF TypeOK, NextArg
<1>2. Len(args) \in Nat /\ Len(args') = Len(args) + 1 /\ args' \in Seq(family.args)
      /\ \A k \in 1..Len(args) : args'[k] = args[k] /\ args[k] \in family.args
      /\ args'[Len(args) + 1] = a
  BY <1>1
<1>3. Len(args) < maxCallWords /\ Len(args) < family.maxArgs
  BY DEF NextArg
<1>4. Len(args') <= family.maxArgs /\ Len(args') <= maxCallWords
  BY <1>1, <1>2, <1>3 DEF maxCallWords
<1> QED
  BY <1>1, <1>2, <1>4

\* From f to g everything but argument i stays where it is.
Kept(f, g, i) ==
  /\ \A j \in Nat \ {0} : j # i => In(g, j) = In(f, j) /\ \A r \in In(f, j) : g[r] = f[r]
  /\ \A j \in Nat \ {0}, m \in Nat \ {0} : j # i /\ Holds(f, j, m) => Holds(g, j, m)

\* g has the parts of i behind those of every other argument.
Behind(f, g, i) == \A j \in 1..i-1 : \A s \in In(f, j), t \in In(g, i) : s < t

\* An argument placed in one piece, in the place that is its turn, behind what is
\* there.
LEMMA PlacementKeeps ==
  ASSUME TypeOK, Placement, goarch = "arm64", NEW a \in family.args, NextArg("arm64", a),
         NEW i, i = Len(args) + 1,
         Kept(ints, ints', i), Kept(floats, floats', i), Kept(stack, stack', i),
         Behind(ints, ints', i), Behind(floats, floats', i), Behind(stack, stack', i),
         In(IF IsFloating(a) THEN ints' ELSE floats', i) = {},
         LET file == IF IsFloating(a) THEN floats' ELSE ints' IN
         \/ Holds(file, i, RegParts(a)) /\ In(stack', i) = {} /\ NextReg(a) # NRegs
         \/ Holds(stack', i, StackParts(a)) /\ In(file, i) = {} /\ NextReg(a)' = NRegs,
         a.align >= 16 /\ a.size <= 16 =>
           /\ \A r \in In(ints', i) : ints'[r][2] = 0 => r % 2 = 0
           /\ \A s \in In(stack', i) : stack'[s][2] = 0 => (s - 1) % 2 = 0,
         Untouched(ints, ngrn)', Untouched(floats, nsrn)',
         ngrn = NRegs => ngrn' = NRegs, nsrn = NRegs => nsrn' = NRegs,
         \A file \in {ints', floats', stack'} : DOMAIN file \subseteq Nat /\ \A r \in DOMAIN file : file[r][1] <= i
  PROVE  Placement'
<1>1. /\ UNCHANGED <<family, goarch, ret>> /\ goarch' = "arm64"
      /\ Len(args) \in Nat /\ i = Len(args') /\ i \in Nat \ {0} /\ i \in 1..i
      /\ \A k \in 1..Len(args) : args'[k] = args[k] /\ k \in Nat \ {0} /\ k # i /\ k < i /\ k \in 1..i-1
      /\ args'[i] = a /\ a \in Shapes /\ \A k \in 1..i : k \in 1..Len(args) \/ k = i
  BY NextArgFacts DEF NextArg, site
<1>2. ASSUME NEW k \in 1..Len(args)
      PROVE  /\ In(ints', k) = In(ints, k) /\ \A r \in In(ints, k) : ints'[r] = ints[r]
             /\ In(floats', k) = In(floats, k) /\ \A r \in In(floats, k) : floats'[r] = floats[r]
             /\ In(stack', k) = In(stack, k) /\ \A r \in In(stack, k) : stack'[r] = stack[r]
  BY <1>1 DEF Kept
<1>3. RegParts(a) \in Nat \ {0} /\ StackParts(a) \in Nat \ {0}
      /\ \A k \in 1..Len(args) : RegParts(args[k]) \in Nat \ {0} /\ StackParts(args[k]) \in Nat \ {0}
  BY NextArgFacts, ShapeFacts
<1>4. Holds(stack', i, StackParts(a)) => In(stack', i) # {}
  <2>1. SUFFICES ASSUME Holds(stack', i, StackParts(a)) PROVE In(stack', i) # {}
    OBVIOUS
  <2>2. PICK n \in Nat \ {0} : n = StackParts(a)
    BY <1>3
  <2>3. PICK lo \in DOMAIN stack' : In(stack', i) = lo..(lo + n - 1)
    BY <2>1, <2>2 DEF Holds
  <2>4. lo \in Nat
    OBVIOUS
  <2>5. lo \in lo..(lo + n - 1)
    BY <2>4
  <2> QED
    BY <2>3, <2>5
<1>5. NextReg(a) = NRegs => In(stack', i) # {}
  BY <1>4
<1>6. ARM64Inv'
  <2>1. ASSUME NEW k \in 1..i, In(stack', k) # {} PROVE NextReg(args[k])' = NRegs
    <3>1. CASE k = i
      BY <1>1, <2>1, <3>1
    <3>2. CASE k \in 1..Len(args)
      <4>1. NextReg(args[k]) = NRegs
        BY <1>2, <2>1, <3>2 DEF Placement, ARM64Inv
      <4> QED
        BY <1>1, <3>2, <4>1 DEF NextReg
    <3> QED
      BY <1>1, <3>1, <3>2
  <2>2. \A file \in {ints', floats', stack'} : \A r \in DOMAIN file : file[r][1] <= i
    OBVIOUS
  <2> QED
    BY <1>1, <2>1, <2>2 DEF ARM64Inv
<1>7. Aligned16'
  <2> SUFFICES ASSUME NEW k \in 1..i, args'[k].align >= 16, args'[k].size <= 16
               PROVE  /\ \A r \in In(ints', k) : ints'[r][2] = 0 => r % 2 = 0
                      /\ \A s \in In(stack', k) : stack'[s][2] = 0 => (s - 1) % 2 = 0
    BY <1>1 DEF Aligned16
  <2>1. CASE k = i
    BY <1>1, <2>1
  <2>2. CASE k \in 1..Len(args)
    <3>1. /\ \A r \in In(ints, k) : ints[r][2] = 0 => r % 2 = 0
          /\ \A s \in In(stack, k) : stack[s][2] = 0 => (s - 1) % 2 = 0
      <4>1. args[k].align >= 16 /\ args[k].size <= 16
        BY <1>1, <2>2
      <4> QED
        BY <2>2, <4>1 DEF Placement, PlacedWhole, Aligned16
    <3> QED
      BY <1>2, <2>2, <3>1
  <2> QED
    BY <1>1, <2>1, <2>2
<1>8. PlacedWhole'
  <2> SUFFICES ASSUME NEW k \in 1..i
               PROVE  InOnePiece(k)'
    BY <1>1, <1>7 DEF PlacedWhole, InOnePiece
  <2>1. CASE k = i
    BY <1>1, <2>1 DEF InOnePiece, Registers, Others
  <2>2. CASE k \in 1..Len(args)
    <3>1. InOnePiece(k)
      BY <2>2 DEF Placement, PlacedWhole, InOnePiece
    <3>2. args'[k] = args[k]
      BY <1>1, <2>2
    <3>3. PICK b : b = args[k]
      OBVIOUS
    <3>4. PICK m \in Nat \ {0}, n \in Nat \ {0} : m = RegParts(b) /\ n = StackParts(b)
      BY <1>3, <2>2, <3>3
    <3> DEFINE Moves(f, g) == In(g, k) = In(f, k) /\ \A x \in Nat \ {0} : Holds(f, k, x) => Holds(g, k, x)
    <3>7. Moves(ints, ints') /\ Moves(floats, floats') /\ Moves(stack, stack')
      <4>1. k \in Nat \ {0} /\ k # i
        BY <1>1, <2>2
      <4>2. ASSUME NEW f, NEW g, Kept(f, g, i) PROVE Moves(f, g)
        BY <4>1, <4>2 DEF Kept
      <4> HIDE DEF Moves
      <4> QED
        BY <4>2
    <3>8. ASSUME NEW f, NEW g, Moves(f, g)
          PROVE  /\ In(f, k) = {} => In(g, k) = {}
                 /\ Holds(f, k, m) => Holds(g, k, m)
                 /\ Holds(f, k, n) => Holds(g, k, n)
      BY <3>8
    <3> HIDE DEF Moves
    <3>5. CASE IsFloating(b)
      <4>1. In(ints, k) = {} /\ \/ Holds(floats, k, RegParts(b)) /\ In(stack, k) = {}
                                \/ Holds(stack, k, StackParts(b)) /\ In(floats, k) = {}
        BY <3>1, <3>3, <3>5 DEF InOnePiece, Registers, Others
      <4>2. In(ints', k) = {} /\ \/ Holds(floats', k, RegParts(b)) /\ In(stack', k) = {}
                                 \/ Holds(stack', k, StackParts(b)) /\ In(floats', k) = {}
        BY <3>4, <3>7, <3>8, <4>1
      <4> QED
        BY <3>2, <3>3, <3>5, <4>2 DEF InOnePiece, Registers, Others
    <3>6. CASE ~IsFloating(b)
      <4>1. In(floats, k) = {} /\ \/ Holds(ints, k, RegParts(b)) /\ In(stack, k) = {}
                                  \/ Holds(stack, k, StackParts(b)) /\ In(ints, k) = {}
        BY <3>1, <3>3, <3>6 DEF InOnePiece, Registers, Others
      <4>2. In(floats', k) = {} /\ \/ Holds(ints', k, RegParts(b)) /\ In(stack', k) = {}
                                   \/ Holds(stack', k, StackParts(b)) /\ In(ints', k) = {}
        BY <3>4, <3>7, <3>8, <4>1
      <4> QED
        BY <3>2, <3>3, <3>6, <4>2 DEF InOnePiece, Registers, Others
    <3> QED
      BY <3>5, <3>6
  <2> QED
    BY <1>1, <2>1, <2>2
<1>9. NoBackfill'
  <2> SUFFICES ASSUME NEW h \in 1..i, NEW j \in 1..i, h < j
               PROVE  /\ IsFloating(args'[h]) = IsFloating(args'[j]) /\ In(stack', h) # {} => In(stack', j) # {}
                      /\ \A s \in In(stack', h), t \in In(stack', j) : s < t
                      /\ \A f \in {ints', floats'} : \A s \in In(f, h), t \in In(f, j) : s < t
    BY <1>1 DEF NoBackfill
  <2>1. h \in 1..Len(args) /\ h \in 1..i-1
    BY <1>1
  <2>2. CASE j \in 1..Len(args)
    <3>1. /\ IsFloating(args[h]) = IsFloating(args[j]) /\ In(stack, h) # {} => In(stack, j) # {}
          /\ \A s \in In(stack, h), t \in In(stack, j) : s < t
          /\ \A f \in {ints, floats} : \A s \in In(f, h), t \in In(f, j) : s < t
      BY <2>1, <2>2 DEF Placement, NoBackfill
    <3>2. args'[h] = args[h] /\ args'[j] = args[j]
      BY <1>1, <2>1, <2>2
    <3> QED
      BY <1>2, <2>1, <2>2, <3>1, <3>2
  <2>3. CASE j = i
    <3>1. /\ \A s \in In(stack', h), t \in In(stack', i) : s < t
          /\ \A s \in In(ints', h), t \in In(ints', i) : s < t
          /\ \A s \in In(floats', h), t \in In(floats', i) : s < t
      BY <1>2, <2>1 DEF Behind
    <3>2. ASSUME IsFloating(args'[h]) = IsFloating(args'[i]), In(stack', h) # {} PROVE In(stack', i) # {}
      <4>1. NextReg(args[h]) = NRegs
        BY <1>2, <2>1, <3>2 DEF Placement, ARM64Inv
      <4>2. NextReg(a) = NextReg(args[h])
        BY <1>1, <2>1, <3>2 DEF NextReg
      <4> QED
        BY <1>5, <4>1, <4>2
    <3> QED
      BY <2>3, <3>1, <3>2
  <2> QED
    BY <1>1, <2>2, <2>3
<1> QED
  BY <1>6, <1>8, <1>9 DEF Placement

\* The first part of i, if g has it, is at lo.
StartsAt(g, i, lo) == \A r \in In(g, i) : g[r][2] = 0 => r = lo

\* A place that grew by argument i keeps the rest, with i behind it.
LEMMA GrownInPlace ==
  ASSUME NEW f, NEW g, NEW i \in Nat \ {0}, NEW lo \in Nat, NEW n \in Nat \ {0}, Grown(f, g, i, lo, n),
         DOMAIN f \subseteq Nat, \A r \in DOMAIN f : f[r] \in Nat \X Nat /\ f[r][1] < i,
         NEW next \in Nat, next <= lo, Untouched(f, next)
  PROVE  /\ Kept(f, g, i) /\ Behind(f, g, i) /\ Holds(g, i, n)
         /\ \A r \in DOMAIN g : g[r] \in Nat \X Nat /\ g[r][1] <= i
         /\ StartsAt(g, i, lo)
<1>1. /\ Holds(g, i, n) /\ In(g, i) = lo..(lo + n - 1)
      /\ \A j \in Nat \ {0} : j # i => In(g, j) = In(f, j) /\ \A r \in In(f, j) : g[r] = f[r]
      /\ \A j \in Nat \ {0}, m \in Nat \ {0} : j # i /\ Holds(f, j, m) => Holds(g, j, m)
      /\ \A r \in DOMAIN g : g[r] \in Nat \X Nat /\ g[r][1] <= i
  BY GrownHolds
<1>2. Kept(f, g, i)
  BY <1>1 DEF Kept
<1>3. ASSUME NEW j \in 1..i-1, NEW s \in In(f, j), NEW t \in In(g, i) PROVE s < t
  <2>1. s \in DOMAIN f /\ f[s] # Zero /\ s \in Nat
    BY DEF In, Zero
  <2>2. s < next
    BY <2>1 DEF Untouched
  <2>3. t >= lo /\ t \in Nat
    BY <1>1
  <2> QED
    BY <2>1, <2>2, <2>3
<1>4. ASSUME NEW r \in In(g, i), g[r][2] = 0 PROVE r = lo
  <2>1. r \in lo..(lo + n - 1)
    BY <1>1
  <2>2. r - lo \in 0..n-1 /\ lo + (r - lo) = r
    BY <2>1
  <2>3. g[r] = <<i, r - lo>>
    BY <2>2 DEF Grown
  <2> QED
    BY <1>4, <2>2, <2>3
<1> QED
  BY <1>1, <1>2, <1>3, <1>4 DEF Behind, StartsAt

\* A place argument i did not go to.
LEMMA NotThere ==
  ASSUME NEW f, NEW i, \A r \in DOMAIN f : f[r][1] # i
  PROVE  Kept(f, f, i) /\ Behind(f, f, i) /\ In(f, i) = {}
BY Zenon DEF Kept, Behind, In

\* What the places are before argument i.
LEMMA PlaceFacts ==
  ASSUME TypeOK, Placement, goarch = "arm64", NEW a \in family.args, NextArg("arm64", a), NEW i, i = Len(args) + 1
  PROVE  /\ i \in Nat \ {0} /\ Len(args) \in Nat
         /\ DOMAIN ints = 0..NRegs-1 /\ DOMAIN floats = 0..NRegs-1 /\ stack \in Seq(Nat \X Nat)
         /\ \A f \in {ints, floats, stack} :
              DOMAIN f \subseteq Nat /\ \A r \in DOMAIN f : f[r] \in Nat \X Nat /\ f[r][1] < i /\ f[r][1] # i
         /\ Untouched(ints, ngrn) /\ Untouched(floats, nsrn) /\ ngrn \in 0..NRegs /\ nsrn \in 0..NRegs
<1>1. Len(args) \in Nat /\ i \in Nat \ {0}
  BY NextArgFacts
<1>2. /\ DOMAIN ints = 0..NRegs-1 /\ DOMAIN floats = 0..NRegs-1 /\ stack \in Seq(Nat \X Nat)
      /\ ngrn \in 0..NRegs /\ nsrn \in 0..NRegs
      /\ \A f \in {ints, floats} : \A r \in DOMAIN f : f[r] \in Nat \X Nat
  BY DEF TypeOK
<1>3. /\ Untouched(ints, ngrn) /\ Untouched(floats, nsrn)
      /\ \A f \in {ints, floats, stack} : \A r \in DOMAIN f : f[r][1] <= Len(args)
  BY DEF Placement, ARM64Inv
<1>4. \A r \in DOMAIN stack : r \in Nat /\ stack[r] \in Nat \X Nat
  BY <1>2
<1>5. \A r \in 0..NRegs-1 : r \in Nat
  OBVIOUS
<1>6. ASSUME NEW f \in {ints, floats, stack}, NEW r \in DOMAIN f
      PROVE  r \in Nat /\ f[r] \in Nat \X Nat /\ f[r][1] < i /\ f[r][1] # i
  <2>1. r \in Nat /\ f[r] \in Nat \X Nat
    BY <1>2, <1>4, <1>5
  <2>2. f[r][1] <= Len(args) /\ f[r][1] \in Nat
    BY <1>3, <2>1
  <2> QED
    BY <1>1, <2>1, <2>2
<1> QED
  BY <1>1, <1>2, <1>3, <1>6

\* An argument placed in X registers.
LEMMA IntRegistersKeep ==
  ASSUME TypeOK, Placement, goarch = "arm64", NEW a \in family.args, NextArg("arm64", a), ~IsFloating(a),
         NEW i, i = Len(args) + 1, NEW lo \in Nat, ngrn <= lo, ngrn' = lo + RegParts(a), ngrn' <= NRegs,
         Grown(ints, ints', i, lo, RegParts(a)), DOMAIN ints' = 0..NRegs-1, Untouched(ints', ngrn'),
         UNCHANGED <<floats, stack, nsrn>>,
         a.align >= 16 /\ a.size <= 16 => lo % 2 = 0
  PROVE  Placement' /\ ngrn' \in 0..NRegs /\ \A r \in DOMAIN ints' : ints'[r] \in Nat \X Nat
<1>1. /\ i \in Nat \ {0} /\ ngrn \in 0..NRegs
      /\ DOMAIN ints = 0..NRegs-1 /\ DOMAIN floats = 0..NRegs-1 /\ stack \in Seq(Nat \X Nat)
      /\ \A f \in {ints, floats, stack} :
           DOMAIN f \subseteq Nat /\ \A r \in DOMAIN f : f[r] \in Nat \X Nat /\ f[r][1] < i /\ f[r][1] # i
      /\ Untouched(ints, ngrn) /\ Untouched(floats, nsrn)
  BY PlaceFacts
<1>2. PICK n \in Nat \ {0} : n = RegParts(a)
  BY NextArgFacts, ShapeFacts
<1>3. ngrn \in Nat /\ ngrn' \in 0..NRegs /\ ngrn # NRegs
  <2>1. ngrn' = lo + n /\ ngrn <= lo /\ ngrn' <= 8
    BY <1>2 DEF NRegs
  <2>2. ngrn \in 0..8
    BY <1>1 DEF NRegs
  <2> QED
    BY <2>1, <2>2 DEF NRegs
<1>4. /\ Kept(ints, ints', i) /\ Behind(ints, ints', i) /\ Holds(ints', i, n)
      /\ \A r \in DOMAIN ints' : ints'[r] \in Nat \X Nat /\ ints'[r][1] <= i
      /\ StartsAt(ints', i, lo)
  <2>1. Grown(ints, ints', i, lo, n) /\ Untouched(ints, ngrn)
    BY <1>1, <1>2
  <2>2. DOMAIN ints \subseteq Nat /\ \A r \in DOMAIN ints : ints[r] \in Nat \X Nat /\ ints[r][1] < i
    BY <1>1
  <2> QED
    BY <1>1, <1>3, <2>1, <2>2, GrownInPlace
<1>5. /\ Kept(floats, floats', i) /\ Behind(floats, floats', i) /\ In(floats', i) = {}
      /\ Kept(stack, stack', i) /\ Behind(stack, stack', i) /\ In(stack', i) = {}
  BY <1>1, NotThere
<1>6. \A file \in {ints', floats', stack'} : DOMAIN file \subseteq Nat /\ \A r \in DOMAIN file : file[r][1] <= i
  <2>1. \A f \in {floats, stack} : DOMAIN f \subseteq Nat /\ \A r \in DOMAIN f : f[r][1] <= i
    <3> SUFFICES ASSUME NEW f \in {floats, stack}, NEW r \in DOMAIN f PROVE r \in Nat /\ f[r][1] <= i
      OBVIOUS
    <3>1. r \in Nat /\ f[r][1] \in Nat /\ f[r][1] < i
      BY <1>1
    <3> QED
      BY <1>1, <3>1
  <2>2. DOMAIN ints' \subseteq Nat
    OBVIOUS
  <2> QED
    BY <1>4, <2>1, <2>2
<1>7. Untouched(ints, ngrn)' /\ Untouched(floats, nsrn)'
  BY <1>1 DEF Untouched
<1>8. a.align >= 16 /\ a.size <= 16 =>
        /\ \A r \in In(ints', i) : ints'[r][2] = 0 => r % 2 = 0
        /\ \A s \in In(stack', i) : stack'[s][2] = 0 => (s - 1) % 2 = 0
  BY <1>4, <1>5 DEF StartsAt
<1>9. NextReg(a) # NRegs
  BY <1>3 DEF NextReg
<1> QED
  BY <1>2, <1>3, <1>4, <1>5, <1>6, <1>7, <1>8, <1>9, PlacementKeeps

\* An argument placed in V registers.
LEMMA FloatRegistersKeep ==
  ASSUME TypeOK, Placement, goarch = "arm64", NEW a \in family.args, NextArg("arm64", a), IsFloating(a),
         NEW i, i = Len(args) + 1, NEW lo \in Nat, nsrn <= lo, nsrn' = lo + RegParts(a), nsrn' <= NRegs,
         Grown(floats, floats', i, lo, RegParts(a)), DOMAIN floats' = 0..NRegs-1, Untouched(floats', nsrn'),
         UNCHANGED <<ints, stack, ngrn>>
  PROVE  Placement' /\ nsrn' \in 0..NRegs /\ \A r \in DOMAIN floats' : floats'[r] \in Nat \X Nat
<1>1. /\ i \in Nat \ {0} /\ nsrn \in 0..NRegs
      /\ DOMAIN ints = 0..NRegs-1 /\ DOMAIN floats = 0..NRegs-1 /\ stack \in Seq(Nat \X Nat)
      /\ \A f \in {ints, floats, stack} :
           DOMAIN f \subseteq Nat /\ \A r \in DOMAIN f : f[r] \in Nat \X Nat /\ f[r][1] < i /\ f[r][1] # i
      /\ Untouched(ints, ngrn) /\ Untouched(floats, nsrn)
  BY PlaceFacts
<1>2. PICK n \in Nat \ {0} : n = RegParts(a)
  BY NextArgFacts, ShapeFacts
<1>3. nsrn \in Nat /\ nsrn' \in 0..NRegs /\ nsrn # NRegs
  <2>1. nsrn' = lo + n /\ nsrn <= lo /\ nsrn' <= 8
    BY <1>2 DEF NRegs
  <2>2. nsrn \in 0..8
    BY <1>1 DEF NRegs
  <2> QED
    BY <2>1, <2>2 DEF NRegs
<1>4. /\ Kept(floats, floats', i) /\ Behind(floats, floats', i) /\ Holds(floats', i, n)
      /\ \A r \in DOMAIN floats' : floats'[r] \in Nat \X Nat /\ floats'[r][1] <= i
  BY <1>1, <1>2, <1>3, GrownInPlace
<1>5. /\ Kept(ints, ints', i) /\ Behind(ints, ints', i) /\ In(ints', i) = {}
      /\ Kept(stack, stack', i) /\ Behind(stack, stack', i) /\ In(stack', i) = {}
  BY <1>1, NotThere
<1>6. \A file \in {ints', floats', stack'} : DOMAIN file \subseteq Nat /\ \A r \in DOMAIN file : file[r][1] <= i
  <2>1. \A f \in {ints, stack} : DOMAIN f \subseteq Nat /\ \A r \in DOMAIN f : f[r][1] <= i
    <3> SUFFICES ASSUME NEW f \in {ints, stack}, NEW r \in DOMAIN f PROVE r \in Nat /\ f[r][1] <= i
      OBVIOUS
    <3>1. r \in Nat /\ f[r][1] \in Nat /\ f[r][1] < i
      BY <1>1
    <3> QED
      BY <1>1, <3>1
  <2>2. DOMAIN floats' \subseteq Nat
    OBVIOUS
  <2> QED
    BY <1>4, <2>1, <2>2
<1>7. Untouched(ints, ngrn)' /\ Untouched(floats, nsrn)'
  BY <1>1 DEF Untouched
<1>8. NextReg(a) # NRegs
  BY <1>3 DEF NextReg
<1> QED
  BY <1>2, <1>3, <1>4, <1>5, <1>6, <1>7, <1>8, PlacementKeeps

\* An argument placed on the stack, for which no register is left from here on.
LEMMA StackKeeps ==
  ASSUME TypeOK, Placement, goarch = "arm64", NEW a \in family.args, NextArg("arm64", a),
         NEW i, i = Len(args) + 1, NEW lo \in Nat, lo > Len(stack),
         Grown(stack, stack', i, lo, StackParts(a)), stack' \in Seq(Nat \X Nat),
         UNCHANGED <<ints, floats>>,
         IF IsFloating(a) THEN nsrn' = NRegs /\ ngrn' = ngrn ELSE ngrn' = NRegs /\ nsrn' = nsrn,
         a.align >= 16 /\ a.size <= 16 => (lo - 1) % 2 = 0
  PROVE  Placement' /\ ngrn' \in 0..NRegs /\ nsrn' \in 0..NRegs
<1>1. /\ i \in Nat \ {0} /\ ngrn \in 0..NRegs /\ nsrn \in 0..NRegs
      /\ DOMAIN ints = 0..NRegs-1 /\ DOMAIN floats = 0..NRegs-1 /\ stack \in Seq(Nat \X Nat)
      /\ \A f \in {ints, floats, stack} :
           DOMAIN f \subseteq Nat /\ \A r \in DOMAIN f : f[r] \in Nat \X Nat /\ f[r][1] < i /\ f[r][1] # i
      /\ Untouched(ints, ngrn) /\ Untouched(floats, nsrn)
  BY PlaceFacts
<1>2. PICK n \in Nat \ {0} : n = StackParts(a)
  BY NextArgFacts, ShapeFacts
<1>3. /\ Kept(stack, stack', i) /\ Behind(stack, stack', i) /\ Holds(stack', i, n)
      /\ \A r \in DOMAIN stack' : stack'[r] \in Nat \X Nat /\ stack'[r][1] <= i
      /\ StartsAt(stack', i, lo)
  <2>1. PICK next \in Nat : next = Len(stack) + 1
    BY <1>1
  <2>2. Untouched(stack, next) /\ next <= lo
    BY <1>1, <2>1 DEF Untouched
  <2>3. Grown(stack, stack', i, lo, n)
    BY <1>2
  <2>4. DOMAIN stack \subseteq Nat /\ \A r \in DOMAIN stack : stack[r] \in Nat \X Nat /\ stack[r][1] < i
    BY <1>1
  <2> QED
    BY <1>1, <2>2, <2>3, <2>4, GrownInPlace
<1>4. /\ Kept(ints, ints', i) /\ Behind(ints, ints', i) /\ In(ints', i) = {}
      /\ Kept(floats, floats', i) /\ Behind(floats, floats', i) /\ In(floats', i) = {}
  BY <1>1, NotThere
<1>5. \A file \in {ints', floats', stack'} : DOMAIN file \subseteq Nat /\ \A r \in DOMAIN file : file[r][1] <= i
  <2>1. \A f \in {ints, floats} : DOMAIN f \subseteq Nat /\ \A r \in DOMAIN f : f[r][1] <= i
    <3> SUFFICES ASSUME NEW f \in {ints, floats}, NEW r \in DOMAIN f PROVE r \in Nat /\ f[r][1] <= i
      OBVIOUS
    <3>1. r \in Nat /\ f[r][1] \in Nat /\ f[r][1] < i
      BY <1>1
    <3> QED
      BY <1>1, <3>1
  <2>2. DOMAIN stack' \subseteq Nat
    OBVIOUS
  <2> QED
    BY <1>3, <2>1, <2>2
<1>6. ngrn' \in 0..NRegs /\ nsrn' \in 0..NRegs /\ (ngrn' = ngrn \/ ngrn' = NRegs) /\ (nsrn' = nsrn \/ nsrn' = NRegs)
  BY <1>1 DEF NRegs
<1>7. Untouched(ints, ngrn)' /\ Untouched(floats, nsrn)'
  <2>1. \A r \in 0..NRegs-1 : ~(r >= NRegs)
    BY DEF NRegs
  <2> QED
    BY <1>1, <1>6, <2>1 DEF Untouched
<1>8. a.align >= 16 /\ a.size <= 16 =>
        /\ \A r \in In(ints', i) : ints'[r][2] = 0 => r % 2 = 0
        /\ \A s \in In(stack', i) : stack'[s][2] = 0 => (s - 1) % 2 = 0
  BY <1>3, <1>4 DEF StartsAt
<1>9. NextReg(a)' = NRegs /\ (ngrn = NRegs => ngrn' = NRegs) /\ (nsrn = NRegs => nsrn' = NRegs)
  BY <1>6 DEF NextReg
<1> QED
  BY <1>2, <1>3, <1>4, <1>5, <1>6, <1>7, <1>8, <1>9, PlacementKeeps

\* A next argument leaves the frame well typed when the places it wrote are.
LEMMA NextArgTyped ==
  ASSUME TypeOK, NEW a \in family.args, NextArg(goarch, a), words' \in 0..(family.maxArgs + 1),
         ngrn' \in 0..NRegs, nsrn' \in 0..NRegs, stack' \in Seq(Nat \X Nat),
         \A file \in {ints', floats'} : DOMAIN file = 0..NRegs-1 /\ \A r \in 0..NRegs-1 : file[r] \in Nat \X Nat
  PROVE  TypeOK'
<1>1. args' \in Seq(family.args) /\ Len(args') <= family.maxArgs
  BY NextArgFacts
<1>2. UNCHANGED <<family, goarch, ret, x8, phase>>
  BY DEF NextArg, site
<1>3. family \in Families /\ goarch = family.goarch /\ ret \in family.rets /\ x8 \in {Zero, RetPtr}
      /\ phase \in {"plan", "call", "finish", "done", "panic"}
  BY DEF TypeOK
<1> QED
  BY <1>1, <1>2, <1>3 DEF TypeOK

\* Planning an integer keeps every token whole and in order.
LEMMA PutIntKeeps ==
  ASSUME TypeOK, Placement, NEW a \in family.args, PutInt(a)
  PROVE  TypeOK' /\ Placement'
<1>1. PICK i : i = Len(args) + 1
  OBVIOUS
<1>2. goarch = "arm64" /\ NextArg("arm64", a) /\ UNCHANGED <<words, nsrn, floats>>
      /\ (a.kind = "word" \/ (a.kind = "struct" /\ a.hfa = 0 /\ a.size > 16))
  BY DEF PutInt, NextArg
<1>3. /\ i \in Nat \ {0} /\ ngrn \in 0..NRegs /\ Untouched(ints, ngrn)
      /\ DOMAIN ints = 0..NRegs-1 /\ DOMAIN floats = 0..NRegs-1 /\ stack \in Seq(Nat \X Nat)
  BY <1>1, <1>2, PlaceFacts
<1>4. a \in Shapes /\ a.kind \in {"word", "float", "struct"} /\ (a.kind # "struct" => a.align = 8)
      /\ a.size \in Nat /\ a.hfa \in 0..4
  BY <1>2, NextArgFacts, ShapeFacts
<1>5. ~IsFloating(a) /\ RegParts(a) = 1 /\ StackParts(a) = 1 /\ ~(a.align >= 16 /\ a.size <= 16)
  <2>1. CASE a.kind = "word"
    <3>1. a.kind # "struct" /\ a.kind # "float" /\ a.align = 8
      BY <1>4, <2>1
    <3> QED
      BY <3>1 DEF IsFloating, RegParts, StackParts
  <2>2. CASE a.kind = "struct" /\ a.hfa = 0 /\ a.size > 16
    <3>1. a.kind = "struct" /\ a.kind # "float" /\ ~(a.hfa > 0) /\ a.size > 16 /\ ~(a.size <= 16)
      BY <1>4, <2>2
    <3> QED
      BY <3>1 DEF IsFloating, RegParts, StackParts
  <2> QED
    BY <1>2, <2>1, <2>2
<1>6. words \in 0..(family.maxArgs + 1) /\ nsrn \in 0..NRegs
      /\ \A f \in {ints, floats} : \A r \in 0..NRegs-1 : f[r] \in Nat \X Nat
  BY DEF TypeOK
<1>7. CASE ngrn < NRegs /\ ints' = [ints EXCEPT ![ngrn] = <<i, 0>>] /\ ngrn' = ngrn + 1 /\ UNCHANGED stack
  <2>1. ngrn \in Nat /\ ngrn' <= NRegs
    BY <1>3, <1>7 DEF NRegs
  <2>2. Grown(ints, ints', i, ngrn, 1) /\ DOMAIN ints' = 0..NRegs-1 /\ Untouched(ints', ngrn')
    BY <1>3, <1>7, <2>1, PutGrows
  <2>3. Placement' /\ ngrn' \in 0..NRegs /\ \A r \in DOMAIN ints' : ints'[r] \in Nat \X Nat
    <3>1. ngrn' = ngrn + RegParts(a) /\ Grown(ints, ints', i, ngrn, RegParts(a)) /\ UNCHANGED <<floats, stack, nsrn>>
      BY <1>2, <1>5, <1>7, <2>2
    <3> QED
      BY <1>1, <1>2, <1>5, <2>1, <2>2, <3>1, IntRegistersKeep
  <2> QED
    BY <1>2, <1>3, <1>6, <1>7, <2>2, <2>3, NextArgTyped
<1>8. CASE ngrn >= NRegs /\ stack' = Append(stack, <<i, 0>>) /\ UNCHANGED <<ints, ngrn>>
  <2>1. PICK lo \in Nat : lo = Len(stack) + 1 /\ lo > Len(stack)
    BY <1>3
  <2>2. Grown(stack, stack', i, lo, 1) /\ stack' \in Seq(Nat \X Nat)
    BY <1>3, <1>8, <2>1, AppendGrows
  <2>3. ngrn' = NRegs
    BY <1>3, <1>8 DEF NRegs
  <2>4. Placement' /\ ngrn' \in 0..NRegs
    BY <1>1, <1>2, <1>5, <1>8, <2>1, <2>2, <2>3, StackKeeps
  <2> QED
    BY <1>2, <1>3, <1>6, <1>8, <2>2, <2>4, NextArgTyped
<1> QED
  BY <1>1, <1>7, <1>8 DEF PutInt

\* So does planning a float,
LEMMA PutFloatKeeps ==
  ASSUME TypeOK, Placement, NEW a \in family.args, PutFloat(a)
  PROVE  TypeOK' /\ Placement'
<1>1. PICK i : i = Len(args) + 1
  OBVIOUS
<1>2. goarch = "arm64" /\ NextArg("arm64", a) /\ UNCHANGED <<words, ngrn, ints>> /\ a.kind = "float"
  BY DEF PutFloat, NextArg
<1>3. /\ i \in Nat \ {0} /\ nsrn \in 0..NRegs /\ Untouched(floats, nsrn)
      /\ DOMAIN ints = 0..NRegs-1 /\ DOMAIN floats = 0..NRegs-1 /\ stack \in Seq(Nat \X Nat)
  BY <1>1, <1>2, PlaceFacts
<1>4. a.align = 8
  <2>1. a.kind # "struct"
    BY <1>2
  <2> QED
    BY <1>2, <2>1, NextArgFacts, ShapeFacts
<1>5. IsFloating(a) /\ RegParts(a) = 1 /\ StackParts(a) = 1 /\ ~(a.align >= 16 /\ a.size <= 16)
  <2>1. a.kind # "struct" /\ a.align = 8
    BY <1>2, <1>4
  <2> QED
    BY <1>2, <2>1 DEF IsFloating, RegParts, StackParts
<1>6. words \in 0..(family.maxArgs + 1) /\ ngrn \in 0..NRegs
      /\ \A f \in {ints, floats} : \A r \in 0..NRegs-1 : f[r] \in Nat \X Nat
  BY DEF TypeOK
<1>7. CASE nsrn < NRegs /\ floats' = [floats EXCEPT ![nsrn] = <<i, 0>>] /\ nsrn' = nsrn + 1 /\ UNCHANGED stack
  <2>1. nsrn \in Nat /\ nsrn' <= NRegs
    BY <1>3, <1>7 DEF NRegs
  <2>2. Grown(floats, floats', i, nsrn, 1) /\ DOMAIN floats' = 0..NRegs-1 /\ Untouched(floats', nsrn')
    BY <1>3, <1>7, <2>1, PutGrows
  <2>3. Placement' /\ nsrn' \in 0..NRegs /\ \A r \in DOMAIN floats' : floats'[r] \in Nat \X Nat
    <3>1. nsrn' = nsrn + RegParts(a) /\ Grown(floats, floats', i, nsrn, RegParts(a)) /\ UNCHANGED <<ints, stack, ngrn>>
      BY <1>2, <1>5, <1>7, <2>2
    <3> QED
      BY <1>1, <1>2, <1>5, <2>1, <2>2, <3>1, FloatRegistersKeep
  <2> QED
    BY <1>2, <1>3, <1>6, <1>7, <2>2, <2>3, NextArgTyped
<1>8. CASE nsrn' = NRegs /\ stack' = Append(stack, <<i, 0>>) /\ UNCHANGED floats
  <2>1. PICK lo \in Nat : lo = Len(stack) + 1 /\ lo > Len(stack)
    BY <1>3
  <2>2. Grown(stack, stack', i, lo, 1) /\ stack' \in Seq(Nat \X Nat)
    BY <1>3, <1>8, <2>1, AppendGrows
  <2>3. Placement' /\ nsrn' \in 0..NRegs
    BY <1>1, <1>2, <1>5, <1>8, <2>1, <2>2, StackKeeps
  <2> QED
    BY <1>2, <1>3, <1>6, <1>8, <2>2, <2>3, NextArgTyped
<1> QED
  BY <1>1, <1>7, <1>8 DEF PutFloat

\* an aggregate of floats, in registers or all on the stack,
LEMMA PutHFAKeeps ==
  ASSUME TypeOK, Placement, NEW a \in family.args, PutHFA(a)
  PROVE  TypeOK' /\ Placement'
<1>1. PICK i : i = Len(args) + 1
  OBVIOUS
<1>2. goarch = "arm64" /\ NextArg("arm64", a) /\ UNCHANGED <<words, ngrn, ints>> /\ a.kind = "struct" /\ a.hfa > 0
  BY DEF PutHFA, NextArg
<1>3. /\ i \in Nat \ {0} /\ nsrn \in 0..NRegs /\ Untouched(floats, nsrn)
      /\ DOMAIN ints = 0..NRegs-1 /\ DOMAIN floats = 0..NRegs-1 /\ stack \in Seq(Nat \X Nat)
  BY <1>1, <1>2, PlaceFacts
<1>4. a.size \in Nat \ {0} /\ a.align \in Nat /\ a.hfa \in Nat \ {0}
  BY <1>2, NextArgFacts, ShapeFacts
<1>5. IsFloating(a) /\ RegParts(a) = a.hfa /\ StackParts(a) = WordsOf(a.size)
  BY <1>2 DEF IsFloating, RegParts, StackParts
<1>6. words \in 0..(family.maxArgs + 1) /\ ngrn \in 0..NRegs
      /\ \A f \in {ints, floats} : \A r \in 0..NRegs-1 : f[r] \in Nat \X Nat
  BY DEF TypeOK
<1>7. CASE nsrn + a.hfa <= NRegs /\ floats' = Fill(floats, nsrn, i, a.hfa) /\ nsrn' = nsrn + a.hfa /\ UNCHANGED stack
  <2>1. nsrn \in Nat /\ nsrn <= nsrn /\ nsrn' <= NRegs
    BY <1>3, <1>7
  <2>2. Grown(floats, floats', i, nsrn, a.hfa) /\ DOMAIN floats' = 0..NRegs-1 /\ Untouched(floats', nsrn')
    BY <1>3, <1>4, <1>7, <2>1, FillGrows
  <2>3. Placement' /\ nsrn' \in 0..NRegs /\ \A r \in DOMAIN floats' : floats'[r] \in Nat \X Nat
    <3>1. nsrn' = nsrn + RegParts(a) /\ Grown(floats, floats', i, nsrn, RegParts(a)) /\ UNCHANGED <<ints, stack, ngrn>>
      BY <1>2, <1>5, <1>7, <2>2
    <3> QED
      BY <1>1, <1>2, <1>5, <2>1, <2>2, <3>1, FloatRegistersKeep
  <2> QED
    BY <1>2, <1>3, <1>6, <1>7, <2>2, <2>3, NextArgTyped
<1>8. CASE nsrn' = NRegs /\ stack' = appendComposite(stack, i, a) /\ UNCHANGED floats
  <2>1. PICK lo \in Nat : /\ lo > Len(stack) /\ Grown(stack, stack', i, lo, StackParts(a))
                          /\ a.align >= 16 => (lo - 1) % 2 = 0
    BY <1>3, <1>4, <1>5, <1>8, CompositeGrows
  <2>2. stack' \in Seq(Nat \X Nat)
    BY <1>3, <1>4, <1>8, CompositeGrows
  <2>3. Placement' /\ nsrn' \in 0..NRegs
    <3>1. UNCHANGED <<ints, floats>> /\ nsrn' = NRegs /\ ngrn' = ngrn /\ (a.align >= 16 /\ a.size <= 16 => (lo - 1) % 2 = 0)
      BY <1>2, <1>8, <2>1
    <3> QED
      BY <1>1, <1>2, <1>5, <2>1, <2>2, <3>1, StackKeeps
  <2> QED
    BY <1>2, <1>3, <1>6, <1>8, <2>2, <2>3, NextArgTyped
<1> QED
  BY <1>1, <1>7, <1>8 DEF PutHFA

\* and any other composite, aligned on the stack.
LEMMA PutCompositeKeeps ==
  ASSUME TypeOK, Placement, NEW a \in family.args, PutComposite(a)
  PROVE  TypeOK' /\ Placement'
<1>1. PICK i : i = Len(args) + 1
  OBVIOUS
<1>2. goarch = "arm64" /\ NextArg("arm64", a) /\ UNCHANGED <<words, nsrn, floats>>
      /\ a.kind = "struct" /\ a.hfa = 0 /\ a.size <= 16
  BY DEF PutComposite, NextArg
<1>3. /\ i \in Nat \ {0} /\ ngrn \in 0..NRegs /\ Untouched(ints, ngrn)
      /\ DOMAIN ints = 0..NRegs-1 /\ DOMAIN floats = 0..NRegs-1 /\ stack \in Seq(Nat \X Nat)
  BY <1>1, <1>2, PlaceFacts
<1>4. a.size \in Nat \ {0} /\ a.align \in Nat
  BY <1>2, NextArgFacts, ShapeFacts
<1>5. ~IsFloating(a) /\ RegParts(a) = WordsOf(a.size) /\ StackParts(a) = WordsOf(a.size)
  BY <1>2, <1>4 DEF IsFloating, RegParts, StackParts
<1>6. words \in 0..(family.maxArgs + 1) /\ nsrn \in 0..NRegs
      /\ \A f \in {ints, floats} : \A r \in 0..NRegs-1 : f[r] \in Nat \X Nat
  BY DEF TypeOK
<1>7. PICK n \in Nat \ {0} : n = WordsOf(a.size)
  BY <1>4 DEF WordsOf
<1>8. PICK first \in Nat : /\ first = IF a.align >= 16 /\ ngrn % 2 = 1 THEN ngrn + 1 ELSE ngrn
                           /\ ngrn <= first /\ (a.align >= 16 => first % 2 = 0)
  <2>1. ngrn \in Nat
    BY <1>3
  <2>2. CASE a.align >= 16 /\ ngrn % 2 = 1
    BY <2>1, <2>2, EvenAfterOdd
  <2>3. CASE ~(a.align >= 16 /\ ngrn % 2 = 1)
    <3>1. a.align >= 16 => ngrn % 2 = 0
      BY <2>1, <2>3
    <3> QED
      BY <2>1, <2>3, <3>1
  <2> QED
    BY <2>2, <2>3
<1>9. CASE first + n <= NRegs /\ ints' = Fill(ints, first, i, n) /\ ngrn' = first + n /\ UNCHANGED stack
  <2>1. ngrn \in Nat /\ ngrn' <= NRegs
    BY <1>3, <1>9
  <2>2. Grown(ints, ints', i, first, n) /\ DOMAIN ints' = 0..NRegs-1 /\ Untouched(ints', ngrn')
    BY <1>3, <1>8, <1>9, <2>1, FillGrows
  <2>3. Placement' /\ ngrn' \in 0..NRegs /\ \A r \in DOMAIN ints' : ints'[r] \in Nat \X Nat
    <3>1. ngrn' = first + RegParts(a) /\ Grown(ints, ints', i, first, RegParts(a)) /\ UNCHANGED <<floats, stack, nsrn>>
      BY <1>2, <1>5, <1>9, <1>7, <2>2
    <3> QED
      BY <1>1, <1>2, <1>5, <1>8, <2>1, <2>2, <3>1, IntRegistersKeep
  <2> QED
    BY <1>2, <1>3, <1>6, <1>9, <2>2, <2>3, NextArgTyped
<1>10. CASE ngrn' = NRegs /\ stack' = appendComposite(stack, i, a) /\ UNCHANGED ints
  <2>1. PICK lo \in Nat : /\ lo > Len(stack) /\ Grown(stack, stack', i, lo, StackParts(a))
                          /\ a.align >= 16 => (lo - 1) % 2 = 0
    BY <1>3, <1>4, <1>5, <1>10, CompositeGrows
  <2>2. stack' \in Seq(Nat \X Nat)
    BY <1>3, <1>4, <1>10, CompositeGrows
  <2>3. Placement' /\ ngrn' \in 0..NRegs
    <3>1. UNCHANGED <<ints, floats>> /\ ngrn' = NRegs /\ nsrn' = nsrn /\ (a.align >= 16 /\ a.size <= 16 => (lo - 1) % 2 = 0)
      BY <1>2, <1>10, <2>1
    <3> QED
      BY <1>1, <1>2, <1>5, <2>1, <2>2, <3>1, StackKeeps
  <2> QED
    BY <1>2, <1>3, <1>6, <1>10, <2>2, <2>3, NextArgTyped
<1> QED
  BY <1>1, <1>7, <1>8, <1>9, <1>10 DEF PutComposite

-----------------------------------------------------------------------------
(* planAMD64 *)

\* The hidden pointer, if there is one, is the first word.
LEMMA HiddenFacts == Hidden \in {0, 1} /\ (Hidden = 1 <=> HiddenRet(goarch, ret))
BY DEF Hidden

\* Word n of the call is where its position says, and the others stay.
LEMMA PlanAMD64Keeps ==
  ASSUME TypeOK, AMD64Inv, NEW a \in family.args, PlanAMD64(a)
  PROVE  TypeOK' /\ AMD64Inv'
<1>1. goarch = "amd64" /\ goarch' = "amd64" /\ NextArg("amd64", a) /\ UNCHANGED <<ngrn, nsrn, family, ret>>
  BY DEF PlanAMD64, NextArg, site
<1>2. PICK m \in Nat, w \in Nat, h \in {0, 1} : m = Len(args) /\ w = words /\ h = Hidden /\ w = m + h
  BY <1>1, HiddenFacts, NextArgFacts DEF AMD64Inv
<1>3. Len(args') = m + 1 /\ m + 1 <= family.maxArgs /\ words' = w + 1 /\ Hidden' = h
  BY <1>1, <1>2, NextArgFacts DEF PlanAMD64, Hidden
<1>4. PICK token : token = <<m + 1, 0>> /\ token \in Nat \X Nat
  <2>1. <<m + 1, 0>> \in Nat \X Nat
    BY <1>2
  <2> QED
    BY <2>1, Zenon
<1>5. /\ ints' = AMD64Regs(ints, w, token) /\ floats' = AMD64Regs(floats, w, token)
      /\ stack' = AMD64Stack(stack, w, token)
  BY <1>2, <1>4 DEF PlanAMD64
<1>6. TokenAt(w)' = token /\ \A n \in Nat : n # w => TokenAt(n)' = TokenAt(n)
  <2>1. \A n \in Nat : TokenAt(n) = IF n >= w THEN Zero ELSE IF n < h THEN RetPtr ELSE <<n - h + 1, 0>>
    BY <1>2 DEF TokenAt
  <2>2. \A n \in Nat : TokenAt(n)' = IF n >= w + 1 THEN Zero ELSE IF n < h THEN RetPtr ELSE <<n - h + 1, 0>>
    BY <1>3 DEF TokenAt
  <2>3. ~(w >= w + 1) /\ ~(w < h) /\ w - h + 1 = m + 1
    BY <1>2
  <2>4. \A n \in Nat : n # w => (n >= w + 1 <=> n >= w)
    BY <1>2
  <2> QED
    BY <1>2, <1>4, <2>1, <2>2, <2>3, <2>4
<1>7. /\ floats = ints /\ \A r \in 0..NRegs-1 : ints[r] = IF r < 4 THEN TokenAt(r) ELSE Zero
      /\ Len(stack) = IF w > 4 THEN w - 4 ELSE 0
      /\ \A s \in 1..Len(stack) : stack[s] = TokenAt(s + 3)
  BY <1>1, <1>2 DEF AMD64Inv
<1>8. /\ DOMAIN ints = 0..NRegs-1 /\ \A r \in 0..NRegs-1 : ints[r] \in Nat \X Nat
      /\ stack \in Seq(Nat \X Nat) /\ family.maxArgs \in Nat
  BY PlanAssumption DEF TypeOK
<1>9. floats' = ints'
  BY <1>5, <1>7
<1>10. /\ DOMAIN ints' = 0..NRegs-1
       /\ \A r \in 0..NRegs-1 : ints'[r] = IF r = w /\ w < 4 THEN token ELSE ints[r]
  BY <1>2, <1>5, <1>8 DEF AMD64Regs, NRegs
<1>11. \A r \in 0..NRegs-1 : /\ ints'[r] \in Nat \X Nat
                             /\ ints'[r] = IF r < 4 THEN TokenAt(r)' ELSE Zero
  <2> TAKE r \in 0..NRegs-1
  <2>1. CASE r = w /\ w < 4
    BY <1>4, <1>6, <1>10, <2>1
  <2>2. CASE ~(r = w /\ w < 4)
    <3>1. ints'[r] = ints[r] /\ r \in Nat /\ (r < 4 => r # w)
      BY <1>10, <2>2
    <3> QED
      BY <1>6, <1>7, <1>8, <3>1
  <2> QED
    BY <2>1, <2>2
<1>12. /\ stack' \in Seq(Nat \X Nat) /\ Len(stack') = IF w + 1 > 4 THEN w + 1 - 4 ELSE 0
       /\ \A s \in 1..Len(stack') : stack'[s] = TokenAt(s + 3)'
  <2>1. CASE w < 4
    <3>1. stack' = stack /\ Len(stack) = 0
      BY <1>2, <1>5, <1>7, <2>1 DEF AMD64Stack
    <3>2. ~(w + 1 > 4) /\ \A s \in 1..0 : FALSE
      BY <1>2, <2>1
    <3> QED
      BY <1>8, <3>1, <3>2
  <2>2. CASE ~(w < 4)
    <3>1. PICK k \in Nat : k = w - 4 /\ k = Len(stack)
      BY <1>2, <1>7, <2>2
    <3>2. stack' = Append(stack, token)
      BY <1>5, <2>2 DEF AMD64Stack
    <3>3. stack' \in Seq(Nat \X Nat) /\ Len(stack') = k + 1 /\ stack'[k + 1] = token /\ \A s \in 1..k : stack'[s] = stack[s]
      BY <1>4, <1>8, <3>1, <3>2
    <3>4. (k + 1) + 3 = w /\ \A s \in 1..k : s + 3 \in Nat /\ s + 3 # w
      BY <1>2, <3>1
    <3>5. \A s \in 1..(k + 1) : s = k + 1 \/ s \in 1..k
      BY <3>1
    <3>6. \A s \in 1..(k + 1) : stack'[s] = TokenAt(s + 3)'
      <4>1. \A s \in 1..k : stack'[s] = TokenAt(s + 3)'
        <5> TAKE s \in 1..k
        <5>1. stack'[s] = TokenAt(s + 3)
          BY <1>7, <3>1, <3>3
        <5> QED
          BY <1>6, <3>4, <5>1
      <4>2. stack'[k + 1] = TokenAt((k + 1) + 3)'
        BY <1>6, <3>3, <3>4
      <4> QED
        BY <3>5, <4>1, <4>2
    <3> QED
      BY <1>2, <2>2, <3>1, <3>3, <3>6
  <2> QED
    BY <2>1, <2>2
<1>13. AMD64Inv'
  <2>1. words' = Len(args') + Hidden'
    BY <1>2, <1>3
  <2> QED
    BY <1>3, <1>9, <1>11, <1>12, <2>1 DEF AMD64Inv
<1>14. TypeOK'
  <2>1. words' \in 0..(family.maxArgs + 1) /\ ngrn' \in 0..NRegs /\ nsrn' \in 0..NRegs
    <3>1. ngrn \in 0..NRegs /\ nsrn \in 0..NRegs
      BY DEF TypeOK
    <3>2. w + 1 \in 0..(family.maxArgs + 1)
      BY <1>2, <1>3, <1>8
    <3> QED
      BY <1>1, <1>3, <3>1, <3>2
  <2> QED
    BY <1>1, <1>9, <1>10, <1>11, <1>12, <2>1, NextArgTyped
<1> QED
  BY <1>13, <1>14

\* So on x64 every argument is at its position, and only there.
LEMMA AMD64Places ==
  ASSUME TypeOK, AMD64Inv, goarch = "amd64"
  PROVE  Placement
<1>1. PICK m \in Nat, w \in Nat, h \in {0, 1} : m = Len(args) /\ w = words /\ h = Hidden /\ w = m + h
  BY HiddenFacts DEF AMD64Inv, TypeOK
<1>2. /\ floats = ints /\ \A r \in 0..NRegs-1 : ints[r] = IF r < 4 THEN TokenAt(r) ELSE Zero
      /\ Len(stack) = IF w > 4 THEN w - 4 ELSE 0
      /\ \A s \in 1..Len(stack) : stack[s] = TokenAt(s + 3)
  BY <1>1 DEF AMD64Inv
<1>3. DOMAIN ints = 0..NRegs-1 /\ DOMAIN stack = 1..Len(stack) /\ Len(stack) \in Nat
  BY DEF TypeOK
<1>4. ASSUME NEW i \in 1..m, NEW n \in Nat
      PROVE  TokenAt(n)[1] = i <=> n = h + (i - 1)
  <2>1. TokenAt(n) = IF n >= w THEN Zero ELSE IF n < h THEN RetPtr ELSE <<n - h + 1, 0>>
    BY <1>1 DEF TokenAt
  <2>2. Zero[1] = 0 /\ RetPtr[1] = 0 /\ i \in Nat \ {0} /\ h + (i - 1) < w /\ ~(h + (i - 1) < h)
    BY <1>1 DEF Zero, RetPtr
  <2>3. CASE n >= w
    BY <1>1, <2>1, <2>2, <2>3
  <2>4. CASE ~(n >= w) /\ n < h
    BY <1>1, <2>1, <2>2, <2>4
  <2>5. CASE ~(n >= w) /\ ~(n < h)
    <3>1. TokenAt(n)[1] = n - h + 1
      BY <2>1, <2>5
    <3> QED
      BY <1>1, <3>1
  <2> QED
    BY <2>3, <2>4, <2>5
<1>5. ASSUME NEW i \in 1..m
      PROVE  LET n == h + (i - 1) IN
             IF n < 4 THEN In(ints, i) = {n} /\ In(floats, i) = {n} /\ In(stack, i) = {}
             ELSE In(ints, i) = {} /\ In(floats, i) = {} /\ In(stack, i) = {n - 3}
  <2>1. PICK n \in Nat : n = h + (i - 1) /\ n < w
    BY <1>1
  <2>2. \A r \in 0..NRegs-1 : ints[r][1] = i <=> r = n /\ n < 4
    <3> TAKE r \in 0..NRegs-1
    <3>1. CASE r < 4
      BY <1>2, <1>4, <2>1, <3>1
    <3>2. CASE ~(r < 4)
      <4>1. ints[r][1] = 0 /\ i # 0
        BY <1>2, <3>2 DEF Zero
      <4> QED
        BY <3>2, <4>1
    <3> QED
      BY <3>1, <3>2
  <2>3. \A s \in 1..Len(stack) : stack[s][1] = i <=> s + 3 = n
    <3> TAKE s \in 1..Len(stack)
    <3>1. stack[s] = TokenAt(s + 3) /\ s + 3 \in Nat
      BY <1>2, <1>3
    <3> QED
      BY <1>4, <2>1, <3>1
  <2>4. CASE n < 4
    <3>1. n \in 0..NRegs-1
      BY <2>4 DEF NRegs
    <3>2. \A s \in 1..Len(stack) : s + 3 # n
      BY <1>3, <2>4
    <3>3. In(ints, i) = {n} /\ In(stack, i) = {}
      BY <1>3, <2>2, <2>3, <2>4, <3>1, <3>2 DEF In
    <3> QED
      BY <1>2, <2>1, <2>4, <3>3
  <2>5. CASE ~(n < 4)
    <3>1. n - 3 \in 1..Len(stack) /\ (n - 3) + 3 = n /\ \A s \in 1..Len(stack) : s + 3 = n => s = n - 3
      BY <1>1, <1>2, <1>3, <2>1, <2>5
    <3>2. In(ints, i) = {} /\ In(stack, i) = {n - 3}
      BY <1>3, <2>2, <2>3, <2>5, <3>1 DEF In
    <3> QED
      BY <1>2, <2>1, <2>5, <3>2
  <2> QED
    BY <2>4, <2>5
<1>6. goarch # "arm64"
  OBVIOUS
<1>7. \A i \in 1..m : (IF HiddenRet(goarch, ret) THEN i ELSE i - 1) = h + (i - 1)
  BY <1>1, HiddenFacts
<1>8. PlacedWhole
  BY <1>1, <1>5, <1>6, <1>7 DEF PlacedWhole, Aligned16
<1> QED
  BY <1>6, <1>8 DEF Placement, ARM64Inv, NoBackfill

-----------------------------------------------------------------------------
(* The frame of every call *)

FrameInv == TypeOK /\ AMD64Inv /\ (goarch = "arm64" => Placement) /\ LimitInv

\* Both planners' invariants give the placement.
LEMMA FramePlacement == FrameInv => Placement
<1>1. FrameInv => goarch \in {"amd64", "arm64"}
  BY PlanAssumption DEF FrameInv, TypeOK
<1> QED
  BY <1>1, AMD64Places DEF FrameInv

\* An empty plan satisfies them.
LEMMA InitFrame == Init => FrameInv
<1> SUFFICES ASSUME Init PROVE FrameInv
  OBVIOUS
<1>1. family \in Families /\ goarch = family.goarch /\ ret \in family.rets /\ phase = "plan"
      /\ family.maxArgs \in Nat /\ goarch \in {"amd64", "arm64"}
  BY PlanAssumption DEF Init
<1>2. args = << >> /\ stack = << >> /\ Len(args) = 0 /\ Len(stack) = 0 /\ ngrn = 0 /\ nsrn = 0
  BY DEF Init
<1>3. words = Hidden /\ floats = ints /\ x8 \in {Zero, RetPtr}
  BY DEF Init, Hidden
<1>4. DOMAIN Blank = 0..NRegs-1 /\ \A r \in 0..NRegs-1 : Blank[r] = Zero
  BY DEF Blank
<1>5. /\ DOMAIN ints = 0..NRegs-1
      /\ \A r \in 0..NRegs-1 : ints[r] = IF r = 0 /\ Hidden = 1 THEN RetPtr ELSE Zero
  <2>1. CASE HiddenRet(goarch, ret)
    <3>1. ints = [Blank EXCEPT ![0] = RetPtr] /\ Hidden = 1 /\ 0 \in 0..NRegs-1
      BY <2>1 DEF Init, AMD64Regs, Hidden, NRegs
    <3> QED
      BY <1>4, <3>1
  <2>2. CASE ~HiddenRet(goarch, ret)
    <3>1. ints = Blank /\ Hidden = 0
      BY <2>2 DEF Init, Hidden
    <3> QED
      BY <1>4, <3>1
  <2> QED
    BY <2>1, <2>2
<1>6. Zero = <<0, 0>> /\ RetPtr = <<0, 1>> /\ Zero \in Nat \X Nat /\ RetPtr \in Nat \X Nat
  BY DEF Zero, RetPtr
<1>7. \A r \in 0..NRegs-1 : ints[r] \in Nat \X Nat /\ ints[r][1] = 0
  BY <1>5, <1>6
<1>8. TypeOK
  <2>1. words \in 0..(family.maxArgs + 1) /\ Len(args) <= family.maxArgs
    BY <1>1, <1>2, <1>3, HiddenFacts
  <2>2. ngrn \in 0..NRegs /\ nsrn \in 0..NRegs
    BY <1>2 DEF NRegs
  <2>3. args \in Seq(family.args) /\ stack \in Seq(Nat \X Nat)
    BY <1>2
  <2>4. \A file \in {ints, floats} : DOMAIN file = 0..NRegs-1 /\ \A r \in 0..NRegs-1 : file[r] \in Nat \X Nat
    BY <1>3, <1>5, <1>7
  <2> QED
    BY <1>1, <1>3, <2>1, <2>2, <2>3, <2>4 DEF TypeOK
<1>9. ASSUME goarch = "amd64" PROVE AMD64Inv
  <2>1. \A r \in 0..NRegs-1 : ints[r] = IF r < 4 THEN TokenAt(r) ELSE Zero
    <3> TAKE r \in 0..NRegs-1
    <3>1. TokenAt(r) = IF r >= words THEN Zero ELSE IF r < Hidden THEN RetPtr ELSE <<r - Hidden + 1, 0>>
      BY DEF TokenAt
    <3>2. CASE r = 0 /\ Hidden = 1
      BY <1>3, <1>5, <3>1, <3>2
    <3>3. CASE ~(r = 0 /\ Hidden = 1)
      <4>1. r >= words
        BY <1>3, <3>3, HiddenFacts
      <4> QED
        BY <1>5, <3>1, <3>3, <4>1
    <3> QED
      BY <3>2, <3>3
  <2>2. ~(words > 4) /\ words = 0 + Hidden
    BY <1>3, HiddenFacts
  <2>3. \A s \in 1..0 : FALSE
    OBVIOUS
  <2> QED
    BY <1>2, <1>3, <2>1, <2>2, <2>3 DEF AMD64Inv
<1>10. ASSUME goarch = "arm64" PROVE ARM64Inv
  <2>1. Hidden = 0
    BY <1>10 DEF Hidden, HiddenRet
  <2>2. \A r \in 0..NRegs-1 : ints[r] = Zero
    BY <1>5, <2>1
  <2>3. \A r \in DOMAIN stack : FALSE
    BY <1>2
  <2>4. Untouched(ints, ngrn) /\ Untouched(floats, nsrn)
    BY <1>3, <1>5, <2>2 DEF Untouched
  <2>5. \A file \in {ints, floats, stack} : \A r \in DOMAIN file : file[r][1] <= Len(args)
    <3>1. \A r \in DOMAIN ints : ints[r][1] <= Len(args)
      BY <1>2, <1>5, <1>7
    <3> QED
      BY <1>3, <2>3, <3>1
  <2>6. \A i \in 1..Len(args) : FALSE
    BY <1>2
  <2> QED
    BY <2>4, <2>5, <2>6 DEF ARM64Inv
<1>11. PlacedWhole /\ NoBackfill
  <2>1. \A i \in 1..Len(args) : FALSE
    BY <1>2
  <2> QED
    BY <2>1 DEF PlacedWhole, NoBackfill, Aligned16
<1>12. LimitInv
  BY <1>1, <1>2 DEF LimitInv, maxCallWords
<1> QED
  <2>1. AMD64Inv /\ ARM64Inv
    BY <1>1, <1>9, <1>10 DEF AMD64Inv, ARM64Inv
  <2> QED
    BY <1>8, <1>11, <1>12, <2>1 DEF FrameInv, Placement

\* Every iteration of the planner's loop keeps the frame.
LEMMA PlanKeeps ==
  ASSUME FrameInv, NEW a \in family.args,
         PlanAMD64(a) \/ PutInt(a) \/ PutFloat(a) \/ PutHFA(a) \/ PutComposite(a)
  PROVE  FrameInv'
<1>1. TypeOK /\ AMD64Inv /\ Placement /\ LimitInv
  BY FramePlacement DEF FrameInv
<1>2. NextArg(goarch, a) /\ phase' = "plan" /\ goarch' = goarch
  BY DEF PlanAMD64, PutInt, PutFloat, PutHFA, PutComposite, NextArg, site
<1>3. LimitInv'
  BY <1>1, <1>2, NextArgFacts DEF LimitInv
<1>4. CASE PlanAMD64(a)
  <2>1. TypeOK' /\ AMD64Inv' /\ goarch' = "amd64"
    BY <1>1, <1>2, <1>4, PlanAMD64Keeps DEF PlanAMD64, NextArg
  <2> QED
    BY <1>3, <2>1 DEF FrameInv
<1>5. CASE PutInt(a) \/ PutFloat(a) \/ PutHFA(a) \/ PutComposite(a)
  <2>1. TypeOK' /\ Placement'
    BY <1>1, <1>5, PutIntKeeps, PutFloatKeeps, PutHFAKeeps, PutCompositeKeeps
  <2>2. goarch' = "arm64"
    BY <1>2, <1>5 DEF PutInt, PutFloat, PutHFA, PutComposite, NextArg
  <2>3. AMD64Inv'
    BY <2>2 DEF AMD64Inv
  <2> QED
    BY <1>3, <2>1, <2>3 DEF FrameInv
<1> QED
  BY <1>4, <1>5

\* The call and its return leave the frame alone.
LEMMA CallKeeps ==
  ASSUME FrameInv, EndPlan \/ CalleeReturns \/ finishAMD64 \/ finishARM64 \/ UNCHANGED vars
  PROVE  FrameInv'
<1>1. UNCHANGED <<family, goarch, ret, args, words, ngrn, nsrn, ints, floats, stack, x8>>
  BY DEF EndPlan, CalleeReturns, finishAMD64, finishARM64, vars, site, frame
<1>2. phase' \in {"plan", "call", "finish", "done", "panic"} /\ (phase' = "panic" => Len(stack) > maxStackWords)
  BY DEF EndPlan, CalleeReturns, finishAMD64, finishARM64, vars, FrameInv, TypeOK, LimitInv
<1>3. TypeOK'
  BY <1>1, <1>2 DEF FrameInv, TypeOK
<1>4. AMD64Inv'
  BY <1>1 DEF FrameInv, AMD64Inv, TokenAt, Hidden
<1>5. Placement'
  <2>1. Placement
    BY FramePlacement
  <2>2. ARM64Inv'
    BY <1>1, <2>1 DEF Placement, ARM64Inv, NextReg
  <2>3. Aligned16'
    BY <1>1, <2>1 DEF Placement, PlacedWhole, Aligned16
  <2>4. PlacedWhole'
    BY <1>1, <2>1, <2>3 DEF Placement, PlacedWhole, Registers, Others
  <2>5. NoBackfill'
    BY <1>1, <2>1 DEF Placement, NoBackfill
  <2> QED
    BY <2>2, <2>4, <2>5 DEF Placement
<1>6. LimitInv'
  BY <1>1, <1>2 DEF FrameInv, LimitInv
<1> QED
  BY <1>3, <1>4, <1>5, <1>6 DEF FrameInv

\* Every step of either planner keeps them.
LEMMA FrameNext == FrameInv /\ [Next]_vars => FrameInv'
BY PlanKeeps, CallKeeps DEF Next

\* Whatever is passed and returned, the frame of the call is as FrameInv says.
THEOREM FrameCorrect == Spec => []FrameInv
BY InitFrame, FrameNext, PTL DEF Spec

\* Every field of the call frame keeps its Go type (callFrame of call.go).
THEOREM TypeCorrect == Spec => []TypeOK
<1>1. FrameInv => TypeOK
  BY DEF FrameInv
<1> QED
  BY <1>1, FrameCorrect, PTL

\* planAMD64 and planARM64 place every argument once, in one piece, and where the
\* ABI wants it aligned; no later argument overwrites it.
THEOREM PlacedWholeCorrect == Spec => []PlacedWhole
<1>1. FrameInv => PlacedWhole
  BY FramePlacement DEF Placement
<1> QED
  BY <1>1, FrameCorrect, PTL

\* planARM64 keeps the order of the arguments in each place, and gives no register
\* to an argument behind one of its class that went to the stack.
THEOREM NoBackfillCorrect == Spec => []NoBackfill
<1>1. FrameInv => NoBackfill
  BY FramePlacement DEF Placement
<1> QED
  BY <1>1, FrameCorrect, PTL

-----------------------------------------------------------------------------
(* The generator's limit *)

\* An argument that never needs more than one stack word, the padding before it
\* included, as a register, a float and most small composites do. An HFA of four
\* doubles is the other kind, and the overflow run shows what it does.
OneStackWord(a) ==
  StackParts(a) = 1 /\ RegParts(a) <= 2 /\ (a.kind = "struct" => a.align < 16 \/ a.size > 16)

\* On arm64 the first argument to spill comes behind three in registers, and every
\* later argument brings at most one stack word.
SpillInv ==
  goarch = "arm64" =>
    /\ Len(stack) = 0 => ngrn + nsrn <= 2 * Len(args)
    /\ Len(stack) > 0 => Len(stack) + 3 <= Len(args)

\* One word of stack at most, and the registers accounted for, is all it takes.
LEMMA SpillStep ==
  ASSUME NEW l \in Nat, NEW k \in Nat, NEW g \in 0..8, NEW v \in 0..8,
         k = 0 => g + v <= 2 * l, k > 0 => k + 3 <= l,
         NEW k2, NEW g2 \in Nat, NEW v2 \in Nat,
         \/ k2 = k /\ g2 + v2 <= g + v + 2
         \/ k2 = k + 1 /\ g + v >= 7
  PROVE  (k2 = 0 => g2 + v2 <= 2 * (l + 1)) /\ (k2 > 0 => k2 + 3 <= l + 1)
OBVIOUS

\* A composite that needs no alignment takes just its words of the stack.
LEMMA CompositeLength ==
  ASSUME NEW s \in Seq(Nat \X Nat), NEW i \in Nat, NEW a, a.size \in Nat \ {0}, a.align \in Nat, a.align < 16
  PROVE  Len(appendComposite(s, i, a)) = Len(s) + WordsOf(a.size)
<1> DEFINE pad == IF a.align >= 16 /\ Len(s) % 2 = 1 THEN <<Zero>> ELSE << >>
           parts == [k \in 1..WordsOf(a.size) |-> <<i, k - 1>>]
<1>1. PICK n \in Nat : n = WordsOf(a.size)
  BY DEF WordsOf
<1>2. pad = << >>
  <2>1. ~(a.align >= 16)
    OBVIOUS
  <2> QED
    BY <2>1
<1>3. parts \in Seq(Nat \X Nat) /\ Len(parts) = n
  <2>1. parts = [k \in 1..n |-> <<i, k - 1>>]
    BY <1>1
  <2>2. \A k \in 1..n : k - 1 \in Nat
    OBVIOUS
  <2> HIDE DEF parts
  <2>3. parts \in [1..n -> Nat \X Nat]
    BY <2>1, <2>2
  <2>4. parts \in Seq(Nat \X Nat)
    BY <2>3, SeqDef
  <2> QED
    BY <2>1, <2>4, LenProperties
<1> HIDE DEF pad, parts
<1>4. appendComposite(s, i, a) = (s \o pad) \o parts
  BY DEF appendComposite, pad, parts
<1>5. s \o pad = s
  BY <1>2, ConcatEmptySeq
<1>6. Len(s \o parts) = Len(s) + Len(parts)
  BY <1>3, ConcatProperties
<1> QED
  BY <1>1, <1>3, <1>4, <1>5, <1>6

\* Every argument of one stack word at most keeps the bound on the words spilled.
LEMMA SpillKeeps ==
  ASSUME \A f \in Families : f.goarch = "arm64" => \A a \in f.args : OneStackWord(a),
         FrameInv, SpillInv, NEW a \in family.args, PutInt(a) \/ PutFloat(a) \/ PutHFA(a) \/ PutComposite(a)
  PROVE  SpillInv'
<1>1. goarch = "arm64" /\ NextArg("arm64", a) /\ OneStackWord(a)
  BY DEF PutInt, PutFloat, PutHFA, PutComposite, NextArg, FrameInv, TypeOK
<1>2. TypeOK /\ a \in Shapes /\ stack \in Seq(Nat \X Nat)
  BY <1>1, NextArgFacts DEF FrameInv, TypeOK
<1>3. /\ a.kind \in {"word", "float", "struct"} /\ a.size \in Nat \ {0} /\ a.align \in Nat /\ a.hfa \in 0..4
      /\ RegParts(a) \in Nat \ {0} /\ StackParts(a) \in Nat \ {0}
  BY <1>2, ShapeFacts
<1>4. PICK l \in Nat, k \in Nat, g \in 0..8, v \in 0..8 : l = Len(args) /\ k = Len(stack) /\ g = ngrn /\ v = nsrn
  <2>1. args \in Seq(family.args) /\ ngrn \in 0..8 /\ nsrn \in 0..8
    BY <1>2 DEF TypeOK, NRegs
  <2>2. Len(args) \in Nat /\ Len(stack) \in Nat
    BY <1>2, <2>1
  <2> QED
    BY <2>1, <2>2
<1>5. (k = 0 => g + v <= 2 * l) /\ (k > 0 => k + 3 <= l) /\ Len(args') = l + 1
  BY <1>1, <1>2, <1>4, NextArgFacts DEF SpillInv
<1>6. PICK i \in Nat : i = Len(args) + 1
  BY <1>4
<1>7. /\ ngrn' \in Nat /\ nsrn' \in Nat
      /\ \/ Len(stack') = k /\ ngrn' + nsrn' <= g + v + 2
         \/ Len(stack') = k + 1 /\ g + v >= 7
  <2>1. CASE PutInt(a)
    <3>1. nsrn' = v /\ \/ ngrn' = g + 1 /\ stack' = stack
                       \/ g >= 8 /\ ngrn' = g /\ stack' = Append(stack, <<i, 0>>)
      BY <1>4, <1>6, <2>1 DEF PutInt, NRegs
    <3>2. Len(Append(stack, <<i, 0>>)) = k + 1
      BY <1>2, <1>4
    <3> QED
      BY <1>4, <3>1, <3>2
  <2>2. CASE PutFloat(a)
    <3>1. ngrn' = g /\ \/ nsrn' = v + 1 /\ stack' = stack
                       \/ v >= 8 /\ nsrn' = 8 /\ stack' = Append(stack, <<i, 0>>)
      BY <1>4, <1>6, <2>2 DEF PutFloat, NRegs
    <3>2. Len(Append(stack, <<i, 0>>)) = k + 1
      BY <1>2, <1>4
    <3> QED
      BY <1>4, <3>1, <3>2
  <2>3. CASE PutHFA(a)
    <3>1. PICK n \in 1..2 : n = a.hfa
      <4>1. a.kind = "struct" /\ a.hfa > 0
        BY <2>3 DEF PutHFA
      <4> QED
        BY <1>1, <1>3, <4>1 DEF OneStackWord, RegParts
    <3>2. a.kind = "struct" /\ a.hfa > 0 /\ WordsOf(a.size) = 1
      BY <1>1, <2>3 DEF PutHFA, OneStackWord, StackParts
    <3>3. a.size <= 16 /\ a.align < 16
      <4>1. a.size <= 16
        BY <1>3, <3>2 DEF WordsOf
      <4> QED
        BY <1>1, <1>3, <3>2, <4>1 DEF OneStackWord
    <3>4. Len(appendComposite(stack, i, a)) = k + 1
      BY <1>2, <1>3, <1>4, <3>2, <3>3, CompositeLength
    <3>5. ngrn' = g /\ \/ nsrn' = v + n /\ stack' = stack
                       \/ v + n > 8 /\ nsrn' = 8 /\ stack' = appendComposite(stack, i, a)
      BY <1>4, <1>6, <2>3, <3>1 DEF PutHFA, NRegs
    <3>6. CASE nsrn' = v + n /\ stack' = stack
      <4>1. v + n \in Nat /\ g \in Nat /\ g + (v + n) <= g + v + 2
        BY <3>1
      <4> QED
        BY <1>4, <3>5, <3>6, <4>1
    <3>7. CASE v + n > 8 /\ nsrn' = 8 /\ stack' = appendComposite(stack, i, a)
      <4>1. g \in Nat /\ g + v >= 7
        BY <3>1, <3>7
      <4> QED
        BY <3>4, <3>5, <3>7, <4>1
    <3> QED
      BY <3>5, <3>6, <3>7
  <2>4. CASE PutComposite(a)
    <3>1. a.kind = "struct" /\ ~(a.hfa > 0) /\ a.size <= 16 /\ WordsOf(a.size) = 1
      <4>1. a.kind = "struct" /\ a.hfa = 0 /\ a.size <= 16
        BY <2>4 DEF PutComposite
      <4> QED
        BY <1>1, <4>1 DEF OneStackWord, StackParts
    <3>2. a.align < 16 /\ ~(a.align >= 16)
      BY <1>1, <1>3, <3>1 DEF OneStackWord
    <3>3. Len(appendComposite(stack, i, a)) = k + 1
      BY <1>2, <1>3, <1>4, <3>1, <3>2, CompositeLength
    <3>4. nsrn' = v /\ \/ ngrn' = g + 1 /\ stack' = stack
                       \/ g + 1 > 8 /\ ngrn' = 8 /\ stack' = appendComposite(stack, i, a)
      BY <1>4, <1>6, <2>4, <3>1, <3>2 DEF PutComposite, NRegs
    <3> QED
      BY <1>4, <3>3, <3>4
  <2> QED
    BY <2>1, <2>2, <2>3, <2>4
<1>8. (Len(stack') = 0 => ngrn' + nsrn' <= 2 * (l + 1)) /\ (Len(stack') > 0 => Len(stack') + 3 <= l + 1)
  BY <1>5, <1>7, SpillStep
<1> QED
  BY <1>5, <1>8 DEF SpillInv

\* The generator's bound on the argument words keeps Call from its panic: on x64
\* whatever the arguments are, on arm64 when none needs more than one stack word.
THEOREM CallNeverPanicsCorrect ==
  ASSUME \A f \in Families : f.goarch = "arm64" => \A a \in f.args : OneStackWord(a)
  PROVE  Spec => []CallNeverPanics
<1>1. Init => SpillInv
  <2> SUFFICES ASSUME Init PROVE SpillInv
    OBVIOUS
  <2>1. Len(args) = 0 /\ Len(stack) = 0 /\ ngrn = 0 /\ nsrn = 0
    BY DEF Init
  <2> QED
    BY <2>1 DEF SpillInv
<1>2. FrameInv /\ SpillInv /\ [Next]_vars => SpillInv'
  <2> SUFFICES ASSUME FrameInv, SpillInv, [Next]_vars PROVE SpillInv'
    OBVIOUS
  <2>1. ASSUME NEW a \in family.args, PlanAMD64(a) PROVE SpillInv'
    <3>1. goarch' = "amd64"
      BY <2>1 DEF PlanAMD64, NextArg, site
    <3> QED
      BY <3>1 DEF SpillInv
  <2>2. ASSUME NEW a \in family.args, PutInt(a) \/ PutFloat(a) \/ PutHFA(a) \/ PutComposite(a) PROVE SpillInv'
    BY <2>2, SpillKeeps
  <2>3. ASSUME EndPlan \/ CalleeReturns \/ finishAMD64 \/ finishARM64 \/ UNCHANGED vars PROVE SpillInv'
    <3>1. UNCHANGED <<goarch, args, ngrn, nsrn, stack>>
      BY <2>3 DEF EndPlan, CalleeReturns, finishAMD64, finishARM64, vars, site, frame
    <3> QED
      BY <3>1 DEF SpillInv
  <2> QED
    BY <2>1, <2>2, <2>3 DEF Next
<1>3. FrameInv /\ SpillInv => CallNeverPanics
  <2> SUFFICES ASSUME FrameInv, SpillInv PROVE ~(Len(stack) > maxStackWords)
    BY DEF FrameInv, LimitInv, CallNeverPanics
  <2>1. PICK l \in Nat, k \in Nat : l = Len(args) /\ k = Len(stack) /\ l <= 45
    BY DEF FrameInv, TypeOK, LimitInv, maxCallWords
  <2>2. CASE goarch = "amd64"
    <3>1. words = l + Hidden /\ k = IF words > 4 THEN words - 4 ELSE 0
      BY <2>1, <2>2 DEF FrameInv, AMD64Inv
    <3> QED
      BY <2>1, <3>1, HiddenFacts DEF maxStackWords
  <2>3. CASE goarch = "arm64"
    <3>1. k > 0 => k + 3 <= l
      BY <2>1, <2>3 DEF SpillInv
    <3> QED
      BY <2>1, <3>1 DEF maxStackWords
  <2>4. goarch \in {"amd64", "arm64"}
    BY PlanAssumption DEF FrameInv, TypeOK
  <2> QED
    BY <2>2, <2>3, <2>4
<1> QED
  BY <1>1, <1>2, <1>3, FrameCorrect, PTL DEF Spec

-----------------------------------------------------------------------------
(* The returned composite *)

\* The descriptor of a returned HFA counts the elements the struct has.
ExactHFAs == \A f \in Families : \A r \in f.rets : f.goarch = "arm64" /\ r.hfa > 0 => r.size = r.hfa * r.elem

\* Byte b of an HFA is byte b % elem of element b \div elem.
LEMMA ElementOf ==
  ASSUME NEW elem \in {4, 8}, NEW n \in 1..4, NEW b \in 0..(n * elem) - 1
  PROVE  b \div elem \in 0..n-1 /\ b % elem \in 0..elem-1 /\ (b \div elem) * elem + (b % elem) = b
<1>1. CASE elem = 4
  BY <1>1
<1>2. CASE elem = 8
  BY <1>2
<1> QED
  BY <1>1, <1>2

\* What the shapes of results have in common.
LEMMA RetFacts ==
  ASSUME TypeOK
  PROVE  /\ ret.kind \in {"word", "float", "struct"} /\ ret.size \in Nat \ {0} /\ ret.hfa \in 0..4 /\ ret.elem \in {4, 8}
         /\ goarch \in {"amd64", "arm64"}
         /\ ExactHFAs /\ InElements => ret.size = ret.hfa * ret.elem
<1>1. family \in Families /\ goarch = family.goarch /\ ret \in family.rets /\ ret \in Shapes /\ goarch \in {"amd64", "arm64"}
  BY PlanAssumption DEF TypeOK
<1>2. ExactHFAs /\ InElements => ret.size = ret.hfa * ret.elem
  BY <1>1 DEF ExactHFAs, InElements
<1> QED
  BY <1>1, <1>2, ShapeFacts

\* The callee leaves the value where finish will look for it.
LEMMA CalleeKeeps ==
  ASSUME TypeOK, ReturnInv, CalleeReturns
  PROVE  ReturnInv'
<1>1. /\ UNCHANGED <<goarch, ret>> /\ phase = "call" /\ phase' = "finish" /\ regs = ZeroRegs
      /\ DOMAIN buffer = 0..ret.size-1
  BY DEF CalleeReturns, ReturnInv, site
<1>2. PICK size \in Nat \ {0}, hfa \in 0..4, elem \in {4, 8} : size = ret.size /\ hfa = ret.hfa /\ elem = ret.elem
  BY RetFacts
<1>3. (InMemory' <=> InMemory) /\ (InElements' <=> InElements)
  BY <1>1 DEF InMemory, InElements
<1>4. ReturnComplete' /\ ~(phase' \in {"plan", "call"})
  BY <1>1 DEF ReturnComplete
<1>5. SUFFICES /\ DOMAIN buffer' = 0..size-1
               /\ ret.kind = "struct" /\ InMemory => \A b \in 0..size-1 : buffer'[b] = b
               /\ ret.kind = "struct" /\ InElements => \A e \in 0..hfa-1 : \A b \in 0..elem-1 : regs'.f[e][b] = e * elem + b
               /\ ret.kind = "struct" /\ ~InMemory /\ ~InElements =>
                    \A b \in 0..7 : (b < size => regs'.r1[b] = b) /\ (b + 8 < size => regs'.r2[b] = b + 8)
  BY <1>1, <1>2, <1>3, <1>4 DEF ReturnInv
<1>6. CASE /\ \/ ret.kind # "struct"
              \/ goarch = "amd64" /\ registerSized(size)
              \/ goarch = "arm64" /\ ret.hfa = 0 /\ size <= 16
           /\ regs' = [regs EXCEPT !.r1 = Bytes(0, size, 8), !.r2 = Bytes(8, size - 8, 8)]
           /\ UNCHANGED buffer
  <2>1. ret.kind = "struct" => ~InMemory /\ ~InElements
    BY <1>2, <1>6 DEF InMemory, InElements, HiddenRet, UsesX8
  <2>2. regs'.r1 = Bytes(0, size, 8) /\ regs'.r2 = Bytes(8, size - 8, 8)
    BY <1>1, <1>6 DEF ZeroRegs
  <2>3. \A b \in 0..7 : (b < size => Bytes(0, size, 8)[b] = b) /\ (b + 8 < size => Bytes(8, size - 8, 8)[b] = b + 8)
    BY <1>2 DEF Bytes
  <2> QED
    BY <1>1, <1>2, <1>6, <2>1, <2>2, <2>3
<1>7. CASE /\ ret.kind = "struct" /\ goarch = "arm64" /\ ret.hfa > 0
           /\ regs' = [regs EXCEPT !.f =
                [e \in 0..3 |-> IF e < hfa THEN Bytes(e * elem, elem, 8) ELSE NoBytes]]
           /\ UNCHANGED buffer
  <2>1. ~InMemory /\ InElements
    BY <1>2, <1>7 DEF InMemory, InElements, HiddenRet, UsesX8
  <2>2. regs'.f = [e \in 0..3 |-> IF e < hfa THEN Bytes(e * elem, elem, 8) ELSE NoBytes]
    BY <1>1, <1>7 DEF ZeroRegs
  <2>3. \A e \in 0..hfa-1 : e \in 0..3 /\ e < hfa
    BY <1>2
  <2>4. \A e \in 0..hfa-1 : regs'.f[e] = Bytes(e * elem, elem, 8)
    BY <2>2, <2>3
  <2>5. \A e \in 0..hfa-1 : \A b \in 0..elem-1 : Bytes(e * elem, elem, 8)[b] = e * elem + b
    <3> TAKE e \in 0..hfa-1
    <3> TAKE b \in 0..elem-1
    <3>1. b \in 0..8-1 /\ b < elem
      BY <1>2
    <3> QED
      BY <3>1 DEF Bytes
  <2> QED
    BY <1>1, <1>2, <1>7, <2>1, <2>4, <2>5
<1>8. CASE /\ HiddenRet(goarch, ret) \/ UsesX8(goarch, ret)
           /\ buffer' = [b \in 0..size-1 |-> b]
  <2>1. InMemory /\ ~InElements
    BY <1>2, <1>8 DEF InMemory, InElements, HiddenRet, UsesX8
  <2>2. DOMAIN buffer' = 0..size-1 /\ \A b \in 0..size-1 : buffer'[b] = b
    BY <1>8
  <2> QED
    BY <2>1, <2>2
<1> QED
  BY <1>2, <1>6, <1>7, <1>8 DEF CalleeReturns

\* The low bytes of a register in the buffer.
LEMMA StoreFacts ==
  ASSUME NEW mem, NEW at \in Nat, NEW reg, NEW n \in Int
  PROVE  LET m == storeWord(mem, at, reg, n) IN
         /\ DOMAIN m = DOMAIN mem
         /\ \A b \in DOMAIN mem : m[b] = IF b \in at..(at + n - 1) THEN reg[b - at] ELSE mem[b]
BY DEF storeWord

\* What finishAMD64 stores are the bytes of the result.
LEMMA FinishAMD64Keeps ==
  ASSUME TypeOK, ReturnInv, finishAMD64
  PROVE  ReturnInv'
<1>1. UNCHANGED <<goarch, ret, regs>> /\ phase = "finish" /\ phase' = "done" /\ goarch = "amd64"
  BY DEF finishAMD64, site
<1>2. PICK size \in Nat \ {0} : size = ret.size /\ DOMAIN buffer = 0..size-1
  BY RetFacts DEF ReturnInv
<1>3. ~(phase' \in {"plan", "call"}) /\ ~(phase' = "finish")
  BY <1>1
<1>4. SUFFICES DOMAIN buffer' = 0..size-1 /\ (ret.kind = "struct" => \A b \in 0..size-1 : buffer'[b] = b)
  BY <1>1, <1>2, <1>3 DEF ReturnInv, ReturnComplete
<1>5. CASE ret.kind = "struct" /\ registerSized(size)
  <2>1. ~InMemory /\ ~InElements
    BY <1>1, <1>2, <1>5 DEF InMemory, InElements, HiddenRet, UsesX8
  <2>2. \A b \in 0..7 : b < size => regs.r1[b] = b
    BY <1>1, <1>2, <1>5, <2>1 DEF ReturnInv
  <2>3. buffer' = storeWord(buffer, 0, regs.r1, size)
    BY <1>2, <1>5 DEF finishAMD64
  <2>4. \A b \in 0..size-1 : b \in 0..(0 + size - 1) /\ b \in 0..7 /\ b < size /\ b - 0 = b
    BY <1>5 DEF registerSized
  <2>5. DOMAIN buffer' = 0..size-1 /\ \A b \in 0..size-1 : buffer'[b] = regs.r1[b - 0]
    BY <1>2, <2>3, <2>4, StoreFacts
  <2> QED
    BY <2>2, <2>4, <2>5
<1>6. CASE ~(ret.kind = "struct" /\ registerSized(size))
  <2>1. buffer' = buffer
    BY <1>2, <1>6 DEF finishAMD64
  <2>2. ret.kind = "struct" => InMemory
    BY <1>1, <1>2, <1>6 DEF InMemory, HiddenRet
  <2>3. ret.kind = "struct" => \A b \in 0..size-1 : buffer[b] = b
    BY <1>1, <1>2, <2>2 DEF ReturnInv
  <2> QED
    BY <1>2, <2>1, <2>3
<1> QED
  BY <1>5, <1>6

\* What finishARM64 stores are too, if the elements of an HFA add up to its size.
LEMMA FinishARM64Keeps ==
  ASSUME ExactHFAs, TypeOK, ReturnInv, finishARM64
  PROVE  ReturnInv'
<1>1. UNCHANGED <<goarch, ret, regs>> /\ phase = "finish" /\ phase' = "done" /\ goarch = "arm64"
  BY DEF finishARM64, site
<1>2. PICK size \in Nat \ {0}, hfa \in 0..4, elem \in {4, 8} :
        size = ret.size /\ hfa = ret.hfa /\ elem = ret.elem /\ DOMAIN buffer = 0..size-1
  BY RetFacts DEF ReturnInv
<1>3. ~(phase' \in {"plan", "call"}) /\ ~(phase' = "finish")
  BY <1>1
<1>4. SUFFICES DOMAIN buffer' = 0..size-1 /\ (ret.kind = "struct" => \A b \in 0..size-1 : buffer'[b] = b)
  BY <1>1, <1>2, <1>3 DEF ReturnInv, ReturnComplete
<1>5. CASE ret.kind # "struct" /\ UNCHANGED buffer
  BY <1>2, <1>5
<1>6. CASE /\ ret.kind = "struct" /\ hfa > 0
           /\ buffer' = [b \in DOMAIN buffer |-> IF b < hfa * elem THEN regs.f[b \div elem][b % elem] ELSE buffer[b]]
  <2>1. InElements
    BY <1>1, <1>2, <1>6 DEF InElements
  <2>2. \A e \in 0..hfa-1 : \A b \in 0..elem-1 : regs.f[e][b] = e * elem + b
    BY <1>1, <1>2, <1>6, <2>1 DEF ReturnInv
  <2>3. size = hfa * elem /\ hfa \in 1..4
    BY <1>2, <1>6, <2>1, RetFacts
  <2>4. ASSUME NEW b \in 0..size-1 PROVE buffer'[b] = b
    <3>1. b \in 0..(hfa * elem) - 1 /\ b \in DOMAIN buffer
      BY <1>2, <2>3
    <3>2. b < hfa * elem
      <4>1. b < size
        BY <2>4
      <4> QED
        BY <2>3, <4>1
    <3>3. buffer'[b] = regs.f[b \div elem][b % elem]
      BY <1>6, <3>1, <3>2
    <3>4. b \div elem \in 0..hfa-1 /\ b % elem \in 0..elem-1 /\ (b \div elem) * elem + (b % elem) = b
      BY <2>3, <3>1, ElementOf
    <3> QED
      BY <2>2, <3>3, <3>4
  <2>5. DOMAIN buffer' = 0..size-1
    BY <1>2, <1>6
  <2> QED
    BY <2>4, <2>5
<1>7. CASE /\ ret.kind = "struct" /\ hfa = 0 /\ size <= 16
           /\ \/ size <= 8 /\ buffer' = storeWord(buffer, 0, regs.r1, size)
              \/ size > 8 /\ buffer' = storeWord(storeWord(buffer, 0, regs.r1, 8), 8, regs.r2, size - 8)
  <2>1. ~InMemory /\ ~InElements
    BY <1>1, <1>2, <1>7 DEF InMemory, InElements, HiddenRet, UsesX8
  <2>2. \A b \in 0..7 : (b < size => regs.r1[b] = b) /\ (b + 8 < size => regs.r2[b] = b + 8)
    BY <1>1, <1>2, <1>7, <2>1 DEF ReturnInv
  <2>3. CASE size <= 8 /\ buffer' = storeWord(buffer, 0, regs.r1, size)
    <3>1. \A b \in 0..size-1 : b \in 0..(0 + size - 1) /\ b \in 0..7 /\ b < size /\ b - 0 = b
      BY <2>3
    <3>2. DOMAIN buffer' = 0..size-1 /\ \A b \in 0..size-1 : buffer'[b] = regs.r1[b - 0]
      BY <1>2, <2>3, <3>1, StoreFacts
    <3> QED
      BY <2>2, <3>1, <3>2
  <2>4. CASE size > 8 /\ buffer' = storeWord(storeWord(buffer, 0, regs.r1, 8), 8, regs.r2, size - 8)
    <3> DEFINE first == storeWord(buffer, 0, regs.r1, 8)
    <3>1. /\ DOMAIN first = 0..size-1
          /\ \A b \in 0..size-1 : first[b] = IF b \in 0..(0 + 8 - 1) THEN regs.r1[b - 0] ELSE buffer[b]
      BY <1>2, StoreFacts
    <3>2. size - 8 \in Int /\ buffer' = storeWord(first, 8, regs.r2, size - 8)
      BY <2>4
    <3> HIDE DEF first
    <3>3. /\ DOMAIN buffer' = 0..size-1
          /\ \A b \in 0..size-1 : buffer'[b] = IF b \in 8..(8 + (size - 8) - 1) THEN regs.r2[b - 8] ELSE first[b]
      BY <3>1, <3>2, StoreFacts
    <3>4. ASSUME NEW b \in 0..size-1 PROVE buffer'[b] = b
      <4>1. CASE b <= 7
        <5>1. b \in 0..7 /\ b < size /\ b \in 0..(0 + 8 - 1) /\ b - 0 = b /\ b \notin 8..(8 + (size - 8) - 1)
          BY <4>1
        <5> QED
          BY <2>2, <3>1, <3>3, <5>1
      <4>2. CASE b > 7
        <5>1. b - 8 \in 0..7 /\ (b - 8) + 8 < size /\ (b - 8) + 8 = b /\ b \in 8..(8 + (size - 8) - 1)
          BY <1>7, <4>2
        <5> QED
          BY <2>2, <3>3, <5>1
      <4> QED
        BY <4>1, <4>2
    <3> QED
      BY <3>3, <3>4
  <2> QED
    BY <1>7, <2>3, <2>4
<1>8. CASE ret.kind = "struct" /\ hfa = 0 /\ size > 16 /\ UNCHANGED buffer
  <2>1. InMemory
    BY <1>1, <1>2, <1>8 DEF InMemory, UsesX8
  <2>2. \A b \in 0..size-1 : buffer[b] = b
    BY <1>1, <1>2, <1>8, <2>1 DEF ReturnInv
  <2> QED
    BY <1>2, <1>8, <2>2
<1> QED
  <2>1. size \in 9..16 => size > 8 /\ size <= 16
    OBVIOUS
  <2>2. size <= 8 => size <= 16
    OBVIOUS
  <2> QED
    BY <1>2, <1>5, <1>6, <1>7, <1>8, <2>1, <2>2 DEF finishARM64

\* Every byte of a returned composite reaches the caller's buffer, in registers or
\* in memory and whatever its size; on arm64 the descriptor of a returned HFA has to
\* be that of the struct.
THEOREM ReturnCompleteCorrect ==
  ASSUME ExactHFAs
  PROVE  Spec => []ReturnComplete
<1>1. Init => ReturnInv
  <2> SUFFICES ASSUME Init PROVE ReturnInv
    OBVIOUS
  <2>1. DOMAIN buffer = 0..ret.size-1 /\ regs = ZeroRegs /\ phase = "plan"
    BY DEF Init
  <2> QED
    BY <2>1 DEF ReturnInv, ReturnComplete
<1>2. FrameInv /\ ReturnInv /\ [Next]_vars => ReturnInv'
  <2> SUFFICES ASSUME FrameInv, ReturnInv, [Next]_vars PROVE ReturnInv'
    OBVIOUS
  <2>1. TypeOK
    BY DEF FrameInv
  <2>2. ASSUME phase = "plan", phase' \in {"plan", "call", "panic"}, UNCHANGED <<goarch, ret, regs, buffer>>
        PROVE  ReturnInv'
    BY <2>2 DEF ReturnInv, ReturnComplete
  <2>3. ASSUME NEW a \in family.args,
               PlanAMD64(a) \/ PutInt(a) \/ PutFloat(a) \/ PutHFA(a) \/ PutComposite(a)
        PROVE  ReturnInv'
    <3>1. phase = "plan" /\ phase' = "plan" /\ UNCHANGED <<goarch, ret, regs, buffer>>
      BY <2>3 DEF PlanAMD64, PutInt, PutFloat, PutHFA, PutComposite, NextArg, site
    <3> QED
      BY <2>2, <3>1
  <2>4. CASE EndPlan
    BY <2>2, <2>4 DEF EndPlan, site
  <2>5. CASE CalleeReturns \/ finishAMD64 \/ finishARM64
    BY <2>1, <2>5, CalleeKeeps, FinishAMD64Keeps, FinishARM64Keeps
  <2>6. CASE UNCHANGED vars
    <3>1. UNCHANGED <<goarch, ret, regs, buffer, phase>>
      BY <2>6 DEF vars, site
    <3> QED
      BY <3>1 DEF ReturnInv, ReturnComplete, InMemory, InElements
  <2> QED
    BY <2>3, <2>4, <2>5, <2>6 DEF Next
<1>3. ReturnInv => ReturnComplete
  BY DEF ReturnInv
<1> QED
  BY <1>1, <1>2, <1>3, FrameCorrect, PTL DEF Spec
=============================================================================
