------------------------------ MODULE CallPlan ------------------------------
(***************************************************************************)
(* The register-aware call of bindings/runtime/win32/call.go, seen by one   *)
(* caller: the planner (planAMD64 or planARM64) places each argument in the *)
(* callFrame, the trampoline calls the target with it and captures the      *)
(* result registers, and finishAMD64 / finishARM64 stores a composite       *)
(* return in the caller's buffer.                                           *)
(*                                                                          *)
(* A word is a token <<i, k>>: word (or HFA element) k of argument i. The   *)
(* loop over spec.Args is one step per argument, so a behaviour is a Spec.  *)
(***************************************************************************)
EXTENDS Integers, Sequences

CONSTANT
  Families      \* the families of call sites the run tries: an architecture,
                \* the Args a Spec may list, the Spec.Ret, and (a bound) the
                \* longest Spec.Args

maxStackWords == 42

\* Mutant of maxCallWords: the hidden pointer of a composite return forgotten.
maxCallWords_NoHidden == 4 + 42

\* The generator's limit on the argument words of a win32.Call site.
maxCallWords == 4 + 42 - 1

\* Arg: kind, C layout, and the HFA element count with the element size.
Word == [kind |-> "word", size |-> 8, align |-> 8, hfa |-> 0, elem |-> 8]
Float64 == [Word EXCEPT !.kind = "float"]
Struct(size, align, hfa, hfa64) ==
  [kind |-> "struct", size |-> size, align |-> align, hfa |-> hfa,
   elem |-> IF hfa64 THEN 8 ELSE 4]
Structs == [kind : {"struct"}, size : Nat \ {0}, align : Nat, hfa : 0..4, elem : {4, 8}]
Shapes == {Word, Float64} \cup Structs

ASSUME PlanAssumption ==
  \A f \in Families :
    /\ f.goarch \in {"amd64", "arm64"}
    /\ f.args \subseteq Shapes /\ f.rets \subseteq Shapes
    /\ f.maxArgs \in Nat

registerSized(size) == size \in {1, 2, 4, 8}
WordsOf(size) == (size + 7) \div 8

NRegs == 8                      \* callFrame.ints, callFrame.floats
Zero == <<0, 0>>                \* a register or padding word left at zero
RetPtr == <<0, 1>>              \* uintptr(ret)

VARIABLES
  family,                       \* what this behaviour's Spec is drawn from
  goarch, ret, args,            \* runtime.GOARCH, Spec.Ret, the Args so far
  words,                        \* planAMD64: words placed so far
  ngrn, nsrn,                   \* planARM64: next X and next V register
  ints, floats, stack, x8,      \* callFrame, and the stack words
  phase,                        \* "plan", "call", "finish", "done", "panic"
  regs,                         \* r1, r2, f: captured by the trampoline
  buffer                        \* *ret: the byte stored at each offset

frame == <<ints, floats, stack, x8>>
site == <<family, goarch, ret>>
vars == <<site, args, words, ngrn, nsrn, frame, phase, regs, buffer>>

\* Bytes of the returned value are named by their offset; Junk is any other.
Junk == -1
NoBytes == [b \in {} |-> Junk]
ZeroRegs == [r1 |-> NoBytes, r2 |-> NoBytes, f |-> [e \in 0..3 |-> NoBytes]]

\* x64 returns a composite that is not register-sized through a hidden first
\* argument, arm64 a non-HFA composite above 16 bytes through X8.
HiddenRet(arch, r) == arch = "amd64" /\ r.kind = "struct" /\ ~registerSized(r.size)
UsesX8(arch, r) == arch = "arm64" /\ r.kind = "struct" /\ r.hfa = 0 /\ r.size > 16

\* words[n] of planAMD64's second loop: a register and its XMM mirror.
AMD64Regs(file, n, token) == IF n < 4 THEN [file EXCEPT ![n] = token] ELSE file
AMD64Stack(s, n, token) == IF n < 4 THEN s ELSE Append(s, token)

Blank == [r \in 0..NRegs-1 |-> Zero]

Init ==
  /\ family \in Families /\ goarch = family.goarch /\ ret \in family.rets
  /\ args = << >> /\ stack = << >>
  /\ words = IF HiddenRet(goarch, ret) THEN 1 ELSE 0
  /\ ints = IF HiddenRet(goarch, ret) THEN AMD64Regs(Blank, 0, RetPtr) ELSE Blank
  /\ floats = ints
  /\ x8 = IF UsesX8(goarch, ret) THEN RetPtr ELSE Zero
  /\ ngrn = 0 /\ nsrn = 0
  /\ phase = "plan" /\ regs = ZeroRegs
  /\ buffer = [b \in 0..ret.size-1 |-> Junk]

\* The next iteration of the loop over spec.Args, at a call site that
\* buildFunction did not skip for its number of argument words.
NextArg(arch, a) ==
  /\ phase = "plan" /\ goarch = arch
  /\ Len(args) < maxCallWords /\ Len(args) < family.maxArgs
  /\ args' = Append(args, a)
  /\ UNCHANGED <<site, x8, phase, regs, buffer>>

\* planAMD64: an integer, a float's bits, a register-sized composite's bytes,
\* or the address of the 16-byte-aligned copy: one word whatever the Arg is.
PlanAMD64(a) ==
  LET token == <<Len(args) + 1, 0>> IN
  /\ NextArg("amd64", a)
  /\ words' = words + 1
  /\ ints' = AMD64Regs(ints, words, token)
  /\ floats' = AMD64Regs(floats, words, token)
  /\ stack' = AMD64Stack(stack, words, token)
  /\ UNCHANGED <<ngrn, nsrn>>

\* planARM64, putInt: a word, or the address of a large composite's copy.
PutInt(a) ==
  LET token == <<Len(args) + 1, 0>> IN
  /\ NextArg("arm64", a)
  /\ a.kind = "word" \/ (a.kind = "struct" /\ a.hfa = 0 /\ a.size > 16)
  /\ \/ /\ ngrn < NRegs
        /\ ints' = [ints EXCEPT ![ngrn] = token] /\ ngrn' = ngrn + 1
        /\ UNCHANGED stack
     \/ /\ ngrn >= NRegs
        /\ stack' = Append(stack, token)
        /\ UNCHANGED <<ints, ngrn>>
  /\ UNCHANGED <<words, nsrn, floats>>

PutFloat(a) ==
  LET token == <<Len(args) + 1, 0>> IN
  /\ NextArg("arm64", a)
  /\ a.kind = "float"
  /\ \/ /\ nsrn < NRegs
        /\ floats' = [floats EXCEPT ![nsrn] = token] /\ nsrn' = nsrn + 1
        /\ UNCHANGED stack
     \/ /\ nsrn >= NRegs
        /\ nsrn' = NRegs /\ stack' = Append(stack, token)
        /\ UNCHANGED floats
  /\ UNCHANGED <<words, ngrn, ints>>

\* Tokens <<i, 0>> .. <<i, n-1>> in n registers from first on.
Fill(file, first, i, n) ==
  [r \in DOMAIN file |-> IF r \in first..(first + n - 1) THEN <<i, r - first>> ELSE file[r]]

\* Mutant of appendComposite: no padding word.
appendComposite_NoPad(s, i, a) == s \o [k \in 1..WordsOf(a.size) |-> <<i, k - 1>>]

\* appendComposite: pad to an even word when 16-byte aligned, then the bytes
\* rounded up to whole words.
appendComposite(s, i, a) ==
  LET pad == IF a.align >= 16 /\ Len(s) % 2 = 1 THEN <<Zero>> ELSE << >>
  IN  s \o pad \o [k \in 1..WordsOf(a.size) |-> <<i, k - 1>>]

\* Mutant of PutHFA: an HFA that went to the stack leaves NSRN alone.
PutHFA_Backfill(a) ==
  LET i == Len(args) + 1 IN
  /\ NextArg("arm64", a)
  /\ a.kind = "struct" /\ a.hfa > 0
  /\ \/ /\ nsrn + a.hfa <= NRegs
        /\ floats' = Fill(floats, nsrn, i, a.hfa) /\ nsrn' = nsrn + a.hfa
        /\ UNCHANGED stack
     \/ /\ nsrn + a.hfa > NRegs
        /\ stack' = appendComposite(stack, i, a)
        /\ UNCHANGED <<floats, nsrn>>
  /\ UNCHANGED <<words, ngrn, ints>>

\* An HFA takes one V register per element, or goes to the stack whole.
PutHFA(a) ==
  LET i == Len(args) + 1 IN
  /\ NextArg("arm64", a)
  /\ a.kind = "struct" /\ a.hfa > 0
  /\ \/ /\ nsrn + a.hfa <= NRegs
        /\ floats' = Fill(floats, nsrn, i, a.hfa) /\ nsrn' = nsrn + a.hfa
        /\ UNCHANGED stack
     \/ /\ nsrn + a.hfa > NRegs
        /\ nsrn' = NRegs /\ stack' = appendComposite(stack, i, a)
        /\ UNCHANGED floats
  /\ UNCHANGED <<words, ngrn, ints>>

\* Another composite of at most 16 bytes: consecutive X registers, from an
\* even one when 16-byte aligned, or the stack.
PutComposite(a) ==
  LET i == Len(args) + 1
      n == WordsOf(a.size)
      first == IF a.align >= 16 /\ ngrn % 2 = 1 THEN ngrn + 1 ELSE ngrn
  IN
  /\ NextArg("arm64", a)
  /\ a.kind = "struct" /\ a.hfa = 0 /\ a.size <= 16
  /\ \/ /\ first + n <= NRegs
        /\ ints' = Fill(ints, first, i, n) /\ ngrn' = first + n
        /\ UNCHANGED stack
     \/ /\ first + n > NRegs
        /\ ngrn' = NRegs /\ stack' = appendComposite(stack, i, a)
        /\ UNCHANGED ints
  /\ UNCHANGED <<words, nsrn, floats>>

\* Call: too many stack words panic; otherwise the trampoline gets the frame.
EndPlan ==
  /\ phase = "plan"
  /\ phase' = IF Len(stack) > maxStackWords THEN "panic" ELSE "call"
  /\ UNCHANGED <<site, args, words, ngrn, nsrn, frame, regs, buffer>>

\* External: the callee returns its value as the host ABI says, and the
\* trampoline captures RAX/X0, RDX/X1 and XMM0/D0-D3. Bytes a..b of the value
\* in the low end of a register; the rest of the register is junk.
Bytes(a, n, width) == [b \in 0..width-1 |-> IF b < n THEN a + b ELSE Junk]
CalleeReturns ==
  /\ phase = "call" /\ phase' = "finish"
  /\ LET size == ret.size IN
     \/ /\ \/ ret.kind # "struct"
           \/ goarch = "amd64" /\ registerSized(size)
           \/ goarch = "arm64" /\ ret.hfa = 0 /\ size <= 16
        /\ regs' = [regs EXCEPT !.r1 = Bytes(0, size, 8), !.r2 = Bytes(8, size - 8, 8)]
        /\ UNCHANGED buffer
     \/ /\ ret.kind = "struct" /\ goarch = "arm64" /\ ret.hfa > 0
        /\ regs' = [regs EXCEPT !.f =
             [e \in 0..3 |-> IF e < ret.hfa THEN Bytes(e * ret.elem, ret.elem, 8) ELSE NoBytes]]
        /\ UNCHANGED buffer
     \/ /\ HiddenRet(goarch, ret) \/ UsesX8(goarch, ret)
        /\ RetPtr \in {ints[0], x8}
        /\ buffer' = [b \in 0..size-1 |-> b]
        /\ UNCHANGED regs
  /\ UNCHANGED <<site, args, words, ngrn, nsrn, frame>>

\* Mutant of storeWord: whole words only, as a plain 8-byte store of the
\* register would be cut off at the end of a shorter buffer.
storeWord_WholeWords(mem, at, reg, n) ==
  [b \in DOMAIN mem |-> IF n >= 8 /\ b \in at..(at + 7) THEN reg[b - at] ELSE mem[b]]

\* storeWord: the low n bytes of a captured register to ret + at.
storeWord(mem, at, reg, n) ==
  [b \in DOMAIN mem |-> IF b \in at..(at + n - 1) THEN reg[b - at] ELSE mem[b]]

finishAMD64 ==
  /\ phase = "finish" /\ goarch = "amd64" /\ phase' = "done"
  /\ buffer' = IF ret.kind = "struct" /\ registerSized(ret.size)
               THEN storeWord(buffer, 0, regs.r1, ret.size) ELSE buffer
  /\ UNCHANGED <<site, args, words, ngrn, nsrn, frame, regs>>

finishARM64 ==
  /\ phase = "finish" /\ goarch = "arm64" /\ phase' = "done"
  /\ \/ ret.kind # "struct" /\ UNCHANGED buffer
     \/ /\ ret.kind = "struct" /\ ret.hfa > 0
        /\ buffer' = [b \in DOMAIN buffer |->
             IF b < ret.hfa * ret.elem THEN regs.f[b \div ret.elem][b % ret.elem]
             ELSE buffer[b]]
     \/ /\ ret.kind = "struct" /\ ret.hfa = 0 /\ ret.size <= 8
        /\ buffer' = storeWord(buffer, 0, regs.r1, ret.size)
     \/ /\ ret.kind = "struct" /\ ret.hfa = 0 /\ ret.size \in 9..16
        /\ buffer' = storeWord(storeWord(buffer, 0, regs.r1, 8), 8, regs.r2, ret.size - 8)
     \/ ret.kind = "struct" /\ ret.hfa = 0 /\ ret.size > 16 /\ UNCHANGED buffer
  /\ UNCHANGED <<site, args, words, ngrn, nsrn, frame, regs>>

Next ==
  \/ \E a \in family.args :
       PlanAMD64(a) \/ PutInt(a) \/ PutFloat(a) \/ PutHFA(a) \/ PutComposite(a)
  \/ EndPlan \/ CalleeReturns \/ finishAMD64 \/ finishARM64

Spec == Init /\ [][Next]_vars

-----------------------------------------------------------------------------
(* Properties *)

\* Every field of the frame keeps its Go type; the register counters never
\* run past the register file.
TypeOK ==
  /\ family \in Families /\ goarch = family.goarch /\ ret \in family.rets
  /\ args \in Seq(family.args)
  /\ Len(args) <= family.maxArgs /\ words \in 0..(family.maxArgs + 1)
  /\ ngrn \in 0..NRegs /\ nsrn \in 0..NRegs
  /\ \A file \in {ints, floats} :
       DOMAIN file = 0..NRegs-1 /\ \A r \in 0..NRegs-1 : file[r] \in Nat \X Nat
  /\ stack \in Seq(Nat \X Nat) /\ x8 \in {Zero, RetPtr}
  /\ phase \in {"plan", "call", "finish", "done", "panic"}

\* Where file (a register file, or the stack) holds parts of argument i.
In(file, i) == {r \in DOMAIN file : file[r][1] = i}

\* file holds the n parts of argument i, in order and next to each other.
Holds(file, i, n) ==
  \E lo \in DOMAIN file :
    /\ In(file, i) = lo..(lo + n - 1)
    /\ \A k \in 0..n-1 : file[lo + k] = <<i, k>>

IsFloating(a) == a.kind = "float" \/ (a.kind = "struct" /\ a.hfa > 0)
Registers(a) == IF IsFloating(a) THEN floats ELSE ints
Others(a)    == IF IsFloating(a) THEN ints ELSE floats

\* How many registers, and how many stack words, AAPCS64 gives an argument.
RegParts(a) == IF a.kind = "struct" /\ a.hfa > 0 THEN a.hfa
               ELSE IF a.kind = "struct" /\ a.size <= 16 THEN WordsOf(a.size) ELSE 1
StackParts(a) == IF a.kind = "struct" /\ (a.hfa > 0 \/ a.size <= 16)
                 THEN WordsOf(a.size) ELSE 1

\* A 16-byte-aligned composite starts at an even X register or at an even word
\* of the outgoing stack area (planARM64, appendComposite).
Aligned16 ==
  goarch = "arm64" =>
    \A i \in {k \in 1..Len(args) : args[k].align >= 16 /\ args[k].size <= 16} :
      /\ \A r \in In(ints, i) : ints[r][2] = 0 => r % 2 = 0
      /\ \A s \in In(stack, i) : stack[s][2] = 0 => (s - 1) % 2 = 0

\* Whatever was passed before it, an argument is placed exactly once and in
\* one piece: wholly in the register file of its class, or wholly on the
\* stack, never split or overwritten by a later one (planARM64); on x64
\* wholly at its position, in both register files below four (planAMD64). What
\* has to be is aligned.
PlacedWhole ==
  /\ Aligned16
  /\ \A i \in 1..Len(args) :
       LET a == args[i]
           n == IF HiddenRet(goarch, ret) THEN i ELSE i - 1  \* position on x64
       IN
       IF goarch = "arm64"
       THEN /\ In(Others(a), i) = {}
            /\ \/ Holds(Registers(a), i, RegParts(a)) /\ In(stack, i) = {}
               \/ Holds(stack, i, StackParts(a)) /\ In(Registers(a), i) = {}
       ELSE IF n < 4
       THEN In(ints, i) = {n} /\ In(floats, i) = {n} /\ In(stack, i) = {}
       ELSE In(ints, i) = {} /\ In(floats, i) = {} /\ In(stack, i) = {n - 3}

\* Arguments keep their order in each place, and once an argument of a class
\* went to the stack no later one of that class takes a register: the callee
\* would look for it on the stack (NGRN and NSRN of planARM64).
NoBackfill ==
  goarch = "arm64" =>
    \A i, j \in 1..Len(args) : i < j =>
      LET a == args[i]  b == args[j] IN
      /\ IsFloating(a) = IsFloating(b) /\ In(stack, i) # {} => In(stack, j) # {}
      /\ \A s \in In(stack, i), t \in In(stack, j) : s < t
      /\ \A f \in {ints, floats} : \A s \in In(f, i), t \in In(f, j) : s < t

\* After the call the caller's buffer holds the returned composite, every
\* byte of it, whichever registers or memory the ABI returned it in
\* (finishAMD64, finishARM64, the hidden pointer and X8).
ReturnComplete ==
  phase = "done" /\ ret.kind = "struct" => \A b \in 0..ret.size-1 : buffer[b] = b

\* The generator refuses any call site that could need more stack words than
\* the trampolines reserve, so Call never has to (the comment on
\* maxStackWords, and functions.go's maxCallWords).
CallNeverPanics == phase # "panic"

(* The inductive invariant: where the words of the arguments so far are, and   *)
(* where none are yet.                                                         *)

\* planAMD64: word n of the call, behind the hidden pointer if there is one.
Hidden == IF HiddenRet(goarch, ret) THEN 1 ELSE 0
TokenAt(n) == IF n >= words THEN Zero ELSE IF n < Hidden THEN RetPtr ELSE <<n - Hidden + 1, 0>>

AMD64Inv ==
  goarch = "amd64" =>
    /\ words = Len(args) + Hidden /\ floats = ints
    /\ \A r \in 0..NRegs-1 : ints[r] = IF r < 4 THEN TokenAt(r) ELSE Zero
    /\ Len(stack) = IF words > 4 THEN words - 4 ELSE 0
    /\ \A s \in 1..Len(stack) : stack[s] = TokenAt(s + 3)

\* planARM64: registers from the next one on are untouched, and a class that
\* spilled has no next one.
Untouched(file, next) == \A r \in DOMAIN file : r >= next => file[r] = Zero
NextReg(a) == IF IsFloating(a) THEN nsrn ELSE ngrn

ARM64Inv ==
  goarch = "arm64" =>
    /\ Untouched(ints, ngrn) /\ Untouched(floats, nsrn)
    /\ \A file \in {ints, floats, stack} : \A r \in DOMAIN file : file[r][1] <= Len(args)
    /\ \A i \in 1..Len(args) : In(stack, i) # {} => NextReg(args[i]) = NRegs

\* The value a finished call returned, on its way to the buffer: stored by the
\* callee, in the V registers of its elements, or in the two result registers.
InMemory == HiddenRet(goarch, ret) \/ UsesX8(goarch, ret)
InElements == goarch = "arm64" /\ ret.hfa > 0

ReturnInv ==
  LET size == ret.size IN
  /\ DOMAIN buffer = 0..size-1
  /\ phase \in {"plan", "call"} => regs = ZeroRegs
  /\ phase = "finish" /\ ret.kind = "struct" =>
       /\ InMemory => \A b \in 0..size-1 : buffer[b] = b
       /\ InElements => \A e \in 0..ret.hfa-1 : \A b \in 0..ret.elem-1 : regs.f[e][b] = e * ret.elem + b
       /\ ~InMemory /\ ~InElements =>
            \A b \in 0..7 : (b < size => regs.r1[b] = b) /\ (b + 8 < size => regs.r2[b] = b + 8)
  /\ ReturnComplete

\* Call panics for one reason only, and the generator bounds the arguments.
LimitInv ==
  /\ Len(args) <= maxCallWords
  /\ phase = "panic" => Len(stack) > maxStackWords

IInv == TypeOK /\ AMD64Inv /\ ARM64Inv /\ PlacedWhole /\ NoBackfill /\ ReturnInv /\ LimitInv
=============================================================================
