----------------------------- MODULE MCCallPlan -----------------------------
(* Argument and return shapes for the CallPlan runs.                         *)
EXTENDS CallPlan

Doubles(n) == Struct(8 * n, 8, n, TRUE)
Floats(n)  == Struct(4 * n, 4, n, FALSE)

\* A word, a float, HFAs that fill V registers in ones, threes and fours, small
\* composites of one and two words, a 16-byte-aligned one, and one that is
\* copied.
MixedArgs == {Word, Float64, Floats(3), Doubles(4), Struct(8, 8, 0, FALSE),
              Struct(12, 4, 0, FALSE), Struct(16, 16, 0, FALSE),
              Struct(24, 8, 0, FALSE)}
MixedRets == {Word, Struct(24, 8, 0, FALSE)}

OneWord == {Word}
\* What leaves an odd X register or an odd number of stack words behind, and
\* what must not start there.
PairArgs == {Word, Struct(12, 4, 0, FALSE), Struct(16, 16, 0, FALSE)}
FewArgs == {Word, Doubles(4)}

\* Composite returns on both sides of every size test.
AllRets == {Word, Float64} \cup {Floats(n) : n \in 1..4} \cup {Doubles(n) : n \in 1..4}
           \cup {Struct(n, 1, 0, FALSE) : n \in 1..18}

\* The hidden pointer of x64 present and absent.
LimitRets == {Word, Struct(3, 1, 0, FALSE)}

Family(arch, as, rs, n) == [goarch |-> arch, args |-> as, rets |-> rs, maxArgs |-> n]

\* Mixtures of all shapes; runs of pairs that fill the registers and go on to
\* the stack; all returns; and call sites up to the generator's limit.
SupportedFamilies ==
  {Family(arch, MixedArgs, MixedRets, 5) : arch \in {"amd64", "arm64"}}
  \cup {Family("arm64", PairArgs, OneWord, 9)}
  \cup {Family(arch, FewArgs, AllRets, 2) : arch \in {"amd64", "arm64"}}
  \cup {Family("amd64", OneWord, LimitRets, 50)}

\* HFAs up to the generator's limit.
HFAFamily == {Family("arm64", {Doubles(4)}, OneWord, 50)}
=============================================================================
