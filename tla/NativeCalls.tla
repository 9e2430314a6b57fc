----------------------------- MODULE NativeCalls ----------------------------
(***************************************************************************)
(* Native calls of generated code, and what survives a callback: the pooled *)
(* frames of Call (bindings/runtime/win32/call.go), and the variables that  *)
(* callees write results to (outparam.go and the argument words             *)
(* internal/codegen/emit/raw emits).                                        *)
(*                                                                          *)
(* Concurrent and re-entrant calls share framePool, a callee may call back  *)
(* into Go and make further calls on the same goroutine before it returns,  *)
(* the goroutine's stack may move while Go code runs there, the garbage     *)
(* collector empties the pool at will, and a Call that panics never puts    *)
(* its frame back. CallPlan models what one plan writes; here a field of a  *)
(* frame only remembers for which call it was last written.                 *)
(***************************************************************************)
EXTENDS Naturals

CONSTANTS
  Goroutines,   \* goroutines that make calls
  MaxCalls,     \* bound: the calls of a run
  MaxFrames,    \* bound: heap objects of type callFrame
  MaxMoves,     \* bound: how often a goroutine's stack moves
  Routes,       \* how the run's calls are dispatched and pass their out-pointer
  None          \* no call, no frame; the zero value of a frame's field

Calls == 1..MaxCalls
Frames == 1..MaxFrames

\* A generated body dispatches through win32.Call or SyscallN. The variable its
\* callee writes to is a local made with OutParam (an elevated [out,retval]
\* result, a buffer for a returned composite), or the target of a slice or a
\* pointer the caller passed, converted in the argument list.
AllRoutes == [via : {"Call", "SyscallN"}, pointee : {"outParam", "converted"}]

ASSUME RoutesAssumption ==
  /\ Routes \subseteq AllRoutes
  /\ MaxCalls \in Nat /\ MaxFrames \in Nat /\ MaxMoves \in Nat
  /\ None \notin Calls \cup Frames \cup Goroutines

\* Mutant of Escapes: OutParam left out, a plain new(T) that does not escape.
Escapes_PlainNew(route) == route.pointee = "converted" /\ route.via = "Call"

\* OutParam makes its variable escape. Call is go:uintptrescapes, so what its
\* argument list converts escapes too. SyscallN only keeps alive what it is
\* passed: that stays wherever the caller's escape analysis left it.
Escapes(route) == route.pointee = "outParam" \/ route.via = "Call"
Placements(route) == IF Escapes(route) THEN {"heap"} ELSE {"heap", "stack"}

\* What the caller's Spec makes Call do: argument words that fit in registers,
\* words that also need the stack, or more than maxStackWords of them.
Specs == {"registers", "stack", "tooMany"}

\* "new": not made yet; "got", "planned": before SyscallN; "native": the callee
\* runs; "captured": the trampoline has stored the result registers; "read":
\* Result is filled in; "direct": the callee of a SyscallN runs; "done",
\* "panicked": over.
PCs == {"new", "got", "planned", "native", "captured", "read", "direct", "done", "panicked"}
Holding == {"got", "planned", "native", "captured", "read"}
InCallee == {"native", "direct"}
Over == {"done", "panicked"}

VARIABLES
  pc,           \* per call
  spec,         \* per call: its kind of Spec
  frameOf,      \* per call: its local variable frame
  caller,       \* per call: the call whose callee called back into Go
  seen,         \* per call: the frame as the trampoline loaded it
  result,       \* per call: whose registers Result was filled from
  pointee,      \* per call: the variable its callee writes to
  current,      \* per goroutine: its innermost call
  panicking,    \* per goroutine: a panic is unwinding it
  base,         \* per goroutine: how often its stack has moved
  frames,       \* per frame: for which call each field was last written
  pool          \* framePool

callVars == <<pc, spec, frameOf, caller, seen, result>>
stackVars == <<pointee, base>>
vars == <<callVars, stackVars, current, panicking, frames, pool>>

\* The variable is new(T) or the caller's zero value. Heap addresses stay good,
\* and are alike whatever their route; an address on the stack of g only while
\* that stack is where it was when the word was made (at).
OnHeap == [place |-> "heap", of |-> None, on |-> None, at |-> 0, value |-> "zero"]
Pointee(place, g, route) ==
  IF place = "heap" THEN OnHeap
  ELSE [place |-> "stack", of |-> route, on |-> g, at |-> base[g], value |-> "zero"]
Pointees == [place : {"heap", "stack"}, of : AllRoutes \cup {None},
             on : Goroutines \cup {None}, at : 0..MaxMoves,
             value : {"zero", "written", "lost"}]
PointsAt(v) == v.place = "heap" \/ v.at = base[v.on]

FrameWords == LET Word == Calls \cup {None}
              IN  [fn : Word, regs : Word, stack : Word, out : Word]
Zeroed == [fn |-> None, regs |-> None, stack |-> None, out |-> None]

Init ==
  /\ pc = [c \in Calls |-> "new"]
  /\ spec = [c \in Calls |-> "registers"]
  /\ frameOf = [c \in Calls |-> None]
  /\ caller = [c \in Calls |-> None]
  /\ seen = [c \in Calls |-> Zeroed]
  /\ result = [c \in Calls |-> None]
  /\ current = [g \in Goroutines |-> None]
  /\ panicking = [g \in Goroutines |-> FALSE]
  /\ base = [g \in Goroutines |-> 0]
  /\ pointee = [c \in Calls |-> OnHeap]
  /\ frames = [f \in Frames |-> Zeroed]
  /\ pool = {}

\* Go code runs on g: at top level, or in a callback of the callee of its
\* innermost call.
RunsGo(g) == ~panicking[g] /\ (current[g] # None => pc[current[g]] \in InCallee)

\* Calls are interchangeable: they are made in the order of their numbers.
FirstNew(c) == pc[c] = "new" /\ \A d \in 1..(c - 1) : pc[d] # "new"

\* A frame no call and no pool refers to: memory new(callFrame) may return. Of
\* several, which are alike, the first.
Referenced(f) == f \in pool \/ \E c \in Calls : pc[c] \in Holding /\ frameOf[c] = f
Unreferenced(f) == ~Referenced(f) /\ \A e \in 1..(f - 1) : Referenced(e)

\* The record of call c begins: made on g, with its pointee where the compiler
\* put it.
Begin(g, c, to, s, route, place) ==
  /\ RunsGo(g) /\ FirstNew(c) /\ place \in Placements(route)
  /\ pc' = [pc EXCEPT ![c] = to]
  /\ spec' = [spec EXCEPT ![c] = s]
  /\ caller' = [caller EXCEPT ![c] = current[g]]
  /\ current' = [current EXCEPT ![g] = c]
  /\ pointee' = [pointee EXCEPT ![c] = Pointee(place, g, route)]
  /\ UNCHANGED <<seen, result, panicking, base>>

\* Call c of g ends, and its locals with it.
End(g, c, how) ==
  /\ pc' = [pc EXCEPT ![c] = how]
  /\ spec' = [spec EXCEPT ![c] = "registers"]
  /\ frameOf' = [frameOf EXCEPT ![c] = None]
  /\ caller' = [caller EXCEPT ![c] = None]
  /\ seen' = [seen EXCEPT ![c] = Zeroed]
  /\ result' = [result EXCEPT ![c] = None]
  /\ pointee' = [pointee EXCEPT ![c] = OnHeap]
  /\ current' = [current EXCEPT ![g] = caller[c]]
  /\ UNCHANGED base

\* Mutant of Get: a pooled frame is used without being taken out.
Get_LeavesPooled(g, c, s, f, route, place) ==
  /\ route.via = "Call"
  /\ Begin(g, c, "got", s, route, place)
  /\ \/ f \in pool /\ UNCHANGED <<frames, pool>>
     \/ Unreferenced(f) /\ frames' = [frames EXCEPT ![f] = Zeroed] /\ UNCHANGED pool
  /\ frameOf' = [frameOf EXCEPT ![c] = f]

\* Call checks its arguments, and takes a pooled frame or a new one. sync.Pool
\* may allocate although it holds frames (they belong to other Ps).
Get(g, c, s, f, route, place) ==
  /\ route.via = "Call"
  /\ Begin(g, c, "got", s, route, place)
  /\ \/ f \in pool /\ pool' = pool \ {f} /\ UNCHANGED frames
     \/ Unreferenced(f) /\ frames' = [frames EXCEPT ![f] = Zeroed] /\ UNCHANGED pool
  /\ frameOf' = [frameOf EXCEPT ![c] = f]

\* A call dispatched through SyscallN enters its callee without a frame.
CallDirect(g, c, route, place) ==
  /\ route.via = "SyscallN"
  /\ Begin(g, c, "direct", "registers", route, place)
  /\ UNCHANGED <<frameOf, frames, pool>>

\* The argument count does not match the Spec: panic before a frame is taken.
Mismatch(g, c) ==
  /\ RunsGo(g) /\ FirstNew(c) /\ \E route \in Routes : route.via = "Call"
  /\ pc' = [pc EXCEPT ![c] = "panicked"]
  /\ panicking' = [panicking EXCEPT ![g] = TRUE]
  /\ UNCHANGED <<spec, frameOf, caller, seen, result, current, stackVars, frames, pool>>

\* *frame = callFrame{fn: fn}, the plan, and nstack/stack when there are stack
\* words.
Planned(c) == [fn |-> c, regs |-> c, out |-> None,
               stack |-> IF spec[c] = "registers" THEN None ELSE c]
\* Mutant of WritePlan: the frame is not zeroed before it is filled in.
WritePlan_NoReset(f, c) ==
  [frames EXCEPT ![f] = [Planned(c) EXCEPT !.stack =
     IF spec[c] = "registers" THEN frames[f].stack ELSE c]]

WritePlan(f, c) == [frames EXCEPT ![f] = Planned(c)]

Plan(g) ==
  LET c == current[g] IN
  /\ c # None /\ pc[c] = "got" /\ spec[c] # "tooMany"
  /\ frames' = WritePlan(frameOf[c], c)
  /\ pc' = [pc EXCEPT ![c] = "planned"]
  /\ UNCHANGED <<stackVars, spec, frameOf, caller, seen, result, current, panicking, pool>>

\* Too many stack words: panic with the frame taken; it is not put back.
TooMany(g) ==
  LET c == current[g] IN
  /\ c # None /\ pc[c] = "got" /\ spec[c] = "tooMany"
  /\ frames' = [frames EXCEPT ![frameOf[c]] = [Planned(c) EXCEPT !.stack = None]]
  /\ End(g, c, "panicked")
  /\ panicking' = [panicking EXCEPT ![g] = TRUE]
  /\ UNCHANGED pool

\* External: the panic unwinds through the native frames of the enclosing call,
\* whose own frame is lost too, or is recovered in the Go code that runs there.
Unwind(g) ==
  LET c == current[g] IN
  /\ panicking[g] /\ c # None
  /\ End(g, c, "panicked")
  /\ UNCHANGED <<panicking, frames, pool>>

Recover(g) ==
  /\ panicking[g]
  /\ panicking' = [panicking EXCEPT ![g] = FALSE]
  /\ UNCHANGED <<stackVars, callVars, current, frames, pool>>

\* SyscallN enters the trampoline, which loads registers and stack words.
Enter(g) ==
  LET c == current[g] IN
  /\ c # None /\ pc[c] = "planned"
  /\ seen' = [seen EXCEPT ![c] = frames[frameOf[c]]]
  /\ pc' = [pc EXCEPT ![c] = "native"]
  /\ UNCHANGED <<stackVars, spec, frameOf, caller, result, current, panicking, frames, pool>>

\* Mutant of Capture: the frame is put back before the result is read from it.
Capture_PutsEarly(g) ==
  LET c == current[g] IN
  /\ ~panicking[g] /\ c # None /\ pc[c] = "native"
  /\ frames' = [frames EXCEPT ![frameOf[c]].out = c]
  /\ pool' = pool \cup {frameOf[c]}
  /\ pc' = [pc EXCEPT ![c] = "captured"]
  /\ UNCHANGED <<stackVars, spec, frameOf, caller, seen, result, current, panicking>>

\* The callee returns: the trampoline stores RAX/X0, RDX/X1, XMM0/D0-D3 in the
\* frame whose address it kept on its own stack.
Capture(g) ==
  LET c == current[g] IN
  /\ ~panicking[g] /\ c # None /\ pc[c] = "native"
  /\ frames' = [frames EXCEPT ![frameOf[c]].out = c]
  /\ pc' = [pc EXCEPT ![c] = "captured"]
  /\ UNCHANGED <<stackVars, spec, frameOf, caller, seen, result, current, panicking, pool>>

\* finish, and the Result read from the frame ...
ReadResult(g) ==
  LET c == current[g] IN
  /\ c # None /\ pc[c] = "captured"
  /\ result' = [result EXCEPT ![c] = frames[frameOf[c]].out]
  /\ pc' = [pc EXCEPT ![c] = "read"]
  /\ UNCHANGED <<stackVars, spec, frameOf, caller, seen, current, panicking, frames, pool>>

\* Mutant of Put: a pool with room for one frame that makes the next Put wait.
Put_Bounded(g) ==
  LET c == current[g] IN
  /\ c # None /\ pc[c] = "read" /\ pool = {}
  /\ pool' = pool \cup {frameOf[c]}
  /\ End(g, c, "done")
  /\ UNCHANGED <<panicking, frames>>

\* ... and only then framePool.Put, and the return.
Put(g) ==
  LET c == current[g] IN
  /\ c # None /\ pc[c] = "read"
  /\ pool' = pool \cup {frameOf[c]}
  /\ End(g, c, "done")
  /\ UNCHANGED <<panicking, frames>>

\* External: the garbage collector clears (part of) a sync.Pool.
Collect(f) ==
  /\ f \in pool /\ pool' = pool \ {f}
  /\ UNCHANGED <<stackVars, callVars, current, panicking, frames>>

\* SyscallN returns and the body reads its variable.
ReturnDirect(g) ==
  LET c == current[g] IN
  /\ ~panicking[g] /\ c # None /\ pc[c] = "direct"
  /\ End(g, c, "done")
  /\ UNCHANGED <<panicking, frames, pool>>

\* External: the callee of g's innermost call stores its result through the
\* address it was given, in the variable or in what was once its place.
CalleeWrites(g) ==
  LET c == current[g] IN
  /\ ~panicking[g] /\ c # None /\ pc[c] \in InCallee /\ pointee[c].value = "zero"
  /\ pointee' = [pointee EXCEPT ![c].value =
                    IF PointsAt(pointee[c]) THEN "written" ELSE "lost"]
  /\ UNCHANGED <<callVars, current, panicking, base, frames, pool>>

\* External: the stack grows, or a concurrent collection shrinks it, while Go
\* code runs on g: before a call, or in a syscall.NewCallback function or a
\* method of a Go-implemented COM object that a callee has called.
StackMoves(g) ==
  /\ RunsGo(g) /\ base[g] < MaxMoves
  /\ base' = [base EXCEPT ![g] = @ + 1]
  /\ UNCHANGED <<callVars, pointee, current, panicking, frames, pool>>

Step(g) ==
  \/ Plan(g) \/ TooMany(g) \/ Unwind(g) \/ Recover(g)
  \/ Enter(g) \/ Capture(g) \/ ReadResult(g) \/ Put(g) \/ ReturnDirect(g)

Next ==
  \/ \E g \in Goroutines, c \in Calls, route \in Routes, place \in {"heap", "stack"} :
       \/ \E s \in Specs, f \in Frames : Get(g, c, s, f, route, place)
       \/ CallDirect(g, c, route, place)
  \/ \E g \in Goroutines, c \in Calls : Mismatch(g, c)
  \/ \E g \in Goroutines : Step(g) \/ CalleeWrites(g) \/ StackMoves(g)
  \/ \E f \in Frames : Collect(f)

Spec == Init /\ [][Next]_vars

\* Goroutines are scheduled and callees return; nobody has to make a call.
FairSpec == Spec /\ \A g \in Goroutines : WF_vars(Step(g))

-----------------------------------------------------------------------------
(* Properties *)

\* Every variable keeps its Go type, and every word of a frame belongs to a call.
TypeOK ==
  /\ pc \in [Calls -> PCs] /\ spec \in [Calls -> Specs]
  /\ frameOf \in [Calls -> Frames \cup {None}]
  /\ caller \in [Calls -> Calls \cup {None}]
  /\ seen \in [Calls -> FrameWords]
  /\ result \in [Calls -> Calls \cup {None}]
  /\ current \in [Goroutines -> Calls \cup {None}]
  /\ panicking \in [Goroutines -> BOOLEAN]
  /\ frames \in [Frames -> FrameWords]
  /\ pool \subseteq Frames
  /\ base \in [Goroutines -> 0..MaxMoves]
  /\ pointee \in [Calls -> Pointees]

\* A frame is referenced by one call at most, however deep callbacks nest, and
\* is in the pool only when no call uses it (the comment on framePool).
FrameExclusive ==
  \A c \in Calls : pc[c] \in Holding =>
    /\ frameOf[c] \notin pool
    /\ \A d \in Calls \ {c} : pc[d] \in Holding => frameOf[d] # frameOf[c]

\* The trampoline loads this call's function, registers and stack words, and no
\* word an earlier user of the recycled frame left behind.
CalleeSeesItsCall ==
  \A c \in Calls : pc[c] \in {"native", "captured", "read"} => seen[c] = Planned(c)

\* The registers a call returns are those its own callee returned, not those of
\* a call made meanwhile from a callback or on another goroutine.
OwnResult ==
  \A c \in Calls : pc[c] = "read" => result[c] = c

\* Whatever callbacks run and however stacks move meanwhile, what the callee
\* wrote is what the generated body reads (win32.OutParam, Call's
\* go:uintptrescapes). The one exception is a pointer that is converted straight
\* into the arguments of SyscallN, and that only when the stack it points into
\* has moved since, in a callback of that callee: buildFunction passes slices and
\* callers' pointers so, which outparam.go's "every pointer handed to native code for
\* WRITING is heap-allocated" does not allow for.
WritesReachGo ==
  \A c \in Calls : pointee[c].value = "lost" =>
    /\ pointee[c].of = [via |-> "SyscallN", pointee |-> "converted"]
    /\ pointee[c].at < base[pointee[c].on]

(* The inductive invariant of the frames: what a call that holds a frame finds
   in it. The callee's registers are in the frame from Capture until Put.      *)

\* A call that got a frame keeps it until it ends.
HoldsFrame == \A c \in Calls : pc[c] \in Holding => frameOf[c] \in Frames

\* The frame still holds what the plan wrote when the trampoline loads it ...
PlanStands ==
  \A c \in Calls : pc[c] = "planned" => frames[frameOf[c]] = Planned(c)

\* ... and what the trampoline stored when the Result is read.
CaptureStands ==
  \A c \in Calls : pc[c] = "captured" => frames[frameOf[c]].out = c

\* Only what SyscallN is passed unaided points into a stack, and only an address
\* whose stack has moved since is wrong.
StackPointees ==
  \A c \in Calls :
    /\ pointee[c].place = "stack" =>
         /\ pointee[c].of = [via |-> "SyscallN", pointee |-> "converted"]
         /\ pointee[c].on \in Goroutines /\ pointee[c].at <= base[pointee[c].on]
    /\ pointee[c].value = "lost" =>
         pointee[c].place = "stack" /\ pointee[c].at < base[pointee[c].on]

IInv ==
  /\ TypeOK /\ FrameExclusive /\ HoldsFrame /\ PlanStands /\ CalleeSeesItsCall
  /\ CaptureStands /\ OwnResult /\ StackPointees

\* Every call that is made ends, by returning or by the panic of a call made
\* from its callback.
EveryCallEnds == \A c \in Calls : pc[c] # "new" ~> pc[c] \in Over
=============================================================================
