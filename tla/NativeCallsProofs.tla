-------------------------- MODULE NativeCallsProofs -------------------------
(***************************************************************************)
(* The frames of Call are never shared, for any number of goroutines, calls *)
(* and frames and any nesting of callbacks, so that a callee sees its own   *)
(* call and a caller its own result; and a result that OutParam or Call     *)
(* keeps on the heap is never lost, however often stacks move.              *)
(***************************************************************************)
EXTENDS NativeCalls, TLAPS

\* A variable that was written is still one.
LEMMA WrittenPointee ==
  \A p \in Pointees, v \in {"written", "lost"} : [p EXCEPT !.value = v] \in Pointees
BY DEF Pointees

\* What the code writes in a frame, and a variable it makes, have their types.
LEMMA RecordTypes ==
  ASSUME TypeOK
  PROVE  /\ Zeroed \in FrameWords
         /\ \A c \in Calls : Planned(c) \in FrameWords
         /\ \A place \in {"heap", "stack"}, g \in Goroutines, route \in Routes :
              Pointee(place, g, route) \in Pointees
         /\ OnHeap \in Pointees
<1> USE RoutesAssumption
<1>1. Zeroed \in FrameWords
  BY DEF Zeroed, FrameWords
<1>2. ASSUME NEW c \in Calls PROVE Planned(c) \in FrameWords
  BY DEF Planned, FrameWords
<1>4. OnHeap \in Pointees
  BY DEF OnHeap, Pointees
<1>3. ASSUME NEW place \in {"heap", "stack"}, NEW g \in Goroutines, NEW route \in Routes
      PROVE  Pointee(place, g, route) \in Pointees
  <2>1. base[g] \in 0..MaxMoves /\ route \in AllRoutes
    BY DEF TypeOK
  <2> QED
    BY <1>4, <2>1 DEF Pointee, Pointees
<1> QED
  BY <1>1, <1>2, <1>3, <1>4

\* No call is made and no frame allocated at start.
LEMMA InitTypeOK == Init => TypeOK
<1> SUFFICES ASSUME Init PROVE TypeOK
  OBVIOUS
<1>1. Zeroed \in FrameWords
  BY DEF Zeroed, FrameWords
<1> QED
  BY <1>1, RoutesAssumption DEF Init, TypeOK, PCs, Specs, OnHeap, Pointees

\* No step of a call, a callee, the collector or the stack leaves the types.
LEMMA NextTypeOK == TypeOK /\ HoldsFrame /\ [Next]_vars => TypeOK'
<1> SUFFICES ASSUME TypeOK, HoldsFrame, [Next]_vars PROVE TypeOK'
  OBVIOUS
<1> USE RoutesAssumption, RecordTypes DEF TypeOK, callVars, stackVars, PCs, Specs
<1>1. ASSUME NEW g \in Goroutines, NEW c \in Calls, NEW s \in Specs, NEW f \in Frames,
             NEW route \in Routes, NEW place \in {"heap", "stack"},
             Get(g, c, s, f, route, place)
      PROVE  TypeOK'
  <2>1. frames' \in [Frames -> FrameWords] /\ pool' \subseteq Frames
    BY <1>1 DEF Get
  <2> QED
    BY <1>1, <2>1 DEF Get, Begin
<1>2. ASSUME NEW g \in Goroutines, NEW c \in Calls, NEW route \in Routes,
             NEW place \in {"heap", "stack"}, CallDirect(g, c, route, place)
      PROVE  TypeOK'
  BY <1>2 DEF CallDirect, Begin
<1>3. ASSUME NEW g \in Goroutines, NEW c \in Calls, Mismatch(g, c) PROVE TypeOK'
  BY <1>3 DEF Mismatch
<1>4. ASSUME NEW g \in Goroutines, Plan(g) PROVE TypeOK'
  BY <1>4 DEF Plan, WritePlan
<1>5. ASSUME NEW g \in Goroutines, TooMany(g) PROVE TypeOK'
  <2>1. [Planned(current[g]) EXCEPT !.stack = None] \in FrameWords
    BY <1>5 DEF TooMany, FrameWords, Planned
  <2> QED
    BY <1>5, <2>1 DEF TooMany, End
<1>6. ASSUME NEW g \in Goroutines, Unwind(g) PROVE TypeOK'
  BY <1>6 DEF Unwind, End
<1>7. ASSUME NEW g \in Goroutines, Recover(g) PROVE TypeOK'
  BY <1>7 DEF Recover
<1>8. ASSUME NEW g \in Goroutines, Enter(g) PROVE TypeOK'
  BY <1>8 DEF Enter, HoldsFrame, Holding
<1>9. ASSUME NEW g \in Goroutines, Capture(g) PROVE TypeOK'
  <2>1. frames' \in [Frames -> FrameWords]
    BY <1>9 DEF Capture, FrameWords, HoldsFrame, Holding
  <2> QED
    BY <1>9, <2>1 DEF Capture
<1>10. ASSUME NEW g \in Goroutines, ReadResult(g) PROVE TypeOK'
  <2>1. frames[frameOf[current[g]]].out \in Calls \cup {None}
    BY <1>10 DEF ReadResult, FrameWords, HoldsFrame, Holding
  <2> QED
    BY <1>10, <2>1 DEF ReadResult
<1>11. ASSUME NEW g \in Goroutines, Put(g) PROVE TypeOK'
  BY <1>11 DEF Put, End, HoldsFrame, Holding
<1>12. ASSUME NEW g \in Goroutines, ReturnDirect(g) PROVE TypeOK'
  BY <1>12 DEF ReturnDirect, End
<1>13. ASSUME NEW g \in Goroutines, CalleeWrites(g) PROVE TypeOK'
  <2>1. \A c \in Calls, v \in {"written", "lost"} :
          [pointee[c] EXCEPT !.value = v] \in Pointees
    BY WrittenPointee
  <2>2. PICK v \in {"written", "lost"} :
          pointee' = [pointee EXCEPT ![current[g]].value = v]
    BY <1>13 DEF CalleeWrites
  <2>3. pointee' \in [Calls -> Pointees]
    <3>1. current[g] \in Calls
      BY <1>13 DEF CalleeWrites
    <3>2. \A c \in Calls : pointee'[c] = IF c = current[g] THEN [pointee[c] EXCEPT !.value = v] ELSE pointee[c]
      BY <2>2, <3>1
    <3> QED
      BY <2>1, <2>2, <3>1, <3>2
  <2> QED
    BY <1>13, <2>3 DEF CalleeWrites
<1>14. ASSUME NEW g \in Goroutines, StackMoves(g) PROVE TypeOK'
  BY <1>14 DEF StackMoves
<1>15. ASSUME NEW f \in Frames, Collect(f) PROVE TypeOK'
  BY <1>15 DEF Collect
<1>16. CASE UNCHANGED vars
  BY <1>16 DEF vars
<1>17. ASSUME NEW g \in Goroutines, Step(g) PROVE TypeOK'
  BY <1>4, <1>5, <1>6, <1>7, <1>8, <1>9, <1>10, <1>11, <1>12, <1>17 DEF Step
<1>18. ASSUME NEW g \in Goroutines, NEW c \in Calls, NEW route \in Routes,
              NEW place \in {"heap", "stack"},
              \/ \E s \in Specs, f \in Frames : Get(g, c, s, f, route, place)
              \/ CallDirect(g, c, route, place)
       PROVE  TypeOK'
  BY <1>1, <1>2, <1>18
<1>19. ASSUME NEW g \in Goroutines, Step(g) \/ CalleeWrites(g) \/ StackMoves(g) PROVE TypeOK'
  BY <1>13, <1>14, <1>17, <1>19
<1>20. CASE Next
  BY <1>3, <1>15, <1>18, <1>19, <1>20 DEF Next
<1> QED
  BY <1>16, <1>20

\* Nobody holds a frame at start.
LEMMA InitIInv == Init => IInv
BY InitTypeOK
   DEF Init, IInv, FrameExclusive, HoldsFrame, PlanStands, CalleeSeesItsCall,
       CaptureStands, OwnResult, Holding, StackPointees, OnHeap

\* A stack that moves makes addresses into it wrong, and a callee that writes then
\* finds out; variables of the guarded routes are not on any stack.
LEMMA NextStackPointees == TypeOK /\ StackPointees /\ [Next]_vars => StackPointees'
<1> SUFFICES ASSUME TypeOK, StackPointees, [Next]_vars PROVE StackPointees'
  OBVIOUS
<1> USE RoutesAssumption DEF callVars, stackVars
<1>0. /\ pointee \in [Calls -> Pointees] /\ base \in [Goroutines -> 0..MaxMoves]
      /\ \A c \in Calls : pointee[c].at \in Nat
      /\ \A g \in Goroutines : base[g] \in Nat
  BY DEF TypeOK, Pointees
<1>1. ASSUME NEW g \in Goroutines, NEW c \in Calls, NEW route \in Routes,
             NEW place \in {"heap", "stack"}, NEW s \in Specs, NEW to,
             Begin(g, c, to, s, route, place)
      PROVE  StackPointees'
  <2>1. /\ pointee' = [pointee EXCEPT ![c] = Pointee(place, g, route)] /\ base' = base
        /\ place \in Placements(route)
    BY <1>1 DEF Begin
  <2>2. CASE place = "heap"
    <3>1. pointee' = [pointee EXCEPT ![c] = OnHeap]
      BY <2>1, <2>2 DEF Pointee
    <3> QED
      BY <1>0, <2>1, <3>1 DEF StackPointees, OnHeap
  <2>3. CASE place = "stack"
    <3>1. route = [via |-> "SyscallN", pointee |-> "converted"]
      <4>1. route \in AllRoutes /\ ~Escapes(route)
        BY <2>1, <2>3 DEF Placements
      <4>2. route = [via |-> route.via, pointee |-> route.pointee]
        BY <4>1 DEF AllRoutes
      <4>3. route.via = "SyscallN" /\ route.pointee = "converted"
        BY <4>1 DEF AllRoutes, Escapes
      <4> QED
        BY <4>2, <4>3
    <3>2. pointee' = [pointee EXCEPT ![c] =
            [place |-> "stack", of |-> route, on |-> g, at |-> base[g], value |-> "zero"]]
      BY <2>1, <2>3 DEF Pointee
    <3> QED
      BY <1>0, <2>1, <3>1, <3>2 DEF StackPointees
  <2> QED
    BY <2>2, <2>3
<1>2. ASSUME NEW g \in Goroutines, NEW c \in Calls, NEW how, End(g, c, how)
      PROVE  StackPointees'
  BY <1>0, <1>2 DEF End, OnHeap, StackPointees
<1>3. ASSUME NEW g \in Goroutines, CalleeWrites(g) PROVE StackPointees'
  <2> DEFINE c == current[g]
  <2>1. /\ c \in Calls /\ base' = base
        /\ pointee' = [pointee EXCEPT ![c].value =
                          IF PointsAt(pointee[c]) THEN "written" ELSE "lost"]
    BY <1>3 DEF CalleeWrites, TypeOK
  <2> HIDE DEF c
  <2>2. pointee[c] \in Pointees /\ \A d \in Calls \ {c} : pointee'[d] = pointee[d]
    BY <1>0, <2>1
  <2>3. /\ pointee'[c].place = pointee[c].place /\ pointee'[c].of = pointee[c].of
        /\ pointee'[c].on = pointee[c].on /\ pointee'[c].at = pointee[c].at
        /\ pointee'[c].value = "lost" => ~PointsAt(pointee[c])
    BY <1>0, <2>1, <2>2 DEF Pointees
  <2>4. ~PointsAt(pointee[c]) =>
          pointee[c].place = "stack" /\ pointee[c].at < base[pointee[c].on]
    <3>1. SUFFICES ASSUME ~PointsAt(pointee[c])
                   PROVE  pointee[c].place = "stack" /\ pointee[c].at < base[pointee[c].on]
      OBVIOUS
    <3>2. pointee[c].place = "stack" /\ pointee[c].at # base[pointee[c].on]
      BY <2>2, <3>1 DEF PointsAt, Pointees
    <3>3. pointee[c].on \in Goroutines /\ pointee[c].at <= base[pointee[c].on]
      BY <2>1, <3>2 DEF StackPointees
    <3>4. pointee[c].at \in Nat /\ base[pointee[c].on] \in Nat
      BY <1>0, <2>1, <3>3
    <3> QED
      BY <3>2, <3>3, <3>4
  <2> QED
    BY <2>1, <2>2, <2>3, <2>4 DEF StackPointees
<1>4. CASE UNCHANGED stackVars
  BY <1>4 DEF StackPointees
<1>5. ASSUME NEW g \in Goroutines, StackMoves(g) PROVE StackPointees'
  <2>1. pointee' = pointee /\ \A h \in Goroutines : base'[h] \in Nat /\ base[h] <= base'[h]
    BY <1>0, <1>5 DEF StackMoves
  <2> QED
    <3>1. \A a, b, c \in Nat : b <= c => (a <= b => a <= c) /\ (a < b => a < c)
      OBVIOUS
    <3> QED
      BY <1>0, <2>1, <3>1 DEF StackPointees
<1>6. ASSUME NEW g \in Goroutines, Step(g) PROVE StackPointees'
  <2>1. \A d \in Calls : current[g] = d => current[g] \in Calls
    OBVIOUS
  <2>2. current[g] # None => current[g] \in Calls
    BY DEF TypeOK
  <2> QED
    BY <1>2, <1>4, <1>6, <2>2 DEF Step, Plan, TooMany, Unwind, Recover, Enter, Capture,
       ReadResult, Put, ReturnDirect
<1> QED
  BY <1>1, <1>3, <1>4, <1>5, <1>6
     DEF Next, vars, Get, CallDirect, Mismatch, Collect, Specs

\* A frame passes from the pool, or from fresh memory, to one call and back; no
\* step of another call, of any goroutine, writes it in between.
LEMMA NextIInv == IInv /\ [Next]_vars => IInv'
<1> SUFFICES ASSUME IInv, [Next]_vars PROVE IInv'
  OBVIOUS
<1> USE RoutesAssumption DEF IInv, TypeOK, callVars, stackVars, Holding
<1>0. TypeOK' /\ StackPointees'
  BY NextTypeOK, NextStackPointees
<1>1. ASSUME NEW g \in Goroutines, NEW c \in Calls, NEW s \in Specs, NEW f \in Frames,
             NEW route \in Routes, NEW place \in {"heap", "stack"},
             Get(g, c, s, f, route, place)
      PROVE IInv'
  <2>1. FrameExclusive'
    BY <1>1 DEF Get, Begin, FirstNew, Unreferenced, Referenced, FrameExclusive, HoldsFrame
  <2>2. HoldsFrame'
    BY <1>1 DEF Get, Begin, FirstNew, Unreferenced, Referenced, HoldsFrame
  <2>3. PlanStands'
    BY <1>1 DEF Get, Begin, FirstNew, Unreferenced, Referenced, PlanStands, FrameExclusive, HoldsFrame, Planned
  <2>4. CalleeSeesItsCall'
    BY <1>1 DEF Get, Begin, FirstNew, Unreferenced, Referenced, CalleeSeesItsCall, PlanStands, Planned
  <2>5. CaptureStands'
    BY <1>1 DEF Get, Begin, FirstNew, Unreferenced, Referenced, CaptureStands, FrameExclusive, HoldsFrame, FrameWords
  <2>6. OwnResult'
    BY <1>1 DEF Get, Begin, FirstNew, Unreferenced, Referenced, OwnResult, CaptureStands
  <2> QED
    BY <1>0, <2>1, <2>2, <2>3, <2>4, <2>5, <2>6
<1>2. ASSUME NEW g \in Goroutines, NEW c \in Calls, NEW route \in Routes,
             NEW place \in {"heap", "stack"}, CallDirect(g, c, route, place)
      PROVE IInv'
  <2>1. FrameExclusive'
    BY <1>2 DEF CallDirect, Begin, FirstNew, FrameExclusive, HoldsFrame
  <2>2. HoldsFrame'
    BY <1>2 DEF CallDirect, Begin, FirstNew, HoldsFrame
  <2>3. PlanStands'
    BY <1>2 DEF CallDirect, Begin, FirstNew, PlanStands, FrameExclusive, HoldsFrame, Planned
  <2>4. CalleeSeesItsCall'
    BY <1>2 DEF CallDirect, Begin, FirstNew, CalleeSeesItsCall, PlanStands, Planned
  <2>5. CaptureStands'
    BY <1>2 DEF CallDirect, Begin, FirstNew, CaptureStands, FrameExclusive, HoldsFrame, FrameWords
  <2>6. OwnResult'
    BY <1>2 DEF CallDirect, Begin, FirstNew, OwnResult, CaptureStands
  <2> QED
    BY <1>0, <2>1, <2>2, <2>3, <2>4, <2>5, <2>6
<1>3. ASSUME NEW g \in Goroutines, NEW c \in Calls, Mismatch(g, c) PROVE IInv'
  BY <1>0, <1>3 DEF Mismatch, FirstNew, FrameExclusive, HoldsFrame, PlanStands,
     CalleeSeesItsCall, CaptureStands, OwnResult, Planned
<1>4. ASSUME NEW g \in Goroutines, Plan(g) PROVE IInv'
  <2>1. FrameExclusive'
    BY <1>4 DEF Plan, WritePlan, FrameExclusive, HoldsFrame
  <2>2. HoldsFrame'
    BY <1>4 DEF Plan, WritePlan, HoldsFrame
  <2>3. PlanStands'
    BY <1>4 DEF Plan, WritePlan, PlanStands, FrameExclusive, HoldsFrame, Planned
  <2>4. CalleeSeesItsCall'
    BY <1>4 DEF Plan, WritePlan, CalleeSeesItsCall, PlanStands, Planned
  <2>5. CaptureStands'
    BY <1>4 DEF Plan, WritePlan, CaptureStands, FrameExclusive, HoldsFrame, FrameWords
  <2>6. OwnResult'
    BY <1>4 DEF Plan, WritePlan, OwnResult, CaptureStands
  <2> QED
    BY <1>0, <2>1, <2>2, <2>3, <2>4, <2>5, <2>6
<1>5. ASSUME NEW g \in Goroutines, TooMany(g) PROVE IInv'
  <2>1. FrameExclusive'
    BY <1>5 DEF TooMany, End, FrameExclusive, HoldsFrame
  <2>2. HoldsFrame'
    BY <1>5 DEF TooMany, End, HoldsFrame
  <2>3. PlanStands'
    BY <1>5 DEF TooMany, End, PlanStands, FrameExclusive, HoldsFrame, Planned
  <2>4. CalleeSeesItsCall'
    BY <1>5 DEF TooMany, End, CalleeSeesItsCall, PlanStands, Planned
  <2>5. CaptureStands'
    BY <1>5 DEF TooMany, End, CaptureStands, FrameExclusive, HoldsFrame, FrameWords
  <2>6. OwnResult'
    BY <1>5 DEF TooMany, End, OwnResult, CaptureStands
  <2> QED
    BY <1>0, <2>1, <2>2, <2>3, <2>4, <2>5, <2>6
<1>6. ASSUME NEW g \in Goroutines, Unwind(g) PROVE IInv'
  <2>1. FrameExclusive'
    BY <1>6 DEF Unwind, End, FrameExclusive, HoldsFrame
  <2>2. HoldsFrame'
    BY <1>6 DEF Unwind, End, HoldsFrame
  <2>3. PlanStands'
    BY <1>6 DEF Unwind, End, PlanStands, FrameExclusive, HoldsFrame, Planned
  <2>4. CalleeSeesItsCall'
    BY <1>6 DEF Unwind, End, CalleeSeesItsCall, PlanStands, Planned
  <2>5. CaptureStands'
    BY <1>6 DEF Unwind, End, CaptureStands, FrameExclusive, HoldsFrame, FrameWords
  <2>6. OwnResult'
    BY <1>6 DEF Unwind, End, OwnResult, CaptureStands
  <2> QED
    BY <1>0, <2>1, <2>2, <2>3, <2>4, <2>5, <2>6
<1>7. ASSUME NEW g \in Goroutines, Recover(g) PROVE IInv'
  BY <1>0, <1>7 DEF Recover, FrameExclusive, HoldsFrame, PlanStands,
     CalleeSeesItsCall, CaptureStands, OwnResult, Planned
<1>8. ASSUME NEW g \in Goroutines, Enter(g) PROVE IInv'
  <2>1. FrameExclusive'
    BY <1>8 DEF Enter, FrameExclusive, HoldsFrame
  <2>2. HoldsFrame'
    BY <1>8 DEF Enter, HoldsFrame
  <2>3. PlanStands'
    BY <1>8 DEF Enter, PlanStands, FrameExclusive, HoldsFrame, Planned
  <2>4. CalleeSeesItsCall'
    BY <1>8 DEF Enter, CalleeSeesItsCall, PlanStands, Planned
  <2>5. CaptureStands'
    BY <1>8 DEF Enter, CaptureStands, FrameExclusive, HoldsFrame, FrameWords
  <2>6. OwnResult'
    BY <1>8 DEF Enter, OwnResult, CaptureStands
  <2> QED
    BY <1>0, <2>1, <2>2, <2>3, <2>4, <2>5, <2>6
<1>9. ASSUME NEW g \in Goroutines, Capture(g) PROVE IInv'
  <2>1. FrameExclusive'
    BY <1>9 DEF Capture, FrameExclusive, HoldsFrame
  <2>2. HoldsFrame'
    BY <1>9 DEF Capture, HoldsFrame
  <2>3. PlanStands'
    BY <1>9 DEF Capture, PlanStands, FrameExclusive, HoldsFrame, Planned
  <2>4. CalleeSeesItsCall'
    BY <1>9 DEF Capture, CalleeSeesItsCall, PlanStands, Planned
  <2>5. CaptureStands'
    BY <1>9 DEF Capture, CaptureStands, FrameExclusive, HoldsFrame, FrameWords
  <2>6. OwnResult'
    BY <1>9 DEF Capture, OwnResult, CaptureStands
  <2> QED
    BY <1>0, <2>1, <2>2, <2>3, <2>4, <2>5, <2>6
<1>10. ASSUME NEW g \in Goroutines, ReadResult(g) PROVE IInv'
  <2>1. FrameExclusive'
    BY <1>10 DEF ReadResult, FrameExclusive, HoldsFrame
  <2>2. HoldsFrame'
    BY <1>10 DEF ReadResult, HoldsFrame
  <2>3. PlanStands'
    BY <1>10 DEF ReadResult, PlanStands, FrameExclusive, HoldsFrame, Planned
  <2>4. CalleeSeesItsCall'
    BY <1>10 DEF ReadResult, CalleeSeesItsCall, PlanStands, Planned
  <2>5. CaptureStands'
    BY <1>10 DEF ReadResult, CaptureStands, FrameExclusive, HoldsFrame, FrameWords
  <2>6. OwnResult'
    BY <1>10 DEF ReadResult, OwnResult, CaptureStands
  <2> QED
    BY <1>0, <2>1, <2>2, <2>3, <2>4, <2>5, <2>6
<1>11. ASSUME NEW g \in Goroutines, Put(g) PROVE IInv'
  <2>1. FrameExclusive'
    BY <1>11 DEF Put, End, FrameExclusive, HoldsFrame
  <2>2. HoldsFrame'
    BY <1>11 DEF Put, End, HoldsFrame
  <2>3. PlanStands'
    BY <1>11 DEF Put, End, PlanStands, FrameExclusive, HoldsFrame, Planned
  <2>4. CalleeSeesItsCall'
    BY <1>11 DEF Put, End, CalleeSeesItsCall, PlanStands, Planned
  <2>5. CaptureStands'
    BY <1>11 DEF Put, End, CaptureStands, FrameExclusive, HoldsFrame, FrameWords
  <2>6. OwnResult'
    BY <1>11 DEF Put, End, OwnResult, CaptureStands
  <2> QED
    BY <1>0, <2>1, <2>2, <2>3, <2>4, <2>5, <2>6
<1>12. ASSUME NEW g \in Goroutines, ReturnDirect(g) PROVE IInv'
  <2>1. FrameExclusive'
    BY <1>12 DEF ReturnDirect, End, FrameExclusive, HoldsFrame
  <2>2. HoldsFrame'
    BY <1>12 DEF ReturnDirect, End, HoldsFrame
  <2>3. PlanStands'
    BY <1>12 DEF ReturnDirect, End, PlanStands, FrameExclusive, HoldsFrame, Planned
  <2>4. CalleeSeesItsCall'
    BY <1>12 DEF ReturnDirect, End, CalleeSeesItsCall, PlanStands, Planned
  <2>5. CaptureStands'
    BY <1>12 DEF ReturnDirect, End, CaptureStands, FrameExclusive, HoldsFrame, FrameWords
  <2>6. OwnResult'
    BY <1>12 DEF ReturnDirect, End, OwnResult, CaptureStands
  <2> QED
    BY <1>0, <2>1, <2>2, <2>3, <2>4, <2>5, <2>6
<1>13. ASSUME NEW g \in Goroutines, CalleeWrites(g) PROVE IInv'
  BY <1>0, <1>13 DEF CalleeWrites, FrameExclusive, HoldsFrame, PlanStands,
     CalleeSeesItsCall, CaptureStands, OwnResult, Planned
<1>14. ASSUME NEW g \in Goroutines, StackMoves(g) PROVE IInv'
  BY <1>0, <1>14 DEF StackMoves, FrameExclusive, HoldsFrame, PlanStands,
     CalleeSeesItsCall, CaptureStands, OwnResult, Planned
<1>15. ASSUME NEW f \in Frames, Collect(f) PROVE IInv'
  BY <1>0, <1>15 DEF Collect, FrameExclusive, HoldsFrame, PlanStands,
     CalleeSeesItsCall, CaptureStands, OwnResult, Planned
<1>16. CASE UNCHANGED vars
  BY <1>0, <1>16 DEF vars, FrameExclusive, HoldsFrame, PlanStands, CalleeSeesItsCall,
     CaptureStands, OwnResult, Planned
<1>17. ASSUME NEW g \in Goroutines, Step(g) PROVE IInv'
  BY <1>4, <1>5, <1>6, <1>7, <1>8, <1>9, <1>10, <1>11, <1>12, <1>17 DEF Step
<1>18. ASSUME NEW g \in Goroutines, NEW c \in Calls, NEW route \in Routes,
              NEW place \in {"heap", "stack"},
              \/ \E s \in Specs, f \in Frames : Get(g, c, s, f, route, place)
              \/ CallDirect(g, c, route, place)
       PROVE  IInv'
  BY <1>1, <1>2, <1>18
<1>19. ASSUME NEW g \in Goroutines, Step(g) \/ CalleeWrites(g) \/ StackMoves(g) PROVE IInv'
  BY <1>13, <1>14, <1>17, <1>19
<1>20. CASE Next
  BY <1>3, <1>15, <1>18, <1>19, <1>20 DEF Next
<1> QED
  BY <1>16, <1>20

\* Who holds which frame and what it finds there, for any number of calls.
THEOREM InvariantCorrect == Spec => []IInv
<1>1. Init => IInv
  BY InitIInv
<1>2. IInv /\ [Next]_vars => IInv'
  BY NextIInv
<1> QED
  BY <1>1, <1>2, PTL DEF Spec

\* Every variable keeps its type.
THEOREM TypeCorrect == Spec => []TypeOK
<1>1. IInv => TypeOK
  BY DEF IInv
<1> QED
  BY <1>1, InvariantCorrect, PTL

\* framePool never hands one frame to two calls, and never holds one in use.
THEOREM FrameExclusiveCorrect == Spec => []FrameExclusive
<1>1. IInv => FrameExclusive
  BY DEF IInv
<1> QED
  BY <1>1, InvariantCorrect, PTL

\* Every callee gets the function, registers and stack words of its own call.
THEOREM CalleeSeesItsCallCorrect == Spec => []CalleeSeesItsCall
<1>1. IInv => CalleeSeesItsCall
  BY DEF IInv
<1> QED
  BY <1>1, InvariantCorrect, PTL

\* Every Result is filled from the registers the call's own callee returned.
THEOREM OwnResultCorrect == Spec => []OwnResult
<1>1. IInv => OwnResult
  BY DEF IInv
<1> QED
  BY <1>1, InvariantCorrect, PTL

\* No result is lost that OutParam or the go:uintptrescapes of Call guards,
\* whatever calls the run makes and however often stacks move; one that neither
\* guards only after its stack has moved.
THEOREM WritesReachGoCorrect == Spec => []WritesReachGo
<1>1. IInv => WritesReachGo
  BY DEF IInv, StackPointees, WritesReachGo
<1> QED
  BY <1>1, InvariantCorrect, PTL
=============================================================================
