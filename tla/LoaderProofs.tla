---------------------------- MODULE LoaderProofs ----------------------------
(***************************************************************************)
(* The loader's invariants for every number of goroutines, modules and     *)
(* exports, and that it implements ExportTable.                            *)
(***************************************************************************)
EXTENDS Loader, TLAPS

\* NewDLL/NewProc leave every field at its zero value.
LEMMA InitTypeOK == Init => TypeOK
BY ConstantsAssumption
   DEF Init, TypeOK, PCs, Ops, Errors, Images, Image, NoFile, Answers

\* No step of a call, and no servicing of a file, leaves the types.
LEMMA NextTypeOK == TypeOK /\ [Next]_vars => TypeOK'
<1> SUFFICES ASSUME TypeOK, [Next]_vars PROVE TypeOK'
  OBVIOUS
<1> USE ConstantsAssumption
    DEF TypeOK, callVars, procVars, dllVars, Goto, MyDll, PCs, Ops
<1>1. ASSUME NEW g \in Goroutines, NEW p \in Procs, NEW o \in Ops, Call(g, p, o)
      PROVE  TypeOK'
  BY <1>1 DEF Call
<1>2. ASSUME NEW g \in Goroutines, FindFast(g) PROVE TypeOK'
  BY <1>2 DEF FindFast
<1>3. ASSUME NEW g \in Goroutines, FindSlow(g) PROVE TypeOK'
  BY <1>3 DEF FindSlow
<1>4. ASSUME NEW g \in Goroutines, ProcLocked(g) PROVE TypeOK'
  BY <1>4 DEF ProcLocked
<1>5. ASSUME NEW g \in Goroutines, LoadFast(g) PROVE TypeOK'
  BY <1>5 DEF LoadFast
<1>6. ASSUME NEW g \in Goroutines, LoadSlow(g) PROVE TypeOK'
  BY <1>6 DEF LoadSlow
<1>7. ASSUME NEW g \in Goroutines, DllLocked(g) PROVE TypeOK'
  BY <1>7 DEF DllLocked
<1>8. ASSUME NEW g \in Goroutines, LoadSystemDLL(g) PROVE TypeOK'
  BY <1>8 DEF LoadSystemDLL, ProcError, Errors, ProcErrors
<1>9. ASSUME NEW g \in Goroutines, DllOnceDone(g) PROVE TypeOK'
  BY <1>9 DEF DllOnceDone
<1>10. ASSUME NEW g \in Goroutines, Loaded(g) PROVE TypeOK'
  BY <1>10 DEF Loaded
<1>11. ASSUME NEW g \in Goroutines, GetProcAddress(g) PROVE TypeOK'
  BY <1>11 DEF GetProcAddress, ProcError, Errors, ProcErrors
<1>12. ASSUME NEW g \in Goroutines, ProcOnceDone(g) PROVE TypeOK'
  BY <1>12 DEF ProcOnceDone
<1>13. ASSUME NEW g \in Goroutines, Return(g) PROVE TypeOK'
  <2>1. Answer(op[g], arg[g]) \in Answers
    BY <1>13 DEF Return, Answer, Answers
  <2> QED
    BY <1>13, <2>1 DEF Return
<1>14. ASSUME NEW d \in DLLs, ServiceFile(d) PROVE TypeOK'
  <2>1. ASSUME NEW i \in Images(d) PROVE i \in Image
    <3>1. CASE i = NoFile
      BY <3>1 DEF Image, NoFile
    <3>2. CASE i # NoFile
      <4>1. PICK e \in SUBSET {p \in Procs : Dll[p] = d} : i = File(e)
        BY <3>2 DEF Images
      <4> QED
        BY <4>1 DEF File, Image
    <3> QED
      BY <3>1, <3>2
  <2> QED
    BY <1>14, <2>1 DEF ServiceFile
<1>15. CASE UNCHANGED vars
  BY <1>15 DEF vars
<1> QED
  BY <1>1, <1>2, <1>3, <1>4, <1>5, <1>6, <1>7, <1>8, <1>9, <1>10, <1>11, <1>12,
     <1>13, <1>14, <1>15 DEF Next, Step

\* Every variable of the loader keeps its type.
THEOREM TypeCorrect == Spec => []TypeOK
<1>1. Init => TypeOK
  BY InitTypeOK
<1>2. TypeOK /\ [Next]_vars => TypeOK'
  BY NextTypeOK
<1> QED
  BY <1>1, <1>2, PTL DEF Spec

\* Nothing is resolved when the package variables are initialised.
LEMMA InitIInv == Init => IInv
<1> SUFFICES ASSUME Init PROVE IInv
  OBVIOUS
<1>1. TypeOK
  BY InitTypeOK
<1>2. OnceInv
  BY ConstantsAssumption DEF Init, OnceInv, InFind, InLoad
<1>3. DllInv
  BY DEF Init, DllInv, FreshDll
<1>4. ProcInv
  BY DEF Init, ProcInv, FreshProc, InFind
<1>5. AnswerInv
  BY DEF Init, AnswerInv
<1> QED
  BY <1>1, <1>2, <1>3, <1>4, <1>5 DEF IInv

\* Every step of a call preserves the ownership of the Onces and what the
\* fields they guard hold.
LEMMA NextIInv == IInv /\ [Next]_vars => IInv'
<1> SUFFICES ASSUME IInv, [Next]_vars PROVE IInv'
  OBVIOUS
<1> USE ConstantsAssumption
    DEF IInv, TypeOK, callVars, procVars, dllVars, Goto, MyDll
<1>0. TypeOK'
  BY NextTypeOK
<1>1. ASSUME NEW g \in Goroutines, NEW p \in Procs, NEW o \in Ops, Call(g, p, o) PROVE IInv'
  <2>1. OnceInv'
    BY <1>1, <1>0 DEF Call, OnceInv, InFind, InLoad
  <2>2. DllInv'
    BY <1>1, <1>0 DEF Call, OnceInv, DllInv, InFind, InLoad, FreshDll, DecidedDll
  <2>3. ProcInv'
    BY <1>1, <1>0 DEF Call, OnceInv, DllInv, ProcInv, InFind, InLoad, FreshProc, DecidedProc, FreshDll, DecidedDll, ErrorOf
  <2>4. AnswerInv'
    BY <1>1, <1>0 DEF Call, ProcInv, OnceInv, AnswerInv, Answer, InFind
  <2> QED
    BY <1>0, <2>1, <2>2, <2>3, <2>4
<1>2. ASSUME NEW g \in Goroutines, FindFast(g) PROVE IInv'
  <2>1. OnceInv'
    BY <1>2, <1>0 DEF FindFast, OnceInv, InFind, InLoad
  <2>2. DllInv'
    BY <1>2, <1>0 DEF FindFast, OnceInv, DllInv, InFind, InLoad, FreshDll, DecidedDll
  <2>3. ProcInv'
    BY <1>2, <1>0 DEF FindFast, OnceInv, DllInv, ProcInv, InFind, InLoad, FreshProc, DecidedProc, FreshDll, DecidedDll, ErrorOf
  <2>4. AnswerInv'
    BY <1>2, <1>0 DEF FindFast, ProcInv, OnceInv, AnswerInv, Answer, InFind
  <2> QED
    BY <1>0, <2>1, <2>2, <2>3, <2>4
<1>3. ASSUME NEW g \in Goroutines, FindSlow(g) PROVE IInv'
  <2>1. OnceInv'
    BY <1>3, <1>0 DEF FindSlow, OnceInv, InFind, InLoad
  <2>2. DllInv'
    BY <1>3, <1>0 DEF FindSlow, OnceInv, DllInv, InFind, InLoad, FreshDll, DecidedDll
  <2>3. ProcInv'
    BY <1>3, <1>0 DEF FindSlow, OnceInv, DllInv, ProcInv, InFind, InLoad, FreshProc, DecidedProc, FreshDll, DecidedDll, ErrorOf
  <2>4. AnswerInv'
    BY <1>3, <1>0 DEF FindSlow, ProcInv, OnceInv, AnswerInv, Answer, InFind
  <2> QED
    BY <1>0, <2>1, <2>2, <2>3, <2>4
<1>4. ASSUME NEW g \in Goroutines, ProcLocked(g) PROVE IInv'
  <2>1. OnceInv'
    BY <1>4, <1>0 DEF ProcLocked, OnceInv, InFind, InLoad
  <2>2. DllInv'
    BY <1>4, <1>0 DEF ProcLocked, OnceInv, DllInv, InFind, InLoad, FreshDll, DecidedDll
  <2>3. ProcInv'
    BY <1>4, <1>0 DEF ProcLocked, OnceInv, DllInv, ProcInv, InFind, InLoad, FreshProc, DecidedProc, FreshDll, DecidedDll, ErrorOf
  <2>4. AnswerInv'
    BY <1>4, <1>0 DEF ProcLocked, ProcInv, OnceInv, AnswerInv, Answer, InFind
  <2> QED
    BY <1>0, <2>1, <2>2, <2>3, <2>4
<1>5. ASSUME NEW g \in Goroutines, LoadFast(g) PROVE IInv'
  <2>1. OnceInv'
    BY <1>5, <1>0 DEF LoadFast, OnceInv, InFind, InLoad
  <2>2. DllInv'
    BY <1>5, <1>0 DEF LoadFast, OnceInv, DllInv, InFind, InLoad, FreshDll, DecidedDll
  <2>3. ProcInv'
    BY <1>5, <1>0 DEF LoadFast, OnceInv, DllInv, ProcInv, InFind, InLoad, FreshProc, DecidedProc, FreshDll, DecidedDll, ErrorOf
  <2>4. AnswerInv'
    BY <1>5, <1>0 DEF LoadFast, ProcInv, OnceInv, AnswerInv, Answer, InFind
  <2> QED
    BY <1>0, <2>1, <2>2, <2>3, <2>4
<1>6. ASSUME NEW g \in Goroutines, LoadSlow(g) PROVE IInv'
  <2>1. OnceInv'
    BY <1>6, <1>0 DEF LoadSlow, OnceInv, InFind, InLoad
  <2>2. DllInv'
    BY <1>6, <1>0 DEF LoadSlow, OnceInv, DllInv, InFind, InLoad, FreshDll, DecidedDll
  <2>3. ProcInv'
    BY <1>6, <1>0 DEF LoadSlow, OnceInv, DllInv, ProcInv, InFind, InLoad, FreshProc, DecidedProc, FreshDll, DecidedDll, ErrorOf
  <2>4. AnswerInv'
    BY <1>6, <1>0 DEF LoadSlow, ProcInv, OnceInv, AnswerInv, Answer, InFind
  <2> QED
    BY <1>0, <2>1, <2>2, <2>3, <2>4
<1>7. ASSUME NEW g \in Goroutines, DllLocked(g) PROVE IInv'
  <2>1. OnceInv'
    BY <1>7, <1>0 DEF DllLocked, OnceInv, InFind, InLoad
  <2>2. DllInv'
    BY <1>7, <1>0 DEF DllLocked, OnceInv, DllInv, InFind, InLoad, FreshDll, DecidedDll
  <2>3. ProcInv'
    BY <1>7, <1>0 DEF DllLocked, OnceInv, DllInv, ProcInv, InFind, InLoad, FreshProc, DecidedProc, FreshDll, DecidedDll, ErrorOf
  <2>4. AnswerInv'
    BY <1>7, <1>0 DEF DllLocked, ProcInv, OnceInv, AnswerInv, Answer, InFind
  <2> QED
    BY <1>0, <2>1, <2>2, <2>3, <2>4
<1>8. ASSUME NEW g \in Goroutines, LoadSystemDLL(g) PROVE IInv'
  <2>1. OnceInv'
    BY <1>8, <1>0 DEF LoadSystemDLL, OnceInv, InFind, InLoad
  <2>2. DllInv'
    BY <1>8, <1>0 DEF LoadSystemDLL, OnceInv, DllInv, InFind, InLoad, FreshDll, DecidedDll, Image, NoFile, ProcError
  <2>3. ProcInv'
    <3>1. MyDll(g) \in DLLs /\ ~dllDone[MyDll(g)]
      BY <1>8, <1>0 DEF LoadSystemDLL, OnceInv, InLoad
    <3>2. \A d \in DLLs : dllDone[d] => handle'[d] = handle[d]
      BY <1>8, <3>1 DEF LoadSystemDLL
    <3>3. \A p \in Procs : DecidedProc(p) => DecidedProc(p)'
      BY <1>8, <3>2 DEF LoadSystemDLL, DecidedProc, ErrorOf, ProcError
    <3>4. \A p \in Procs : FreshProc(p) => FreshProc(p)'
      BY <1>8 DEF LoadSystemDLL, FreshProc
    <3>5. pc[g] \in InFind \ {"procDone"} /\ pc'[g] = "dllDone"
      BY <1>8 DEF LoadSystemDLL, InFind
    <3> QED
      BY <1>8, <3>3, <3>4, <3>5 DEF LoadSystemDLL, ProcInv, InFind
  <2>4. AnswerInv'
    BY <1>8, <1>0 DEF LoadSystemDLL, ProcInv, OnceInv, AnswerInv, Answer, InFind
  <2> QED
    BY <1>0, <2>1, <2>2, <2>3, <2>4
<1>9. ASSUME NEW g \in Goroutines, DllOnceDone(g) PROVE IInv'
  <2>1. OnceInv'
    BY <1>9, <1>0 DEF DllOnceDone, OnceInv, InFind, InLoad
  <2>2. DllInv'
    BY <1>9, <1>0 DEF DllOnceDone, OnceInv, DllInv, InFind, InLoad, FreshDll, DecidedDll
  <2>3. ProcInv'
    BY <1>9, <1>0 DEF DllOnceDone, OnceInv, DllInv, ProcInv, InFind, InLoad, FreshProc, DecidedProc, FreshDll, DecidedDll, ErrorOf
  <2>4. AnswerInv'
    BY <1>9, <1>0 DEF DllOnceDone, ProcInv, OnceInv, AnswerInv, Answer, InFind
  <2> QED
    BY <1>0, <2>1, <2>2, <2>3, <2>4
<1>10. ASSUME NEW g \in Goroutines, Loaded(g) PROVE IInv'
  <2>1. OnceInv'
    BY <1>10, <1>0 DEF Loaded, OnceInv, InFind, InLoad
  <2>2. DllInv'
    BY <1>10, <1>0 DEF Loaded, OnceInv, DllInv, InFind, InLoad, FreshDll, DecidedDll, Image, NoFile, ProcError
  <2>3. ProcInv'
    BY <1>10, <1>0 DEF Loaded, OnceInv, DllInv, ProcInv, InFind, InLoad, FreshProc, DecidedProc, FreshDll, DecidedDll, ErrorOf, Image, NoFile, ProcError
  <2>4. AnswerInv'
    BY <1>10, <1>0 DEF Loaded, ProcInv, OnceInv, AnswerInv, Answer, InFind
  <2> QED
    BY <1>0, <2>1, <2>2, <2>3, <2>4
<1>11. ASSUME NEW g \in Goroutines, GetProcAddress(g) PROVE IInv'
  <2>1. OnceInv'
    BY <1>11, <1>0 DEF GetProcAddress, OnceInv, InFind, InLoad
  <2>2. DllInv'
    BY <1>11, <1>0 DEF GetProcAddress, OnceInv, DllInv, InFind, InLoad, FreshDll, DecidedDll, Image, NoFile, ProcError
  <2>3. ProcInv'
    BY <1>11, <1>0 DEF GetProcAddress, OnceInv, DllInv, ProcInv, InFind, InLoad, FreshProc, DecidedProc, FreshDll, DecidedDll, ErrorOf, Image, NoFile, ProcError
  <2>4. AnswerInv'
    BY <1>11, <1>0 DEF GetProcAddress, ProcInv, OnceInv, AnswerInv, Answer, InFind
  <2> QED
    BY <1>0, <2>1, <2>2, <2>3, <2>4
<1>12. ASSUME NEW g \in Goroutines, ProcOnceDone(g) PROVE IInv'
  <2>1. OnceInv'
    BY <1>12, <1>0 DEF ProcOnceDone, OnceInv, InFind, InLoad
  <2>2. DllInv'
    BY <1>12, <1>0 DEF ProcOnceDone, OnceInv, DllInv, InFind, InLoad, FreshDll, DecidedDll
  <2>3. ProcInv'
    BY <1>12, <1>0 DEF ProcOnceDone, OnceInv, DllInv, ProcInv, InFind, InLoad, FreshProc, DecidedProc, FreshDll, DecidedDll, ErrorOf
  <2>4. AnswerInv'
    BY <1>12, <1>0 DEF ProcOnceDone, ProcInv, OnceInv, AnswerInv, Answer, InFind
  <2> QED
    BY <1>0, <2>1, <2>2, <2>3, <2>4
<1>13. ASSUME NEW g \in Goroutines, Return(g) PROVE IInv'
  <2>1. OnceInv'
    BY <1>13, <1>0 DEF Return, OnceInv, InFind, InLoad
  <2>2. DllInv'
    BY <1>13, <1>0 DEF Return, OnceInv, DllInv, InFind, InLoad, FreshDll, DecidedDll
  <2>3. ProcInv'
    BY <1>13, <1>0 DEF Return, OnceInv, DllInv, ProcInv, InFind, InLoad, FreshProc, DecidedProc, FreshDll, DecidedDll, ErrorOf
  <2>4. AnswerInv'
    BY <1>13, <1>0 DEF Return, ProcInv, OnceInv, AnswerInv, Answer, InFind
  <2> QED
    BY <1>0, <2>1, <2>2, <2>3, <2>4
<1>14. ASSUME NEW d \in DLLs, ServiceFile(d) PROVE IInv'
  <2>1. OnceInv'
    BY <1>14, <1>0 DEF ServiceFile, OnceInv, InFind, InLoad
  <2>2. DllInv'
    BY <1>14, <1>0 DEF ServiceFile, OnceInv, DllInv, InFind, InLoad, FreshDll, DecidedDll
  <2>3. ProcInv'
    BY <1>14, <1>0 DEF ServiceFile, OnceInv, DllInv, ProcInv, InFind, InLoad, FreshProc, DecidedProc, FreshDll, DecidedDll, ErrorOf
  <2>4. AnswerInv'
    BY <1>14, <1>0 DEF ServiceFile, ProcInv, OnceInv, AnswerInv, Answer, InFind
  <2> QED
    BY <1>0, <2>1, <2>2, <2>3, <2>4
<1>15. CASE UNCHANGED vars
  BY <1>15 DEF vars, OnceInv, DllInv, ProcInv, AnswerInv, FreshDll, DecidedDll,
     FreshProc, DecidedProc, ErrorOf, Answer
<1> QED
  BY <1>1, <1>2, <1>3, <1>4, <1>5, <1>6, <1>7, <1>8, <1>9, <1>10, <1>11, <1>12, <1>13, <1>14, <1>15 DEF Next, Step

\* The invariant holds in every reachable state, whatever the constants.
THEOREM InvariantCorrect == Spec => []IInv
<1>1. Init => IInv
  BY InitIInv
<1>2. IInv /\ [Next]_vars => IInv'
  BY NextIInv
<1> QED
  BY <1>1, <1>2, PTL DEF Spec

\* All callers of a Proc get one verdict: every answer is the Answer the
\* decided fields give.
THEOREM SameAnswerCorrect == Spec => []SameAnswer
<1>1. IInv => SameAnswer
  BY DEF IInv, AnswerInv, Answer, SameAnswer
<1> QED
  BY <1>1, InvariantCorrect, PTL

\* The verdict is about the image that is mapped.
THEOREM AnswerMatchesImageCorrect == Spec => []AnswerMatchesImage
<1>1. IInv => AnswerMatchesImage
  <2> SUFFICES ASSUME IInv, NEW p \in Procs, NEW a \in answers[p]
               PROVE  LET image == handle[Dll[p]] IN
                      /\ IsDLLNotFound(a.err) <=> ~image.present
                      /\ IsProcNotFound(a.err) <=> image.present /\ p \notin image.exports
                      /\ a.op = "Addr" /\ a.err = Nil => a.addr = p
                      /\ a.err # Nil => a.err.dll = Dll[p] /\ a.err.proc \in {p, NoProc}
    BY DEF AnswerMatchesImage
  <2>1. procDone[p] /\ a = Answer(a.op, p)
    BY DEF IInv, AnswerInv
  <2>2. a.err = ErrorOf(p) /\ addr[p] = IF a.err = Nil THEN p ELSE NoProc
    BY <2>1 DEF IInv, ProcInv, DecidedProc, Answer
  <2>3. a.addr = IF a.op = "Addr" /\ a.err = Nil THEN addr[p] ELSE NoProc
    BY <2>1 DEF Answer
  <2> QED
    BY <2>2, <2>3, ConstantsAssumption
       DEF ErrorOf, ProcError, IsDLLNotFound, IsProcNotFound
<1> QED
  BY <1>1, InvariantCorrect, PTL

\* A module is loaded, and an export looked up, at most once per process.
THEOREM AtMostOneLookupCorrect == Spec => []AtMostOneLookup
<1>1. IInv => AtMostOneLookup
  <2> SUFFICES ASSUME IInv PROVE AtMostOneLookup
    OBVIOUS
  <2>1. ASSUME NEW d \in DLLs PROVE loads[d] <= 1
    <3>1. CASE dllDone[d]
      BY <3>1 DEF IInv, DllInv, DecidedDll
    <3>2. CASE ~dllDone[d] /\ dllMutex[d] = NoG
      BY <3>2 DEF IInv, DllInv, FreshDll
    <3>3. CASE dllMutex[d] # NoG
      BY <3>3 DEF IInv, TypeOK, OnceInv, InLoad, DllInv, FreshDll, DecidedDll
    <3> QED
      BY <3>1, <3>2, <3>3
  <2>2. ASSUME NEW p \in Procs PROVE lookups[p] <= 1
    <3>1. CASE procDone[p]
      BY <3>1 DEF IInv, ProcInv, DecidedProc
    <3>2. CASE ~procDone[p] /\ procMutex[p] = NoG
      BY <3>2 DEF IInv, ProcInv, FreshProc
    <3>3. CASE procMutex[p] # NoG
      BY <3>3 DEF IInv, TypeOK, OnceInv, InFind, ProcInv, FreshProc, DecidedProc
    <3> QED
      BY <3>1, <3>2, <3>3
  <2> QED
    BY <2>1, <2>2 DEF AtMostOneLookup
<1> QED
  BY <1>1, InvariantCorrect, PTL

\* The unlocked reads of addr, err and handle never race with a write.
THEOREM NoDataRaceCorrect == Spec => []NoDataRace
<1>1. IInv => NoDataRace
  BY ConstantsAssumption
     DEF IInv, TypeOK, OnceInv, DllInv, ProcInv, NoDataRace, InFind, InLoad, MyDll
<1> QED
  BY <1>1, InvariantCorrect, PTL

\* A published result never changes again.
THEOREM ResultsAreFinalCorrect == Spec => ResultsAreFinal
<1> DEFINE Final ==
      /\ \A p \in Procs : procDone[p] =>
           procDone'[p] /\ addr'[p] = addr[p] /\ procErr'[p] = procErr[p]
      /\ \A d \in DLLs : dllDone[d] =>
           dllDone'[d] /\ handle'[d] = handle[d] /\ dllErr'[d] = dllErr[d]
<1>1. IInv /\ [Next]_vars => [Final]_vars
  <2> SUFFICES ASSUME IInv, Next PROVE Final
    OBVIOUS
  <2> USE ConstantsAssumption
      DEF IInv, TypeOK, procVars, dllVars, Goto, MyDll
  <2>1. ASSUME NEW g \in Goroutines, Step(g) PROVE Final
    <3>1. CASE ProcLocked(g) \/ DllLocked(g)
      BY <3>1 DEF ProcLocked, DllLocked
    <3>2. CASE LoadSystemDLL(g) \/ DllOnceDone(g)
      BY <2>1, <3>2 DEF LoadSystemDLL, DllOnceDone, OnceInv, InLoad
    <3>3. CASE Loaded(g) \/ GetProcAddress(g) \/ ProcOnceDone(g)
      BY <2>1, <3>3 DEF Loaded, GetProcAddress, ProcOnceDone, OnceInv, InFind
    <3>4. CASE FindFast(g) \/ FindSlow(g) \/ LoadFast(g) \/ LoadSlow(g) \/ Return(g)
      BY <3>4 DEF FindFast, FindSlow, LoadFast, LoadSlow, Return
    <3> QED
      BY <2>1, <3>1, <3>2, <3>3, <3>4 DEF Step
  <2> QED
    BY <2>1 DEF Next, Call, ServiceFile
<1> QED
  BY <1>1, InvariantCorrect, PTL DEF Spec, ResultsAreFinal
\* The loader implements the export table: DllOnceDone is the decision,
\* Return is the reply, every other step stutters.
THEOREM Implements == Spec => ImplementsTable
<1> DEFINE module == [d \in DLLs |->
      [state   |-> IF ~dllDone[d] THEN "undecided"
                   ELSE IF handle[d].present THEN "mapped" ELSE "missing",
       exports |-> IF dllDone[d] THEN handle[d].exports ELSE {}]]
<1>1. Init => Table!Init
  BY DEF Init, Table!Init, Table!Undecided
<1>2. IInv /\ [Next]_vars => [Table!Next]_(Table!tableVars)
  <2> SUFFICES ASSUME IInv, [Next]_vars PROVE [Table!Next]_(Table!tableVars)
    OBVIOUS
  <2> USE ConstantsAssumption
      DEF IInv, TypeOK, procVars, dllVars, Goto, MyDll, Table!tableVars
  <2>1. ASSUME NEW g \in Goroutines, DllOnceDone(g) PROVE Table!Next
    <3> DEFINE d == MyDll(g)
    <3>1. d \in DLLs /\ ~dllDone[d] /\ DecidedDll(d)
      BY <2>1 DEF DllOnceDone, OnceInv, InLoad, DllInv
    <3>2. module[d] = Table!Undecided
      BY <3>1 DEF Table!Undecided
    <3>3. module' = [module EXCEPT ![d] =
             IF handle[d].present THEN Table!Mapped(handle[d].exports)
             ELSE Table!Missing]
      BY <2>1, <3>1 DEF DllOnceDone, Image, Table!Mapped, Table!Missing
    <3>4. handle[d].exports \in SUBSET Procs
      BY <3>1 DEF Image
    <3>5. UNCHANGED answers
      BY <2>1 DEF DllOnceDone
    <3> QED
      BY <3>1, <3>2, <3>3, <3>4, <3>5 DEF Table!Next, Table!Decide
  <2>2. ASSUME NEW g \in Goroutines, Return(g) PROVE Table!Next
    <3> DEFINE p == arg[g]
    <3>1. p \in Procs /\ op[g] \in Ops /\ DecidedProc(p)
      BY <2>2 DEF Return, ProcInv
    <3>2. module[Dll[p]] # Table!Undecided
      BY <3>1 DEF DecidedProc, Table!Undecided
    <3>3. Table!Error(p) = ErrorOf(p)
      BY <3>1 DEF Table!Error, ErrorOf, ProcError, DecidedProc, Image
    <3>4. Answer(op[g], p) =
            [op |-> op[g], err |-> Table!Error(p),
             addr |-> IF op[g] = "Addr" /\ Table!Error(p) = Nil THEN p ELSE NoProc]
      BY <3>1, <3>3 DEF DecidedProc, Answer
    <3>5. module' = module
      BY <2>2 DEF Return
    <3>6. Table!Reply(p, op[g])
      BY <2>2, <3>2, <3>4, <3>5 DEF Return, Table!Reply
    <3> QED
      BY <3>1, <3>6 DEF Table!Next, Ops, Table!Ops
  <2>3. ASSUME NEW g \in Goroutines, LoadSystemDLL(g) PROVE UNCHANGED Table!tableVars
    <3>1. ~dllDone[MyDll(g)]
      BY <2>3 DEF LoadSystemDLL, OnceInv, InLoad
    <3>2. \A d \in DLLs : dllDone'[d] = dllDone[d] /\ (dllDone[d] => handle'[d] = handle[d])
      BY <2>3, <3>1 DEF LoadSystemDLL
    <3>3. UNCHANGED answers
      BY <2>3 DEF LoadSystemDLL
    <3> QED
      BY <3>2, <3>3
  <2>4. ASSUME UNCHANGED <<dllDone, handle, answers>> PROVE UNCHANGED Table!tableVars
    BY <2>4
  <2>5. ASSUME NEW g \in Goroutines, Step(g), ~DllOnceDone(g), ~Return(g),
               ~LoadSystemDLL(g)
        PROVE  UNCHANGED <<dllDone, handle, answers>>
    BY <2>5 DEF Step, FindFast, FindSlow, ProcLocked, LoadFast, LoadSlow, DllLocked,
                Loaded, GetProcAddress, ProcOnceDone
  <2> QED
    BY <2>1, <2>2, <2>3, <2>4, <2>5 DEF Next, Call, ServiceFile, vars
<1> QED
  BY <1>1, <1>2, InvariantCorrect, PTL DEF Spec, ImplementsTable, Table!Spec
=============================================================================
