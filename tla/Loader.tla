------------------------------- MODULE Loader -------------------------------
(***************************************************************************)
(* Lazy resolution of Windows exports: bindings/runtime/win32/loader.go.   *)
(*                                                                         *)
(* A package-level *Proc is shared by every goroutine of the program.      *)
(* Find and Addr both go through Proc.find, which runs its body under the  *)
(* Proc's sync.Once; that body calls DLL.load, which runs LoadLibraryExW   *)
(* under the sync.Once of the *DLL all the Procs of one module share.      *)
(* A pc per goroutine exposes every point where another goroutine, or      *)
(* Windows servicing the file on disk, can run in between.                 *)
(***************************************************************************)
EXTENDS Naturals, FiniteSets

CONSTANTS
  Goroutines,   \* goroutines that call Find and Addr
  DLLs,         \* package-level *DLL values
  Procs,        \* package-level *Proc values
  Dll,          \* Dll[p]: the *DLL that Proc p was made from by DLL.NewProc
  NoG,          \* "no goroutine": a free mutex
  NoProc,       \* "" as ProcError.Proc, and 0 as an address
  Nil           \* the nil error

ASSUME ConstantsAssumption ==
  /\ Dll \in [Procs -> DLLs]
  /\ NoG \notin Goroutines
  /\ NoProc \notin Procs
  /\ Nil \notin [dll : DLLs, proc : Procs \cup {NoProc}]

\* ProcError{DLL, Proc}: Proc is NoProc when the module itself did not load.
ProcError(d, p) == [dll |-> d, proc |-> p]
ProcErrors == [dll : DLLs, proc : Procs \cup {NoProc}]
Errors == ProcErrors \cup {Nil}

\* ProcError.Is: which of the two sentinels an error matches.
IsDLLNotFound(e)  == e # Nil /\ e.proc = NoProc
IsProcNotFound(e) == e # Nil /\ e.proc # NoProc

\* A module's image: in System32, or as mapped behind DLL.handle. NoFile is a
\* module that is absent from System32, and the zero handle.
NoFile == [present |-> FALSE, exports |-> {}]
File(exports) == [present |-> TRUE, exports |-> exports]
Image == {i \in [present : BOOLEAN, exports : SUBSET Procs] :
            i.present \/ i.exports = {}}
\* What Windows may ship as the file of module d.
Images(d) == {NoFile} \cup {File(e) : e \in SUBSET {p \in Procs : Dll[p] = d}}

Ops == {"Find", "Addr"}

\* What a call gives its caller: Find's error (Nil: none), Addr's address,
\* or the value Addr panicked with.
Answers == [op : Ops, addr : Procs \cup {NoProc}, err : Errors]

\* Program points of Find/Addr -> find -> Once.Do -> load -> Once.Do.
PCs == {"idle", "find", "procLock", "load", "dllLock", "loadLibrary",
        "dllDone", "loaded", "getProc", "procDone", "ret"}

\* The points at which a goroutine holds a Proc's Once, and its DLL's too.
InFind == {"load", "dllLock", "loadLibrary", "dllDone", "loaded", "getProc",
           "procDone"}
InLoad == {"loadLibrary", "dllDone"}

VARIABLES
  pc, op, arg,          \* per goroutine: program point, method, receiver
  procDone, procMutex,  \* Proc.once
  addr, procErr,        \* Proc.addr, Proc.err
  dllDone, dllMutex,    \* DLL.once
  handle, dllErr,       \* DLL.handle (the image it maps), DLL.err
  disk,                 \* what System32 holds now
  loads, lookups,       \* LoadLibraryExW / GetProcAddress calls made so far
  answers               \* every answer given so far, per Proc

callVars == <<pc, op, arg>>
procVars == <<procDone, procMutex, addr, procErr>>
dllVars  == <<dllDone, dllMutex, handle, dllErr>>
vars     == <<callVars, procVars, dllVars, disk, loads, lookups, answers>>

\* NewDLL and NewProc: package variables are initialised before any caller.
Init ==
  /\ pc = [g \in Goroutines |-> "idle"]
  /\ op = [g \in Goroutines |-> "Find"]
  /\ arg = [g \in Goroutines |-> NoProc]
  /\ procDone  = [p \in Procs |-> FALSE]
  /\ procMutex = [p \in Procs |-> NoG]
  /\ addr      = [p \in Procs |-> NoProc]
  /\ procErr   = [p \in Procs |-> Nil]
  /\ dllDone   = [d \in DLLs |-> FALSE]
  /\ dllMutex  = [d \in DLLs |-> NoG]
  /\ handle    = [d \in DLLs |-> NoFile]
  /\ dllErr    = [d \in DLLs |-> Nil]
  /\ disk \in [DLLs -> Image] /\ \A d \in DLLs : disk[d] \in Images(d)
  /\ loads     = [d \in DLLs |-> 0]
  /\ lookups   = [p \in Procs |-> 0]
  /\ answers   = [p \in Procs |-> {}]

Goto(g, from, to) == pc[g] = from /\ pc' = [pc EXCEPT ![g] = to]

MyDll(g) == Dll[arg[g]]

\* A caller invokes p.Find() or p.Addr().
Call(g, p, o) ==
  /\ Goto(g, "idle", "find")
  /\ op'  = [op EXCEPT ![g] = o]
  /\ arg' = [arg EXCEPT ![g] = p]
  /\ UNCHANGED <<procVars, dllVars, disk, loads, lookups, answers>>

\* Proc.once.Do: the atomic read of done decides between the fast path and
\* the mutex.
FindFast(g) ==
  /\ Goto(g, "find", "ret")
  /\ procDone[arg[g]]
  /\ UNCHANGED <<op, arg, procVars, dllVars, disk, loads, lookups, answers>>

FindSlow(g) ==
  /\ Goto(g, "find", "procLock")
  /\ ~procDone[arg[g]]
  /\ UNCHANGED <<op, arg, procVars, dllVars, disk, loads, lookups, answers>>

\* Mutants of ProcLocked: the second check left out; done set before the body
\* has run, as a compare-and-swap flag would.
ProcLocked_NoRecheck(g) ==
  /\ Goto(g, "procLock", "load")
  /\ procMutex[arg[g]] = NoG
  /\ procMutex' = [procMutex EXCEPT ![arg[g]] = g]
  /\ UNCHANGED <<op, arg, procDone, addr, procErr, dllVars, disk, loads, lookups,
                 answers>>

ProcLocked_DoneEarly(g) ==
  LET p == arg[g] IN
  /\ Goto(g, "procLock", IF procDone[p] THEN "ret" ELSE "load")
  /\ procMutex[p] = NoG
  /\ procMutex' = [procMutex EXCEPT ![p] = IF procDone[p] THEN NoG ELSE g]
  /\ procDone' = [procDone EXCEPT ![p] = TRUE]
  /\ UNCHANGED <<op, arg, addr, procErr, dllVars, disk, loads, lookups, answers>>

\* ... under the mutex done is read again: the loser of the race returns.
ProcLocked(g) ==
  LET p == arg[g] IN
  /\ Goto(g, "procLock", IF procDone[p] THEN "ret" ELSE "load")
  /\ procMutex[p] = NoG
  /\ procMutex' = [procMutex EXCEPT ![p] = IF procDone[p] THEN NoG ELSE g]
  /\ UNCHANGED <<op, arg, procDone, addr, procErr, dllVars, disk, loads, lookups,
                 answers>>

\* DLL.load: the same two steps on DLL.once, with Proc.once held.
LoadFast(g) ==
  /\ Goto(g, "load", "loaded")
  /\ dllDone[MyDll(g)]
  /\ UNCHANGED <<op, arg, procVars, dllVars, disk, loads, lookups, answers>>

LoadSlow(g) ==
  /\ Goto(g, "load", "dllLock")
  /\ ~dllDone[MyDll(g)]
  /\ UNCHANGED <<op, arg, procVars, dllVars, disk, loads, lookups, answers>>

\* Mutant of DllLocked: the second check left out.
DllLocked_NoRecheck(g) ==
  /\ Goto(g, "dllLock", "loadLibrary")
  /\ dllMutex[MyDll(g)] = NoG
  /\ dllMutex' = [dllMutex EXCEPT ![MyDll(g)] = g]
  /\ UNCHANGED <<op, arg, procVars, dllDone, handle, dllErr, disk, loads, lookups,
                 answers>>

DllLocked(g) ==
  LET d == MyDll(g) IN
  /\ Goto(g, "dllLock", IF dllDone[d] THEN "loaded" ELSE "loadLibrary")
  /\ dllMutex[d] = NoG
  /\ dllMutex' = [dllMutex EXCEPT ![d] = IF dllDone[d] THEN NoG ELSE g]
  /\ UNCHANGED <<op, arg, procVars, dllDone, handle, dllErr, disk, loads, lookups,
                 answers>>

\* loadSystemDLL runs once per module. Its name cannot be encoded, and
\* LoadLibraryExW is not called; or it is called and fails, because the file is
\* absent or cannot be mapped; or the module is mapped as System32 holds it now.
LoadSystemDLL(g) ==
  LET d == MyDll(g) IN
  /\ Goto(g, "loadLibrary", "dllDone")
  /\ \/ /\ dllErr' = [dllErr EXCEPT ![d] = ProcError(d, NoProc)]
        /\ UNCHANGED <<handle, loads>>
     \/ /\ loads' = [loads EXCEPT ![d] = @ + 1]
        /\ dllErr' = [dllErr EXCEPT ![d] = ProcError(d, NoProc)]
        /\ UNCHANGED handle
     \/ /\ disk[d].present
        /\ loads' = [loads EXCEPT ![d] = @ + 1]
        /\ handle' = [handle EXCEPT ![d] = disk[d]]
        /\ dllErr' = [dllErr EXCEPT ![d] = Nil]
  /\ UNCHANGED <<op, arg, procVars, dllDone, dllMutex, disk, lookups, answers>>

\* Once.Do's deferred done.Store(1) and Unlock, of the DLL.
DllOnceDone(g) ==
  LET d == MyDll(g) IN
  /\ Goto(g, "dllDone", "loaded")
  /\ dllDone'  = [dllDone EXCEPT ![d] = TRUE]
  /\ dllMutex' = [dllMutex EXCEPT ![d] = NoG]
  /\ UNCHANGED <<op, arg, procVars, handle, dllErr, disk, loads, lookups, answers>>

\* Mutant of Loaded: the error of load is not looked at.
Loaded_IgnoresError(g) ==
  /\ Goto(g, "loaded", "getProc")
  /\ UNCHANGED <<op, arg, procVars, dllVars, disk, loads, lookups, answers>>

\* load returned d.err: find keeps it as its own, or goes on to look up.
Loaded(g) ==
  LET p == arg[g]
      e == dllErr[MyDll(g)] IN
  /\ Goto(g, "loaded", IF e = Nil THEN "getProc" ELSE "procDone")
  /\ procErr' = [procErr EXCEPT ![p] = IF e = Nil THEN @ ELSE e]
  /\ UNCHANGED <<op, arg, procDone, procMutex, addr, dllVars, disk, loads, lookups,
                 answers>>

\* syscall.GetProcAddress on the mapped image.
GetProcAddress(g) ==
  LET p == arg[g]
      d == MyDll(g) IN
  /\ Goto(g, "getProc", "procDone")
  /\ lookups' = [lookups EXCEPT ![p] = @ + 1]
  /\ IF p \in handle[d].exports
     THEN addr' = [addr EXCEPT ![p] = p] /\ UNCHANGED procErr
     ELSE procErr' = [procErr EXCEPT ![p] = ProcError(d, p)] /\ UNCHANGED addr
  /\ UNCHANGED <<op, arg, procDone, procMutex, dllVars, disk, loads, answers>>

\* Mutant of ProcOnceDone: the mutex is not released.
ProcOnceDone_KeepsLock(g) ==
  /\ Goto(g, "procDone", "ret")
  /\ procDone' = [procDone EXCEPT ![arg[g]] = TRUE]
  /\ UNCHANGED <<op, arg, procMutex, addr, procErr, dllVars, disk, loads, lookups,
                 answers>>

\* Once.Do's deferred done.Store(1) and Unlock, of the Proc.
ProcOnceDone(g) ==
  LET p == arg[g] IN
  /\ Goto(g, "procDone", "ret")
  /\ procDone'  = [procDone EXCEPT ![p] = TRUE]
  /\ procMutex' = [procMutex EXCEPT ![p] = NoG]
  /\ UNCHANGED <<op, arg, addr, procErr, dllVars, disk, loads, lookups, answers>>

\* find returned p.err: Find reports it; Addr panics with it, or returns
\* p.addr.
Answer(o, p) ==
  [op   |-> o,
   err  |-> procErr[p],
   addr |-> IF o = "Addr" /\ procErr[p] = Nil THEN addr[p] ELSE NoProc]

\* The call's frame is gone with it: op and arg are reset.
Return(g) ==
  LET p == arg[g] IN
  /\ Goto(g, "ret", "idle")
  /\ answers' = [answers EXCEPT ![p] = @ \cup {Answer(op[g], p)}]
  /\ op'  = [op EXCEPT ![g] = "Find"]
  /\ arg' = [arg EXCEPT ![g] = NoProc]
  /\ UNCHANGED <<procVars, dllVars, disk, loads, lookups>>

\* External: Windows installs, services or removes the file of a module while
\* the program runs (an optional component, an update). An image that is
\* already mapped is not affected: the runtime never frees a DLL.
ServiceFile(d) ==
  /\ \E image \in Images(d) : image # disk[d] /\ disk' = [disk EXCEPT ![d] = image]
  /\ UNCHANGED <<callVars, procVars, dllVars, loads, lookups, answers>>

Step(g) ==
  \/ FindFast(g) \/ FindSlow(g) \/ ProcLocked(g)
  \/ LoadFast(g) \/ LoadSlow(g) \/ DllLocked(g)
  \/ LoadSystemDLL(g) \/ DllOnceDone(g) \/ Loaded(g)
  \/ GetProcAddress(g) \/ ProcOnceDone(g) \/ Return(g)

Next ==
  \/ \E g \in Goroutines, p \in Procs, o \in Ops : Call(g, p, o)
  \/ \E g \in Goroutines : Step(g)
  \/ \E d \in DLLs : ServiceFile(d)

Spec == Init /\ [][Next]_vars

\* The Go scheduler runs every runnable goroutine, and LoadLibraryExW and
\* GetProcAddress return: weak fairness of each goroutine's steps. Nothing
\* makes a caller call, or Windows service a file.
FairSpec == Spec /\ \A g \in Goroutines : WF_vars(Step(g))

-----------------------------------------------------------------------------
(* Properties *)

\* Every variable keeps the type its Go declaration gives it; a goroutine
\* inside find has a receiver.
TypeOK ==
  /\ pc \in [Goroutines -> PCs]
  /\ op \in [Goroutines -> Ops]
  /\ arg \in [Goroutines -> Procs \cup {NoProc}]
  /\ \A g \in Goroutines : pc[g] # "idle" => arg[g] \in Procs
  /\ procDone \in [Procs -> BOOLEAN]
  /\ procMutex \in [Procs -> Goroutines \cup {NoG}]
  /\ addr \in [Procs -> Procs \cup {NoProc}]
  /\ procErr \in [Procs -> Errors]
  /\ dllDone \in [DLLs -> BOOLEAN]
  /\ dllMutex \in [DLLs -> Goroutines \cup {NoG}]
  /\ handle \in [DLLs -> Image]
  /\ dllErr \in [DLLs -> Errors]
  /\ disk \in [DLLs -> Image]
  /\ loads \in [DLLs -> Nat]
  /\ lookups \in [Procs -> Nat]
  /\ answers \in [Procs -> SUBSET Answers]

\* However many goroutines race, and however often Windows services the file,
\* all callers of one Proc get one verdict: a Find that reported no error is
\* never followed by an Addr that panics, Addr panics with the *ProcError Find
\* returns, and two Addr calls return one address (Proc.find, Addr, Find).
SameAnswer ==
  \A p \in Procs : \A a, b \in answers[p] :
    /\ a.err = b.err
    /\ a.op = b.op => a = b

\* The verdict is about the image the process has mapped: no error exactly
\* when it exports p, ErrProcNotFound exactly when it is mapped without p,
\* ErrDLLNotFound exactly when it could not be mapped, and an address that is
\* returned is p's (loadSystemDLL, Proc.find, ProcError.Is).
AnswerMatchesImage ==
  \A p \in Procs : \A a \in answers[p] :
    LET image == handle[Dll[p]] IN
    /\ IsDLLNotFound(a.err) <=> ~image.present
    /\ IsProcNotFound(a.err) <=> image.present /\ p \notin image.exports
    /\ a.op = "Addr" /\ a.err = Nil => a.addr = p
    /\ a.err # Nil => a.err.dll = Dll[p] /\ a.err.proc \in {p, NoProc}

\* Probing is memoized: a module is loaded at most once and an export looked
\* up at most once, even when the first attempt failed (DLL.once, Proc.once).
AtMostOneLookup ==
  /\ \A d \in DLLs : loads[d] <= 1
  /\ \A p \in Procs : lookups[p] <= 1

\* addr, err and handle are read without a lock: nobody is about to read the
\* fields of a Proc (or DLL) that another goroutine may still write.
NoDataRace ==
  \A g, h \in Goroutines :
    /\ pc[g] = "ret" /\ pc[h] \in InFind => arg[g] # arg[h]
    /\ pc[g] \in {"loaded", "getProc"} /\ pc[h] \in InLoad => MyDll(g) # MyDll(h)

\* A published result is final: once a Once is done no step changes the fields
\* it guards, not even after the file on disk changed.
ResultsAreFinal ==
  [][/\ \A p \in Procs : procDone[p] =>
           procDone'[p] /\ addr'[p] = addr[p] /\ procErr'[p] = procErr[p]
     /\ \A d \in DLLs : dllDone[d] =>
           dllDone'[d] /\ handle'[d] = handle[d] /\ dllErr'[d] = dllErr[d]]_vars

\* The nested Onces (a Proc's held while its DLL's is taken) never leave a
\* caller waiting for ever: every call of Find or Addr returns or panics.
EveryCallReturns ==
  \A g \in Goroutines : pc[g] # "idle" ~> pc[g] = "idle"

-----------------------------------------------------------------------------
(* Refinement: a module is decided in the table at the moment its Once is   *)
(* marked done.                                                             *)
Table == INSTANCE ExportTable WITH
  module <- [d \in DLLs |->
     [state   |-> IF ~dllDone[d] THEN "undecided"
                  ELSE IF handle[d].present THEN "mapped" ELSE "missing",
      exports |-> IF dllDone[d] THEN handle[d].exports ELSE {}]]

\* The runtime implements the export table: seen from outside, the races on
\* the Onces and the two-stage lookup are one decision per module and answers
\* read off it.
ImplementsTable == Table!Spec

-----------------------------------------------------------------------------
(* The inductive invariant: who holds which Once, and what the guarded      *)
(* fields hold before, while and after its body runs.                       *)

\* The fields of a DLL whose Once body has not run, and has run.
FreshDll(d) == handle[d] = NoFile /\ dllErr[d] = Nil /\ loads[d] = 0
DecidedDll(d) ==
  /\ dllErr[d] = IF handle[d].present THEN Nil ELSE ProcError(d, NoProc)
  /\ loads[d] <= 1

\* The error a decided Proc holds, as a function of the mapped image.
ErrorOf(p) ==
  IF ~handle[Dll[p]].present THEN ProcError(Dll[p], NoProc)
  ELSE IF p \in handle[Dll[p]].exports THEN Nil ELSE ProcError(Dll[p], p)

FreshProc(p) == addr[p] = NoProc /\ procErr[p] = Nil /\ lookups[p] = 0
DecidedProc(p) ==
  /\ dllDone[Dll[p]]
  /\ procErr[p] = ErrorOf(p)
  /\ addr[p] = IF procErr[p] = Nil THEN p ELSE NoProc
  /\ lookups[p] <= 1

\* Each Once has at most one owner, and none when it is done.
OnceInv ==
  /\ \A g \in Goroutines, p \in Procs :
       procMutex[p] = g <=> pc[g] \in InFind /\ arg[g] = p
  /\ \A g \in Goroutines, d \in DLLs :
       dllMutex[d] = g <=> pc[g] \in InLoad /\ MyDll(g) = d
  /\ \A p \in Procs : procDone[p] => procMutex[p] = NoG
  /\ \A d \in DLLs : dllDone[d] => dllMutex[d] = NoG

DllInv ==
  /\ \A d \in DLLs :
       /\ dllDone[d] => DecidedDll(d)
       /\ ~dllDone[d] /\ dllMutex[d] = NoG => FreshDll(d)
  /\ \A g \in Goroutines :
       /\ pc[g] = "loadLibrary" => FreshDll(MyDll(g))
       /\ pc[g] = "dllDone" => DecidedDll(MyDll(g))
       /\ pc[g] \in {"loaded", "getProc"} => dllDone[MyDll(g)]
       /\ pc[g] = "getProc" => dllErr[MyDll(g)] = Nil

ProcInv ==
  /\ \A p \in Procs :
       /\ procDone[p] => DecidedProc(p)
       /\ ~procDone[p] /\ procMutex[p] = NoG => FreshProc(p)
  /\ \A g \in Goroutines :
       /\ pc[g] \in InFind \ {"procDone"} => FreshProc(arg[g])
       /\ pc[g] = "procDone" => DecidedProc(arg[g])
       /\ pc[g] = "ret" => procDone[arg[g]]

AnswerInv ==
  \A p \in Procs : \A a \in answers[p] : procDone[p] /\ a = Answer(a.op, p)

IInv == TypeOK /\ OnceInv /\ DllInv /\ ProcInv /\ AnswerInv
=============================================================================
