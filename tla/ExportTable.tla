----------------------------- MODULE ExportTable ----------------------------
(***************************************************************************)
(* What bindings/runtime/win32/loader.go promises its callers, with no     *)
(* Once, mutex or goroutine in sight: a module is decided once - mapped    *)
(* with some exports, or missing for the rest of the process - and every   *)
(* answer about one of its Procs, whenever and by whomever it is asked, is *)
(* read off that decision.                                                 *)
(***************************************************************************)
CONSTANTS DLLs, Procs, Dll, NoProc, Nil

VARIABLES
  module,    \* module[d]: undecided, missing, or mapped with its exports
  answers    \* every answer given so far, per Proc

tableVars == <<module, answers>>

Ops == {"Find", "Addr"}

Undecided == [state |-> "undecided", exports |-> {}]
Missing   == [state |-> "missing", exports |-> {}]
Mapped(e) == [state |-> "mapped", exports |-> e]

\* The one error there can be about p, given what its module is.
Error(p) ==
  CASE module[Dll[p]].state = "missing"     -> [dll |-> Dll[p], proc |-> NoProc]
    [] p \in module[Dll[p]].exports         -> Nil
    [] OTHER                                -> [dll |-> Dll[p], proc |-> p]

Init ==
  /\ module = [d \in DLLs |-> Undecided]
  /\ answers = [p \in Procs |-> {}]

\* The module is decided.
Decide(d) ==
  /\ module[d] = Undecided
  /\ \/ module' = [module EXCEPT ![d] = Missing]
     \/ \E e \in SUBSET Procs : module' = [module EXCEPT ![d] = Mapped(e)]
  /\ UNCHANGED answers

\* Some caller gets its answer to p.Find() or p.Addr().
Reply(p, o) ==
  /\ module[Dll[p]] # Undecided
  /\ answers' = [answers EXCEPT ![p] = @ \cup
       {[op |-> o, err |-> Error(p),
         addr |-> IF o = "Addr" /\ Error(p) = Nil THEN p ELSE NoProc]}]
  /\ UNCHANGED module

Next ==
  \/ \E d \in DLLs : Decide(d)
  \/ \E p \in Procs, o \in Ops : Reply(p, o)

Spec == Init /\ [][Next]_tableVars
=============================================================================
