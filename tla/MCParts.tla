------------------------------ MODULE MCParts -------------------------------
(***************************************************************************)
(* The small machines in one run: the array of services, the linked lists, *)
(* pm's task runner, pm's pool of headers and rosalina's cheats.  They     *)
(* share no state, so one moves only while the others are as they began.   *)
(* The pool is left alone once a pop was deceived.                         *)
(***************************************************************************)
EXTENDS ServiceTable, LinkedList, TaskRunner, ExHeaderInfoHeap, Cheats
CONSTANTS p1, p2, e1, e2, e3, e4
MCEntries == {e1, e2, e3, e4}
MCPids == {p1, p2}
MCOwner == [e \in MCEntries |-> IF e \in {e1, e2, e3} THEN p1 ELSE p2]
MCDepth == [t \in Threads |-> 1]

(* The others act on the same state as "access", or end at once.  After a   *)
(* first cheat, whatever it was, comes one of a single code.                *)
MCPrograms == BoundedSeq(Codes, 2) \cup BoundedSeq(Codes \ {"compute", "select", "invalid"}, 4)
MCFiles == BoundedSeq({"name", "code"}, 6)

TableAtRest == purging = NoPid /\ \A k \in Slots : servicesInfo[k] = Empty
ListsAtRest == first[Pool] = 1 /\ \A n \in Nodes : next[n] = IF n = NbNodes THEN Null ELSE n + 1
TasksAtRest == submitting = 0
HeapAtRest == HeapInit
CheatsAtRest == result = "none" /\ LoadInit

partsVars == <<vars, lvars, trvars, hpvars, icvars, listVars>>
TableStep(A) == /\ CheatsAtRest /\ ListsAtRest /\ TasksAtRest /\ HeapAtRest
                /\ A /\ UNCHANGED <<lvars, trvars, hpvars, icvars, listVars>>
ListStep(A) == /\ CheatsAtRest /\ TableAtRest /\ TasksAtRest /\ HeapAtRest
               /\ A /\ UNCHANGED <<vars, trvars, hpvars, icvars, listVars>>
TaskStep(A) == /\ CheatsAtRest /\ TableAtRest /\ ListsAtRest /\ HeapAtRest
               /\ A /\ UNCHANGED <<vars, lvars, hpvars, icvars, listVars>>
HeapAlone(A) == /\ CheatsAtRest /\ Init /\ ListInit /\ TaskInit
                /\ A /\ UNCHANGED <<vars, lvars, trvars, icvars, listVars>>
HeapStep(A) == ~reused /\ HeapAlone(A)
CheatStep(A) == /\ Init /\ ListInit /\ TaskInit /\ HeapInit /\ LoadInit
                /\ A /\ UNCHANGED <<vars, lvars, trvars, hpvars, listVars>>
CheatNext == Interpret \/ \E program \in IF result = "none" THEN Programs
                                        ELSE {<<"if">>, <<"until">>} : Apply(program)
Load == \E f \in IF file = <<>> THEN Files ELSE {g \in Files : Len(g) <= 3} :
            \E lines \in 0 .. Len(f) : LoadCheatsIntoMemory(f, lines)
LoadStep(A) == /\ InterpreterInit /\ Init /\ ListInit /\ TaskInit /\ HeapInit
               /\ A /\ UNCHANGED <<vars, lvars, trvars, hpvars, icvars>>

PartsInit == Init /\ ListInit /\ TaskInit /\ HeapInit /\ InterpreterInit /\ LoadInit
PartsNext == \/ TableStep(Next) \/ ListStep(ListNext) \/ TaskStep(TaskNext)
             \/ HeapStep(HeapNext) \/ CheatStep(CheatNext) \/ LoadStep(Load)

PartsSpec ==
    /\ PartsInit /\ [][PartsNext]_partsVars
    /\ WF_partsVars(TaskStep(CallerGoesOn)) /\ WF_partsVars(TaskStep(Runner))
    /\ WF_partsVars(CheatStep(Interpret))

(* The pool to the end, and the cheats, for what they do at their limits.   *)
EdgesSpec == PartsInit /\ [][HeapAlone(HeapNext) \/ CheatStep(CheatNext)]_partsVars
=============================================================================
